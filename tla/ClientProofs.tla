---------------------------- MODULE ClientProofs ----------------------------
(***************************************************************************)
(* What the pages of the web client keep to, for every number of jobs,     *)
(* descriptions, meetings, messages, networks and requests, whatever order *)
(* the answers come in.  Pages share no state, so that the invariant of    *)
(* each is kept by its own steps alone (PagesApart); most of the proofs    *)
(* are about one page, its invariant, and the theorem that follows.        *)
(***************************************************************************)
EXTENDS ClientProperties, RpcProofs

\* A step of the client is one of the page at hand, and that page stays:
\* every disjunct of the next-state relation carries its focus.
LEMMA PagesApart ==
  ASSUME ClientNext
  PROVE  /\ focus' = focus
         /\ On("subscription") => SubscriptionNext
         /\ On("swipe") => SwipeNext
         /\ On("similar") => SimilarNext
         /\ On("wallet") => WalletUser \/ \E a \in asks : WalletStep(a)
         /\ On("meetings") => MeetingsNext
         /\ On("messages") => MessagesNext
         /\ On("profile") => ProfileUser \/ Elsewhere(JobIds) \/ \E a \in asks : ProfileAnswer(a)
              \/ ProfileStep(a)
         /\ On("descriptions") => DescriptionsNext
         /\ On("recent") => RecentNext
         /\ On("builder") => BuilderNext
         /\ On("notices") => NoticesNext
         /\ On("network") => NetworkNext
         /\ On("export") => ExportUser \/ LedgerGrows \/ \E a \in asks : ExportPage(a)
BY DEF On, ClientNext, Visits, HappensTo, Meanwhile, WidgetMoves,
  JobPageUser, DashboardUser, BulkUser, ProfileUser, AdminUser, DisputesUser, WalletUser,
    TransactionsUser, ExportUser,
  JobPageAnswer, JobPageStep, DashboardAnswer, DashboardStep, BulkAnswer, BulkPageStep,
    ProfileAnswer, ProfileStep,
  AdminAnswer, AdminStep, DisputesAnswer, DisputesStep, WalletStep, TransactionsStep, ExportPage,
    OnProfile, LedgerGrows,
  SubscriptionNext, DescriptionNext, ViewsNext, SimilarNext, ConfirmNext, SavedNext,
  FeedNext, FiltersNext, SearchNext, PrefsNext, SwipeNext, PullNext, DescriptionsNext,
  BatchNext, OrderNext, WidgetsNext, RecentNext, PostNext, FeeNext, EditorNext,
  BuilderNext, CelebrationNext, MessagesNext, TypingNext, MeetingsNext, NoticesNext,
  FlagsNext, BannerNext, NetworkNext

\* A behaviour of a page begins as that page does, with the wallet and the
\* requests its effects leave after the first rendering.
LEMMA PagesBegin ==
  ASSUME ClientInit
  PROVE  /\ On("subscription") => SubscriptionInit
         /\ On("swipe") => SwipeInit
         /\ On("similar") => SimilarInit /\ asks = {}
         /\ On("wallet") => WalletInit
         /\ On("meetings") => MeetingsInit
         /\ On("messages") => MessagesInit /\ wallet = Client
         /\ On("profile") => ProfileInit /\ jobs = TwoJobs("Completed", "InProgress")
              /\ Reading("access", [next |-> 0, seen |-> Nothing])
         /\ On("descriptions") => DescriptionsInit /\ asks = {}
         /\ On("recent") => RecentInit
         /\ On("builder") => BuilderInit
         /\ On("notices") => NoticesInit
         /\ On("network") => NetworkInit
         /\ On("export") => ExportInit
BY DEF On, ClientInit, JobPagesInit, WidgetsInitially, Starts,
  JobPageInit, DashboardInit, BulkInit, SavedInit, FeedInit, ProfileInit, AdminInit, DisputesInit,
    TransactionsInit,
  SubscriptionInit, DescriptionInit, ViewsInit, SimilarInit, ConfirmInit, FiltersInit, SearchInit,
    PrefsInit, SwipeInit,
  PullInit, DescriptionsInit, BatchInit, OrderInit, WidgetsInit, RecentInit, PostInit, FeeInit,
    EditorInit,
  MessagesInit, TypingInit, MeetingsInit, NoticesInit, NetworkInit, BuilderInit, CelebrationInit,
    FlagsInit, BannerInit,
  WalletInit, ExportInit

-----------------------------------------------------------------------------
(***************************************************************************)
(* Requests: what asking and answering does to the set of them.            *)
(***************************************************************************)
IsAsk(a) == a = [id |-> a.id, op |-> a.op, arg |-> a.arg, answer |-> a.answer, seen |-> a.seen]

LEMMA NewAsk == ASSUME NEW id, NEW op, NEW arg
  PROVE IsAsk(Ask(id, op, arg)) /\ Ask(id, op, arg).op = op /\ Ask(id, op, arg).arg = arg
    /\ Ask(id, op, arg).answer = "none"
BY DEF IsAsk, Ask

LEMMA SaidAsk == ASSUME NEW a, IsAsk(a), NEW answer, NEW seen, Says(a, answer, seen)
  PROVE  \E b : /\ asks' = (asks \ {a}) \cup {b} /\ IsAsk(b)
                /\ b.op = a.op /\ b.arg = a.arg /\ b.answer = answer /\ b.seen = seen
<1>1. PICK b : b = [a EXCEPT !.answer = answer, !.seen = seen]
  OBVIOUS
<1>2. IsAsk(b) /\ b.op = a.op /\ b.arg = a.arg /\ b.answer = answer /\ b.seen = seen
  BY <1>1 DEF IsAsk
<1>3. asks' = (asks \ {a}) \cup {b}
  BY <1>1 DEF Says
<1> QED
  BY <1>2, <1>3

-----------------------------------------------------------------------------
(***************************************************************************)
(* The stream of updates of a job: where it is not connected the page      *)
(* polls.                                                                  *)
(***************************************************************************)
SubscriptionInv ==
  /\ ui = [mounted |-> ui.mounted, stream |-> ui.stream, polling |-> ui.polling, retry |-> ui.retry,
           status |-> ui.status]
  /\ ui.mounted /\ ui.status # "disconnected" => ui.stream \/ ui.polling

LEMMA SubscriptionKept == ASSUME SubscriptionInv, SubscriptionNext  PROVE SubscriptionInv'
<1>1. CASE attemptConnection
  BY <1>1 DEF SubscriptionInv, attemptConnection, Sets
<1>2. CASE onmessage
  BY <1>2 DEF SubscriptionInv, onmessage, Sets
<1>3. CASE onerror
  BY <1>3 DEF SubscriptionInv, onerror, Sets
<1>4. CASE Unsubscribe
  BY <1>4 DEF SubscriptionInv, Unsubscribe, Sets
<1> QED
  BY <1>1, <1>2, <1>3, <1>4 DEF SubscriptionNext

\* A mounted page whose subscription has not given up has a source of news,
\* after any sequence of errors, retries and messages of the event stream
\* (lib/websocket.ts).
THEOREM NewsNeverStops == ClientSpec => []NeverBlind
<1> DEFINE Inv == On("subscription") => SubscriptionInv
<1>1. ClientInit => Inv
  BY PagesBegin DEF SubscriptionInit, SubscriptionInv
<1>2. Inv /\ [ClientNext]_clientVars => Inv'
  <2> SUFFICES ASSUME Inv, [ClientNext]_clientVars, focus' = "subscription"  PROVE SubscriptionInv'
    BY DEF On
  <2>1. CASE ClientNext
    BY <2>1, PagesApart, SubscriptionKept DEF On
  <2>2. CASE UNCHANGED clientVars
    BY <2>2 DEF On, clientVars, pageVars, SubscriptionInv
  <2> QED
    BY <2>1, <2>2
<1>3. Inv => NeverBlind
  BY DEF NeverBlind, SubscriptionInv
<1> QED
  BY <1>1, <1>2, <1>3, PTL DEF ClientSpec

-----------------------------------------------------------------------------
(***************************************************************************)
(* A card under the finger.  What a gesture may do is looked up when it    *)
(* ends, so that the last thing done is an action the card offers.         *)
(***************************************************************************)
SwipeInv ==
  /\ ui = [offset |-> ui.offset, pinned |-> ui.pinned, menu |-> ui.menu, hold |-> ui.hold,
           disabled |-> ui.disabled, did |-> ui.did, can |-> ui.can]
  /\ ui.can \in [accept : BOOLEAN, cancel : BOOLEAN]
  /\ ui.did \in {"none", "accept", "cancel", "bookmark"}
  /\ ui.did \in {"accept", "cancel"} => ui.can[ui.did]

LEMMA SwipeKept == ASSUME SwipeInv, SwipeNext  PROVE SwipeInv'
<1>1. ASSUME NEW px, Dragged(px)  PROVE SwipeInv'
  BY <1>1 DEF Dragged, Sets, Quiet, SwipeInv
<1>2. ASSUME NEW x \in {"none", "bookmark", "accept", "cancel"},
        x \in {"accept", "cancel"} => ui.can[x], Sets(SwipeExecutes(x))
      PROVE SwipeInv'
  BY <1>2 DEF Sets, SwipeExecutes, Closed, Quiet, SwipeInv
<1>3. ASSUME NEW flick, Released(flick)  PROVE SwipeInv'
  <2> DEFINE px == ui.offset + flick
  <2>1. /\ resolveSwipeOutcome(px, ui.can).action \in {"none", "bookmark", "accept", "cancel"}
        /\ resolveSwipeOutcome(px, ui.can).action \in {"accept", "cancel"}
             => ui.can[resolveSwipeOutcome(px, ui.can).action]
    BY DEF resolveSwipeOutcome, Outcome, SwipeInv
  <2>2. CASE Sets(SwipeExecutes(resolveSwipeOutcome(px, ui.can).action))
    BY <2>1, <2>2, <1>2
  <2>3. ASSUME \E p, o : Sets([Quiet EXCEPT !.pinned = p, !.offset = o])  PROVE SwipeInv'
    BY <2>3 DEF Sets, Quiet, SwipeInv
  <2>5. resolveSwipeOutcome(px, ui.can).mode = "reveal" /\ Released(flick)
          => \E p, o : Sets([Quiet EXCEPT !.pinned = p, !.offset = o])
    BY DEF Released, resolveSwipeOutcome, Outcome
  <2>6. Released(flick) => resolveSwipeOutcome(px, ui.can).mode = "reveal"
          \/ Sets(SwipeExecutes(resolveSwipeOutcome(px, ui.can).action)) \/ Sets(Closed(Quiet))
    BY DEF Released
  <2>4. CASE Sets(Closed(Quiet))
    BY <2>4 DEF Sets, Closed, Quiet, SwipeInv
  <2> QED
    BY <1>3, <2>2, <2>3, <2>4, <2>5, <2>6
<1>4. CASE UnderlayPressed
  BY <1>4, <1>2 DEF UnderlayPressed, LeftAction, SwipeInv
<1>5. CASE ActionChosen
  BY <1>5, <1>2 DEF ActionChosen, ActionsOffered, SwipeInv
<1>6. CASE Tapped \/ handleHoldStart \/ HoldTimer \/ HoldEnded \/ MenuToggled \/ EscapePressed
  BY <1>6 DEF Tapped, handleHoldStart, HoldTimer, HoldEnded, MenuToggled, EscapePressed, Sets,
     Closed, Quiet, SwipeInv
<1>7. CASE CardChanges
  <2>1. PICK disabled \in BOOLEAN, accept \in BOOLEAN, cancel \in BOOLEAN :
          ui' = [Quiet EXCEPT !.disabled = disabled,
                              !.can = [accept |-> accept /\ ~disabled,
                                       cancel |-> cancel /\ ~disabled]]
    BY <1>7 DEF CardChanges, Sets
  <2>2. PICK can \in [accept : BOOLEAN, cancel : BOOLEAN] : ui' =
          [Quiet EXCEPT !.disabled = disabled, !.can = can]
    <3>1. [accept |-> accept /\ ~disabled, cancel |-> cancel /\ ~disabled]
          \in [accept : BOOLEAN, cancel : BOOLEAN]
      OBVIOUS
    <3> QED
      BY <2>1, <3>1
  <2> QED
    BY <2>2 DEF Quiet, SwipeInv
<1> QED
  BY <1>1, <1>3, <1>4, <1>5, <1>6, <1>7 DEF SwipeNext

LEMMA SwipeBegin == ASSUME SwipeInit  PROVE SwipeInv
<1>1. [accept |-> TRUE, cancel |-> FALSE] \in [accept : BOOLEAN, cancel : BOOLEAN]
  OBVIOUS
<1>2. PICK can : can = [accept |-> TRUE, cancel |-> FALSE]
  OBVIOUS
<1>3. ui = [offset |-> 0, pinned |-> "none", menu |-> FALSE, hold |-> FALSE, disabled |-> FALSE,
            did |-> "none", can |-> can]
  BY <1>2 DEF SwipeInit
<1> QED
  BY <1>1, <1>2, <1>3 DEF SwipeInv

\* A swipe, a menu or a key acts only as the card allows at that moment, for
\* every drag and flick (components/SwipeableJobCard.tsx).
THEOREM SwipesAreOffered == ClientSpec => []SwipeWasOffered
<1> DEFINE Inv == On("swipe") => SwipeInv
<1>1. ClientInit => Inv
  BY PagesBegin, SwipeBegin
<1>2. Inv /\ [ClientNext]_clientVars => Inv'
  <2> SUFFICES ASSUME Inv, [ClientNext]_clientVars, focus' = "swipe"  PROVE SwipeInv'
    BY DEF On
  <2>1. CASE ClientNext
    BY <2>1, PagesApart, SwipeKept DEF On
  <2>2. CASE UNCHANGED clientVars
    BY <2>2 DEF On, clientVars, pageVars, SwipeInv
  <2> QED
    BY <2>1, <2>2
<1>3. Inv => SwipeWasOffered
  BY DEF SwipeWasOffered, SwipeInv
<1> QED
  BY <1>1, <1>2, <1>3, PTL DEF ClientSpec

-----------------------------------------------------------------------------
(***************************************************************************)
(* Similar jobs.  A request that is not cancelled is the one for what is   *)
(* chosen now, so that its answer may be shown.                            *)
(***************************************************************************)
SimilarInv ==
  /\ ui = [key |-> ui.key, shownFor |-> ui.shownFor, busy |-> ui.busy, results |-> ui.results,
           dismissed |-> ui.dismissed]
  /\ \A a \in asks : IsAsk(a) /\ a.op \in {"getSimilarJobs", "cancelled"}
       /\ (a.op = "getSimilarJobs" => a.arg = ui.key)
  /\ ~ui.busy => ui.shownFor = ui.key

LEMMA SimilarAsked == ASSUME SimilarInv, NEW key, NEW busy, getSimilarJobs(key, busy),
    busy = TRUE \/ (key = ui.key /\ busy = ui.busy)
  PROVE SimilarInv'
<1> DEFINE cancelled == {[a EXCEPT !.op = "cancelled"] : a \in asks}
<1>1. \A a \in cancelled : IsAsk(a) /\ a.op = "cancelled"
  BY DEF SimilarInv, IsAsk
<1>2. CASE store.cache.key = key
  BY <1>1, <1>2 DEF getSimilarJobs, Arrives, SimilarInv
<1>3. CASE store.cache.key # key
  <2>1. ui' = [ui EXCEPT !.key = key, !.busy = busy]
    BY <1>3 DEF getSimilarJobs
  <2>2. asks' = cancelled \cup {Ask(FreeId(asks), "getSimilarJobs", key)}
    BY <1>3 DEF getSimilarJobs
  <2> HIDE DEF cancelled
  <2>3. ui'.key = key /\ ui'.busy = busy /\ ui'.shownFor = ui.shownFor /\ (SimilarInv!1)'
    BY <2>1 DEF SimilarInv
  <2>4. (SimilarInv!2)'
    BY <2>2, <2>3, <1>1, NewAsk DEF SimilarInv
  <2>5. (~ui.busy => ui.shownFor = ui.key)'
    BY <2>3 DEF SimilarInv
  <2> QED
    BY <2>3, <2>4, <2>5 DEF SimilarInv
<1> QED
  BY <1>2, <1>3

LEMMA SimilarKept == ASSUME SimilarInv, SimilarNext  PROVE SimilarInv'
<1>1. CASE SimilarMounted \/ SimilarJobReloaded
  BY <1>1, SimilarAsked DEF SimilarMounted, SimilarJobReloaded
<1>2. ASSUME NEW c \in Criteria, handleCriteriaChange(c)  PROVE SimilarInv'
  <2>1. CASE getSimilarJobs(c, TRUE)
    BY <2>1, SimilarAsked
  <2>2. CASE Sets([ui EXCEPT !.busy = TRUE])
    BY <2>2 DEF Sets, SimilarInv
  <2> QED
    BY <1>2, <2>1, <2>2 DEF handleCriteriaChange
<1>3. CASE SimilarRemount
  BY <1>3 DEF SimilarRemount, SimilarInv, IsAsk
<1>4. CASE SimilarCacheExpires \/ Elsewhere(JobIds \ {ThisJob})
  BY <1>4 DEF SimilarCacheExpires, Elsewhere, SimilarInv
<1>5. ASSUME NEW j \in JobIds, handleNotInterested(j)  PROVE SimilarInv'
  BY <1>5 DEF handleNotInterested, SimilarInv
<1>6. ASSUME NEW a \in asks, SimilarArrived(a) \/ SimilarFailed(a)  PROVE SimilarInv'
  BY <1>6 DEF SimilarArrived, SimilarFailed, Cancelled, Arrives, Settled, SimilarInv
<1>7. ASSUME NEW a \in asks, AnswerRead(a)  PROVE SimilarInv'
  BY <1>7, SaidAsk DEF AnswerRead, SimilarInv
<1> QED
  BY <1>1, <1>2, <1>3, <1>4, <1>5, <1>6, <1>7 DEF SimilarNext

\* What is shown once loading ends belongs to the choice made last, in
\* whatever order searches are answered (components/SimilarJobs.tsx).
THEOREM SimilarJobsMatchTheChoice == ClientSpec => []SimilarMatchesChoice
<1> DEFINE Inv == On("similar") => SimilarInv
<1>1. ClientInit => Inv
  BY PagesBegin DEF SimilarInit, SimilarInv
<1>2. Inv /\ [ClientNext]_clientVars => Inv'
  <2> SUFFICES ASSUME Inv, [ClientNext]_clientVars, focus' = "similar"  PROVE SimilarInv'
    BY DEF On
  <2>1. CASE ClientNext
    BY <2>1, PagesApart, SimilarKept DEF On
  <2>2. CASE UNCHANGED clientVars
    BY <2>2 DEF On, clientVars, pageVars, SimilarInv, IsAsk
  <2> QED
    BY <2>1, <2>2
<1>3. Inv => SimilarMatchesChoice
  BY DEF SimilarMatchesChoice, SimilarInv
<1> QED
  BY <1>1, <1>2, <1>3, PTL DEF ClientSpec

-----------------------------------------------------------------------------
(***************************************************************************)
(* The wallet.  The dialog of consent is opened by the same step that sets *)
(* a new wallet; who has disconnected has also withdrawn from being        *)
(* reconnected, so that no request for the old session is under way after  *)
(* a reload.                                                               *)
(***************************************************************************)
WalletInv ==
  /\ ui = [extension |-> ui.extension, modal |-> ui.modal, connecting |-> ui.connecting,
           switching |-> ui.switching, left |-> ui.left]
  /\ store = [last |-> store.last, auto |-> store.auto, data |-> store.data, legal |-> store.legal,
              failures |-> store.failures, wait |-> store.wait]
  /\ ui.modal \in BOOLEAN
  /\ \A a \in asks : IsAsk(a)
  /\ wallet # NoOne /\ ~store.legal => ui.modal
  /\ ui.left # "no" => store.auto = "false"
  /\ ui.left = "reloaded" => wallet = NoOne /\ \A a \in asks : a.op = "connect"

\* What changing the wallet does to the consent.
LEMMA SetKeeps ==
  ASSUME WalletInv, NEW who, NEW u, NEW s, SetsWallet(who, u, s),
         u = [extension |-> u.extension, modal |-> ui.modal, connecting |-> u.connecting,
              switching |-> u.switching, left |-> u.left],
         s = [last |-> s.last, auto |-> s.auto, data |-> s.data, legal |-> store.legal,
              failures |-> s.failures, wait |-> s.wait]
  PROVE  /\ ui' = [extension |-> ui'.extension, modal |-> ui'.modal, connecting |-> ui'.connecting,
                   switching |-> ui'.switching, left |-> ui'.left]
         /\ store' = [last |-> store'.last, auto |-> store'.auto, data |-> store'.data,
                      legal |-> store'.legal,
                      failures |-> store'.failures, wait |-> store'.wait]
         /\ ui'.modal \in BOOLEAN
         /\ wallet' # NoOne /\ ~store'.legal => ui'.modal
         /\ ui'.left = u.left /\ store'.auto = s.auto
<1>1. ui'.modal = (ui.modal \/ (who \notin {wallet, NoOne} /\ ~store.legal))
  BY DEF SetsWallet, hasAcceptedLegal
<1>2. ui' = [extension |-> ui'.extension, modal |-> ui'.modal, connecting |-> ui'.connecting,
             switching |-> ui'.switching, left |-> u.left]
  BY DEF SetsWallet
<1>3. /\ store' = [last |-> store'.last, auto |-> s.auto, data |-> store'.data, legal |-> store.legal,
                   failures |-> store'.failures, wait |-> store'.wait]
      /\ wallet' = who
  BY DEF SetsWallet
<1>4. ui'.modal \in BOOLEAN /\ (wallet' # NoOne /\ ~store'.legal => ui'.modal)
  <2>1. ui'.modal \in BOOLEAN
    BY <1>1, Zenon
  <2>2. ASSUME wallet' # NoOne, ~store'.legal
        PROVE ui.modal \/ (who \notin {wallet, NoOne} /\ ~store.legal)
    BY <1>3, <2>2 DEF WalletInv
  <2> QED
    BY <1>1, <2>1, <2>2, Zenon
<1> QED
  BY <1>2, <1>3, <1>4

\* What is asked for again and again is asked for once.
LEMMA AskedOnceShape ==
  ASSUME NEW op, NEW arg, asks' = AskedOnce(op, arg), \A a \in asks : IsAsk(a)
  PROVE  \A a \in asks' : IsAsk(a) /\ (a \in asks \/ a.op = op)
BY NewAsk DEF AskedOnce

LEMMA WalletKept ==
  ASSUME WalletInv, WalletUser \/ \E a \in asks : WalletStep(a)  PROVE WalletInv'
<1>1. CASE WalletReloaded
  BY <1>1 DEF WalletReloaded, WalletInv, Mounted, Fresh, getAutoReconnectPreference, IsAsk, Ask
<1>2. CASE ExtensionChanges
  BY <1>2 DEF ExtensionChanges, Sets, WalletInv
<1>3. CASE WatcherFires
  <2>1. PICK s : s = persistLastAccount(store, ui.extension.account)
    OBVIOUS
  <2>2. s = [last |-> s.last, auto |-> store.auto, data |-> s.data, legal |-> store.legal,
             failures |-> s.failures, wait |-> s.wait]
    BY <2>1 DEF WalletInv, persistLastAccount
  <2>3. SetsWallet(ui.extension.account, ui, s) /\ asks' = asks /\ wallet # NoOne
    BY <1>3, <2>1 DEF WatcherFires
  <2> QED
    BY <2>2, <2>3, SetKeeps DEF WalletInv
<1>4. CASE checkAccountChange
  BY <1>4, AskedOnceShape DEF checkAccountChange, Goes, WalletInv
<1>5. CASE AttemptsForgiven
  BY <1>5 DEF AttemptsForgiven, Keeps, WalletInv
<1>6. CASE handleSwitchConfirm
  <2>1. CASE Goes([ui EXCEPT !.switching = TRUE], AskedOnce("switch", wallet))
    BY <1>6, <2>1, AskedOnceShape DEF handleSwitchConfirm, Goes, WalletInv
  <2>2. CASE Keeps(recordConnectionFailure(store))
    BY <2>2 DEF Keeps, recordConnectionFailure, WalletInv
  <2> QED
    BY <1>6, <2>1, <2>2 DEF handleSwitchConfirm
<1>7. CASE disconnectWallet
  BY <1>7 DEF disconnectWallet, clearPersistedWalletSession, clearWalletData,
     setAutoReconnectPreference, persistLastAccount, WalletInv
<1>8. CASE acceptLegal \/ declineLegal
  BY <1>8 DEF acceptLegal, declineLegal, WalletInv
<1>9. ASSUME NEW b \in Buttons, connectWallet(b)  PROVE WalletInv'
  <2>1. \A a \in asks' : IsAsk(a) /\ (a \in asks \/ a.op = "connect")
    BY <1>9, AskedOnceShape DEF connectWallet, Goes, AccessRequests, WalletInv
  <2> QED
    BY <1>9, <2>1 DEF connectWallet, Goes, WalletInv
<1>10. ASSUME NEW a \in asks, AccountAnswer(a)  PROVE WalletInv'
  <2>1. PICK b : asks' = (asks \ {a}) \cup {b} /\ IsAsk(b) /\ b.op = a.op
    BY <1>10, SaidAsk DEF AccountAnswer, WalletInv
  <2> QED
    BY <1>10, <2>1 DEF AccountAnswer, WalletInv
<1>11. ASSUME NEW a \in asks, Restored(a)  PROVE WalletInv'
  <2>1. CASE SetsWallet(a.answer, ui, persistLastAccount(store, a.answer))
    <3>1. PICK s : s = persistLastAccount(store, a.answer)
      OBVIOUS
    <3>2. s = [last |-> s.last, auto |-> store.auto, data |-> s.data, legal |-> store.legal,
               failures |-> s.failures, wait |-> s.wait]
      BY <3>1 DEF WalletInv, persistLastAccount
    <3>3. a.op = "restore" /\ asks' = asks \ {a}
      BY <1>11 DEF Restored, Settled
    <3> QED
      BY <2>1, <3>1, <3>2, <3>3, SetKeeps DEF WalletInv
  <2>2. CASE store' = clearPersistedWalletSession(store) /\ UNCHANGED <<ui, wallet>>
    BY <1>11, <2>2 DEF Restored, Settled, clearPersistedWalletSession, setAutoReconnectPreference,
       persistLastAccount, WalletInv
  <2> QED
    BY <1>11, <2>1, <2>2 DEF Restored
<1>12. ASSUME NEW a \in asks, AccountChecked(a)  PROVE WalletInv'
  <2>1. CASE SetsWallet(a.answer, ui, persistLastAccount(clearWalletData(store), a.answer))
    <3>1. PICK s : s = persistLastAccount(clearWalletData(store), a.answer)
      OBVIOUS
    <3>2. s = [last |-> s.last, auto |-> store.auto, data |-> s.data, legal |-> store.legal,
               failures |-> s.failures, wait |-> s.wait]
      BY <3>1 DEF WalletInv, persistLastAccount, clearWalletData
    <3>3. a.op = "check" /\ asks' = asks \ {a}
      BY <1>12 DEF AccountChecked, Settled
    <3> QED
      BY <2>1, <3>1, <3>2, <3>3, SetKeeps DEF WalletInv
  <2>2. CASE UNCHANGED <<ui, store, wallet>>
    BY <1>12, <2>2 DEF AccountChecked, Settled, WalletInv
  <2> QED
    BY <1>12, <2>1, <2>2 DEF AccountChecked
<1>13. ASSUME NEW a \in asks, Connected(a)  PROVE WalletInv'
  <2>1. CASE store' = recordConnectionFailure(store) /\ ui' = [ui EXCEPT !.connecting = Cold]
          /\ UNCHANGED wallet
    BY <1>13, <2>1 DEF Connected, Settled, recordConnectionFailure, WalletInv
  <2>2. ASSUME NEW who \in Users, NEW u, NEW s,
               u = [Allows(who, [ui EXCEPT !.connecting = Cold]) EXCEPT !.left = "no"],
               s = setAutoReconnectPreference(
                     persistLastAccount(recordConnectionSuccess(store), who), "true"),
               SetsWallet(who, u, s)
        PROVE  WalletInv'
    <3>1. /\ u = [extension |-> u.extension, modal |-> ui.modal, connecting |-> u.connecting,
                  switching |-> u.switching, left |-> u.left]
          /\ u.left = "no"
      BY <2>2 DEF Allows, WalletInv
    <3>2. s = [last |-> s.last, auto |-> s.auto, data |-> s.data, legal |-> store.legal,
               failures |-> s.failures, wait |-> s.wait]
      BY <2>2 DEF setAutoReconnectPreference, persistLastAccount, recordConnectionSuccess, WalletInv
    <3>3. asks' = asks \ {a}
      BY <1>13 DEF Connected, Settled
    <3> QED
      BY <2>2, <3>1, <3>2, <3>3, SetKeeps DEF WalletInv
  <2> QED
    BY <1>13, <2>1, <2>2 DEF Connected
<1>14. ASSUME NEW a \in asks, Switched(a)  PROVE WalletInv'
  <2>1. CASE store' = recordConnectionFailure(store) /\ ui' = [ui EXCEPT !.switching = FALSE]
          /\ UNCHANGED wallet
    BY <1>14, <2>1 DEF Switched, Settled, recordConnectionFailure, WalletInv
  <2>2. CASE store' = recordConnectionSuccess(store)
          /\ ui' = Allows(a.arg, [ui EXCEPT !.switching = FALSE]) /\ UNCHANGED wallet
    BY <1>14, <2>2 DEF Switched, Settled, recordConnectionSuccess, Allows, WalletInv
  <2>3. ASSUME NEW who \in Users \ {a.arg}, NEW u, NEW s,
               u = [Allows(who, [ui EXCEPT !.switching = FALSE]) EXCEPT !.left = "no"],
               s = setAutoReconnectPreference(
                    persistLastAccount(clearWalletData(recordConnectionSuccess(store)), who), "true"),
               SetsWallet(who, u, s)
        PROVE  WalletInv'
    <3>1. /\ u = [extension |-> u.extension, modal |-> ui.modal, connecting |-> u.connecting,
                  switching |-> u.switching, left |-> u.left]
          /\ u.left = "no"
      BY <2>3 DEF Allows, WalletInv
    <3>2. s = [last |-> s.last, auto |-> s.auto, data |-> s.data, legal |-> store.legal,
               failures |-> s.failures, wait |-> s.wait]
      BY <2>3 DEF setAutoReconnectPreference, persistLastAccount, clearWalletData,
         recordConnectionSuccess, WalletInv
    <3>3. asks' = asks \ {a}
      BY <1>14 DEF Switched, Settled
    <3> QED
      BY <2>3, <3>1, <3>2, <3>3, SetKeeps DEF WalletInv
  <2> QED
    BY <1>14, <2>1, <2>2, <2>3 DEF Switched
<1> QED
  BY <1>1, <1>2, <1>3, <1>4, <1>5, <1>6, <1>7, <1>8, <1>9, <1>10, <1>11, <1>12, <1>13, <1>14
     DEF WalletUser, WalletStep

LEMMA WalletBegin == ASSUME WalletInit  PROVE WalletInv
<1>1. PICK last, auto, who :
        /\ store = [last |-> last, auto |-> auto, data |-> NoData, legal |-> FALSE, failures |-> 0,
                    wait |-> FALSE]
        /\ ui = Fresh(store, [account |-> who, allowed |-> last # NoOne], "no")
        /\ asks = Mounted(store)
  BY DEF WalletInit
<1>2. PICK extension : ui = Fresh(store, extension, "no")
  BY <1>1
<1>3. ui = [extension |-> ui.extension, modal |-> FALSE, connecting |-> ui.connecting,
            switching |-> FALSE, left |-> "no"]
  BY <1>2 DEF Fresh
<1>4. \A a \in asks : IsAsk(a)
  BY <1>1, NewAsk DEF Mounted
<1>5. ui.modal \in BOOLEAN /\ ui.left = "no"
  <2>1. ui.modal = FALSE
    <3>1. Fresh(store, extension, "no").modal = FALSE
      BY Zenon DEF Fresh
    <3> QED
      BY <3>1, <1>2, Zenon
  <2>2. ui.left = "no"
    BY <1>3
  <2> QED
    BY <2>1, <2>2
<1>6. store = [last |-> store.last, auto |-> store.auto, data |-> store.data, legal |-> store.legal,
               failures |-> store.failures, wait |-> store.wait]
  BY <1>1
<1>7. ui = [extension |-> ui.extension, modal |-> ui.modal, connecting |-> ui.connecting,
            switching |-> ui.switching, left |-> ui.left]
  BY <1>3
<1> QED
  BY <1>4, <1>5, <1>6, <1>7 DEF WalletInit, WalletInv

\* No wallet is connected without consent given or being asked for, whichever
\* button, watcher, switch or restored session connected it (lib/wallet-
\* context.tsx).
THEOREM ConsentIsAsked == ClientSpec => []ConsentAsked
<1> DEFINE Inv == On("wallet") => WalletInv
<1>1. ClientInit => Inv
  BY PagesBegin, WalletBegin
<1>2. Inv /\ [ClientNext]_clientVars => Inv'
  <2> SUFFICES ASSUME Inv, [ClientNext]_clientVars, focus' = "wallet"  PROVE WalletInv'
    BY DEF On
  <2>1. CASE ClientNext
    BY <2>1, PagesApart, WalletKept DEF On
  <2>2. CASE UNCHANGED clientVars
    BY <2>2 DEF On, clientVars, pageVars, WalletInv, IsAsk
  <2> QED
    BY <2>1, <2>2
<1>3. Inv => ConsentAsked
  BY DEF ConsentAsked, WalletInv
<1> QED
  BY <1>1, <1>2, <1>3, PTL DEF ClientSpec

\* A reload after disconnecting leaves the visitor disconnected until he
\* connects again.
THEOREM DisconnectedForGood == ClientSpec => []StaysDisconnected
<1> DEFINE Inv == On("wallet") => WalletInv
<1>1. ClientInit => Inv
  BY PagesBegin, WalletBegin
<1>2. Inv /\ [ClientNext]_clientVars => Inv'
  <2> SUFFICES ASSUME Inv, [ClientNext]_clientVars, focus' = "wallet"  PROVE WalletInv'
    BY DEF On
  <2>1. CASE ClientNext
    BY <2>1, PagesApart, WalletKept DEF On
  <2>2. CASE UNCHANGED clientVars
    BY <2>2 DEF On, clientVars, pageVars, WalletInv, IsAsk
  <2> QED
    BY <2>1, <2>2
<1>3. Inv => StaysDisconnected
  BY DEF StaysDisconnected, WalletInv
<1> QED
  BY <1>1, <1>2, <1>3, PTL DEF ClientSpec

-----------------------------------------------------------------------------
(***************************************************************************)
(* Meetings.  Stored list and copies of the tabs are each free of          *)
(* conflicts; a change is checked against the copy it is made in, which is *)
(* then what is stored.                                                    *)
(***************************************************************************)
MeetingType == [proposed : Slots, selected : Slots \cup {<<>>},
                status : {"pending", "confirmed", "cancelled", "completed"}]

ListOK(list) ==
  /\ list \in Seq(MeetingType)
  /\ \A i \in DOMAIN list : list[i].status = "confirmed" => list[i].selected \in Slots
  /\ \A i, k \in DOMAIN list : i # k => HoursOf(list[i]) \cap HoursOf(list[k]) = {}

MeetingsInv ==
  /\ ui = [list |-> ui.list, late |-> ui.late]
  /\ ui.list = [t \in Tabs |-> ui.list[t]]
  /\ ListOK(store) /\ \A t \in Tabs : ListOK(ui.list[t])

LEMMA PersistKeeps ==
  ASSUME MeetingsInv, NEW t \in Tabs, NEW list, ListOK(list), persistList(t, list)  PROVE MeetingsInv'
<1>1. ui' = [ui EXCEPT !.list[t] = list] /\ store' = list
  BY DEF persistList
<1>2. ListOK(store') 
  BY <1>1
<1>3. ui' = [list |-> [ui.list EXCEPT ![t] = list], late |-> ui.late]
  BY <1>1 DEF MeetingsInv
<1>4. ui'.list = [ui.list EXCEPT ![t] = list]
  BY <1>3
<1>5. \A r \in Tabs : ListOK(ui'.list[r])
  BY <1>4 DEF MeetingsInv
<1>6. ui'.list = [r \in Tabs |-> ui'.list[r]]
  BY <1>4 DEF MeetingsInv
<1> QED
  BY <1>2, <1>3, <1>5, <1>6 DEF MeetingsInv, ListOK

\* Putting in place of one entry another without hours keeps the rest apart.
LEMMA Freed ==
  ASSUME NEW list, ListOK(list), NEW i \in DOMAIN list, NEW m \in MeetingType, m.status # "confirmed"
  PROVE  ListOK([list EXCEPT ![i] = m])
<1> DEFINE new == [list EXCEPT ![i] = m]
<1>1. new \in Seq(MeetingType) /\ DOMAIN new = DOMAIN list /\ new[i] = m
      /\ \A k \in DOMAIN list \ {i} : new[k] = list[k]
  BY DEF ListOK
<1>2. HoursOf(m) = {}
  BY DEF HoursOf
<1> QED
  BY <1>1, <1>2 DEF ListOK

LEMMA Proposed ==
  ASSUME NEW list, ListOK(list), NEW slot \in Slots  PROVE ListOK(Append(list, Meeting(slot)))
<1> DEFINE new == Append(list, Meeting(slot))
<1>1. Meeting(slot) \in MeetingType /\ Meeting(slot).status = "pending"
  BY DEF Meeting, MeetingType
<1>2. HoursOf(Meeting(slot)) = {}
  BY <1>1 DEF HoursOf
<1>3. /\ new \in Seq(MeetingType) /\ DOMAIN new = DOMAIN list \cup {Len(list) + 1}
      /\ new[Len(list) + 1] = Meeting(slot) /\ \A k \in DOMAIN list : new[k] = list[k]
  BY <1>1 DEF ListOK
<1> QED
  BY <1>1, <1>2, <1>3 DEF ListOK

LEMMA Confirmed ==
  ASSUME NEW list, ListOK(list), NEW i \in DOMAIN list, ~hasConflict(list[i].proposed, list, i)
  PROVE  ListOK([list EXCEPT ![i].selected = list[i].proposed, ![i].status = "confirmed"])
<1> DEFINE slot == list[i].proposed
           m == [list[i] EXCEPT !.selected = slot, !.status = "confirmed"]
           new == [list EXCEPT ![i].selected = slot, ![i].status = "confirmed"]
<1>1. list \in Seq(MeetingType) /\ list[i] \in MeetingType /\ slot \in Slots
  <2>1. list \in Seq(MeetingType) /\ list[i] \in MeetingType
    BY DEF ListOK
  <2> QED
    BY <2>1 DEF MeetingType
<1>2. m \in MeetingType /\ m.status = "confirmed" /\ m.selected = slot
  BY <1>1 DEF MeetingType
<1>3. new = [list EXCEPT ![i] = m]
  BY <1>1
<1>4. new \in Seq(MeetingType) /\ DOMAIN new = DOMAIN list /\ new[i] = m
      /\ \A k \in DOMAIN list \ {i} : new[k] = list[k]
  BY <1>1, <1>2, <1>3
<1> HIDE DEF m, new
<1>5. ASSUME NEW k \in DOMAIN list \ {i}  PROVE HoursOf(m) \cap HoursOf(list[k]) = {}
  <2>1. CASE list[k].status # "confirmed"
    BY <2>1 DEF HoursOf
  <2>2. CASE list[k].status = "confirmed"
    <3>1. list[k].selected \in Nat \X Nat /\ slot \in Nat \X Nat
      BY <2>2, <1>1, TalkConstants DEF ListOK
    <3>2. list[k].selected # <<>>
      <4>1. PICK from \in Nat, until \in Nat : list[k].selected = <<from, until>>
        BY <3>1
      <4>2. Len(<<from, until>>) # Len(<<>>)
        OBVIOUS
      <4> QED
        BY <4>1, <4>2
    <3>3. ~(slot[1] < list[k].selected[2] /\ slot[2] > list[k].selected[1])
      BY <2>2, <3>2 DEF hasConflict
    <3>4. HoursOf(m) = slot[1]..(slot[2] - 1)
            /\ HoursOf(list[k]) = list[k].selected[1]..(list[k].selected[2] - 1)
      BY <1>2, <2>2 DEF HoursOf
    <3> QED
      BY <3>1, <3>3, <3>4
  <2> QED
    BY <2>1, <2>2
<1>6. \A k \in DOMAIN new : new[k].status = "confirmed" => new[k].selected \in Slots
  BY <1>1, <1>2, <1>4 DEF ListOK
<1>7. ASSUME NEW k \in DOMAIN new, NEW l \in DOMAIN new, k # l
      PROVE HoursOf(new[k]) \cap HoursOf(new[l]) = {}
  <2>1. CASE k = i
    BY <1>4, <1>5, <1>7, <2>1
  <2>2. CASE l = i
    BY <1>4, <1>5, <1>7, <2>2
  <2>3. CASE k # i /\ l # i
    BY <1>4, <1>7, <2>3 DEF ListOK
  <2> QED
    BY <2>1, <2>2, <2>3
<1> HIDE DEF new
<1> QED
  BY <1>4, <1>6, <1>7 DEF ListOK, new

LEMMA MeetingsKept == ASSUME MeetingsInv, MeetingsNext  PROVE MeetingsInv'
<1>1. CASE SlotsPass
  BY <1>1 DEF SlotsPass, Sets, MeetingsInv
<1>2. ASSUME NEW t \in Tabs, TabReloads(t)  PROVE MeetingsInv'
  <2>1. persistList(t, store)
    BY <1>2 DEF TabReloads, Sets, persistList
  <2> QED
    BY <2>1, PersistKeeps DEF MeetingsInv
<1>3. ASSUME NEW t \in Tabs, NEW slot \in Slots, NEW checked \in BOOLEAN,
        proposeMeeting(t, slot, checked)  PROVE MeetingsInv'
  BY <1>3, Proposed, PersistKeeps DEF proposeMeeting, MeetingsInv
<1>4. ASSUME NEW t \in Tabs, NEW i, confirmSlot(t, i)  PROVE MeetingsInv'
  BY <1>4, Confirmed, PersistKeeps DEF confirmSlot, MeetingsInv
<1>5. ASSUME NEW t \in Tabs, NEW i, cancelMeeting(t, i) \/ completeMeeting(t, i)  PROVE MeetingsInv'
  <2>1. PICK s \in {"cancelled", "completed"} : i \in DOMAIN ui.list[t]
          /\ persistList(t, [ui.list[t] EXCEPT ![i].status = s])
    BY <1>5 DEF cancelMeeting, completeMeeting
  <2> DEFINE m == [ui.list[t][i] EXCEPT !.status = s]
  <2>2. ui.list[t] \in Seq(MeetingType) /\ ui.list[t][i] \in MeetingType
    BY <2>1 DEF MeetingsInv, ListOK
  <2>3. m \in MeetingType /\ m.status # "confirmed"
    BY <2>2 DEF MeetingType
  <2>4. [ui.list[t] EXCEPT ![i].status = s] = [ui.list[t] EXCEPT ![i] = m]
    BY <2>2
  <2> HIDE DEF m
  <2> QED
    BY <2>1, <2>3, <2>4, Freed, PersistKeeps DEF MeetingsInv
<1> QED
  BY <1>1, <1>2, <1>3, <1>4, <1>5 DEF MeetingsNext

LEMMA MeetingsBegin == ASSUME MeetingsInit  PROVE MeetingsInv
<1>1. ListOK(<<>>)
  BY DEF ListOK
<1>2. ui.list = [t \in Tabs |-> <<>>] /\ store = <<>> /\ ui = [list |-> ui.list, late |-> ui.late]
  BY DEF MeetingsInit
<1> QED
  BY <1>1, <1>2 DEF MeetingsInv

\* Nobody is booked twice, in any copy of the list, for any slots and any
\* order in which tabs propose, confirm, cancel and reload (lib/meetings-
\* context.tsx).
THEOREM NoDoubleBooking == ClientSpec => []MeetingsDisjoint
<1> DEFINE Inv == On("meetings") => MeetingsInv
<1>1. ClientInit => Inv
  BY PagesBegin, MeetingsBegin
<1>2. Inv /\ [ClientNext]_clientVars => Inv'
  <2> SUFFICES ASSUME Inv, [ClientNext]_clientVars, focus' = "meetings"  PROVE MeetingsInv'
    BY DEF On
  <2>1. CASE ClientNext
    BY <2>1, PagesApart, MeetingsKept DEF On
  <2>2. CASE UNCHANGED clientVars
    BY <2>2 DEF On, clientVars, pageVars, MeetingsInv, ListOK, HoursOf
  <2> QED
    BY <2>1, <2>2
<1>3. Inv => MeetingsDisjoint
  BY DEF MeetingsDisjoint, MeetingsInv, ListOK
<1> QED
  BY <1>1, <1>2, <1>3, PTL DEF ClientSpec

-----------------------------------------------------------------------------
(***************************************************************************)
(* Messages.  The unread count of a conversation is moved by differences:  *)
(* up with each delivery, to zero when the thread is read.                 *)
(***************************************************************************)
MessageType == [from : Users, read : BOOLEAN]

TalkType(kept) ==
  /\ kept = [thread |-> kept.thread, convos |-> kept.convos]
  /\ kept.thread \in [Users -> [Users -> Seq(MessageType)]]
  /\ kept.convos \in [Users -> [Users -> Nat \cup {NoConvo}]]

Agrees(kept, me, peer) ==
  (Unread(kept, me, peer) = 0)
    <=> \A i \in DOMAIN kept.thread[me][peer] :
          kept.thread[me][peer][i].from = peer => kept.thread[me][peer][i].read

TalkOK(kept) == TalkType(kept) /\ \A me, peer \in Users : Agrees(kept, me, peer)

MessagesInv ==
  /\ ui = [peer |-> ui.peer, inbox |-> ui.inbox, badge |-> ui.badge, page |-> ui.page]
  /\ ui.peer \in Users
  /\ wallet \in Users \cup {NoOne}
  /\ TalkOK(store)

ThreadOf(kept, me, peer) == kept.thread[me][peer]
CountOf(kept, me, peer)  == kept.convos[me][peer]
CountedUp(n, delta)      == (IF n = NoConvo THEN 0 ELSE n) + delta

LEMMA DeliveredParts ==
  ASSUME NEW kept, TalkType(kept), NEW me \in Users, NEW peer \in Users, NEW from \in Users,
    NEW delta \in {0, 1},
         NEW new, new = Delivered(kept, me, peer, from, delta)
  PROVE  /\ ThreadOf(new, me, peer) = Append(ThreadOf(kept, me, peer), Message(from))
         /\ CountOf(new, me, peer) = CountedUp(CountOf(kept, me, peer), delta)
         /\ \A m, p \in Users : m # me \/ p # peer =>
              ThreadOf(new, m, p) = ThreadOf(kept, m, p) /\ CountOf(new, m, p) = CountOf(kept, m, p)
<1> DEFINE thread == [kept.thread EXCEPT ![me][peer] = Append(@, Message(from))]
           convos == [kept.convos EXCEPT ![me][peer] = (IF @ = NoConvo THEN 0 ELSE @) + delta]
<1>1. Message(from) \in MessageType
  BY DEF Message, MessageType
<1>2. new = [thread |-> thread, convos |-> convos]
  BY DEF Delivered, upsertConversationMeta, TalkType
<1>3. thread \in [Users -> [Users -> Seq(MessageType)]]
        /\ thread[me][peer] = Append(kept.thread[me][peer], Message(from))
      /\ \A m, p \in Users : m # me \/ p # peer => thread[m][p] = kept.thread[m][p]
  BY <1>1 DEF TalkType
<1>4. convos \in [Users -> [Users -> Nat \cup {NoConvo}]]
      /\ convos[me][peer] = CountedUp(kept.convos[me][peer], delta)
      /\ \A m, p \in Users : m # me \/ p # peer => convos[m][p] = kept.convos[m][p]
  BY DEF TalkType, NoConvo, CountedUp
<1> HIDE DEF thread, convos
<1>5. new.thread = thread /\ new.convos = convos
  BY <1>2
<1> QED
  BY <1>3, <1>4, <1>5 DEF ThreadOf, CountOf

LEMMA DeliveredType ==
  ASSUME NEW kept, TalkType(kept), NEW me \in Users, NEW peer \in Users, NEW from \in Users,
    NEW delta \in {0, 1}
  PROVE  TalkType(Delivered(kept, me, peer, from, delta))
<1> DEFINE thread == [kept.thread EXCEPT ![me][peer] = Append(@, Message(from))]
           convos == [kept.convos EXCEPT ![me][peer] = (IF @ = NoConvo THEN 0 ELSE @) + delta]
<1>1. Message(from) \in MessageType
  BY DEF Message, MessageType
<1>2. PICK new : new = Delivered(kept, me, peer, from, delta)
  OBVIOUS
<1>7. new = [thread |-> thread, convos |-> convos]
  BY <1>2 DEF Delivered, upsertConversationMeta, TalkType
<1>3. thread \in [Users -> [Users -> Seq(MessageType)]]
  BY <1>1 DEF TalkType
<1>4. convos \in [Users -> [Users -> Nat \cup {NoConvo}]]
  BY DEF TalkType, NoConvo, CountedUp
<1> HIDE DEF thread, convos
<1>5. new.thread = thread /\ new.convos = convos
  BY <1>7
<1>6. TalkType(new)
  BY <1>3, <1>4, <1>5, <1>7 DEF TalkType
<1> QED
  BY <1>2, <1>6

LEMMA DeliveredAgrees ==
  ASSUME NEW kept, TalkType(kept), NEW me \in Users, NEW peer \in Users, NEW from \in Users,
    NEW delta \in {0, 1},
         NEW new, new = Delivered(kept, me, peer, from, delta),
         (from = peer /\ delta = 1) \/ (from # peer /\ delta = 0 /\ Agrees(kept, me, peer))
  PROVE  Agrees(new, me, peer)
<1> DEFINE old == ThreadOf(kept, me, peer)
           now == ThreadOf(new, me, peer)
<1>1. /\ old \in Seq(MessageType) /\ now = Append(old, Message(from)) /\ Message(from) \in MessageType
      /\ CountOf(new, me, peer) = CountedUp(CountOf(kept, me, peer), delta)
      /\ CountOf(kept, me, peer) \in Nat \cup {NoConvo}
  <2>1. now = Append(old, Message(from))
        /\ CountOf(new, me, peer) = CountedUp(CountOf(kept, me, peer), delta)
    BY DeliveredParts
  <2>2. old \in Seq(MessageType) /\ CountOf(kept, me, peer) \in Nat \cup {NoConvo}
    BY DEF TalkType, ThreadOf, CountOf
  <2>3. Message(from) \in MessageType
    BY DEF Message, MessageType
  <2> QED
    BY <2>1, <2>2, <2>3
<1> HIDE DEF old, now
<1>2. /\ DOMAIN now = DOMAIN old \cup {Len(old) + 1} /\ now[Len(old) + 1] = Message(from)
      /\ \A i \in DOMAIN old : now[i] = old[i]
  BY <1>1
<1>3. Message(from).from = from /\ Message(from).read = FALSE
  BY DEF Message
<1>4. CASE from = peer /\ delta = 1
  <2>1. Unread(new, me, peer) # 0
    BY <1>1, <1>4 DEF Unread, NoConvo, CountedUp, CountOf
  <2>2. ~ \A i \in DOMAIN now : now[i].from = peer => now[i].read
    BY <1>2, <1>3, <1>4
  <2> QED
    BY <2>1, <2>2 DEF Agrees, now, ThreadOf
<1>5. CASE from # peer /\ delta = 0 /\ Agrees(kept, me, peer)
  <2>1. Unread(new, me, peer) = Unread(kept, me, peer)
    BY <1>1, <1>5 DEF Unread, NoConvo, CountedUp, CountOf
  <2>2. (\A i \in DOMAIN now : now[i].from = peer => now[i].read)
          <=> (\A i \in DOMAIN old : old[i].from = peer => old[i].read)
    BY <1>2, <1>3, <1>5
  <2> QED
    BY <2>1, <2>2, <1>5 DEF Agrees, now, old, ThreadOf
<1> QED
  BY <1>4, <1>5

LEMMA SentOK ==
  ASSUME TalkOK(store), NEW from \in Users, NEW to \in Users  PROVE TalkOK(sendMessage(from, to))
<1>1. PICK s1 : s1 = Delivered(store, from, to, from, 0)
  OBVIOUS
<1>2. PICK s2 : s2 = Delivered(s1, to, from, from, 1)
  OBVIOUS
<1>3. sendMessage(from, to) = s2
  BY <1>1, <1>2 DEF sendMessage
<1>4. TalkType(s1) /\ TalkType(s2)
  BY <1>1, <1>2, DeliveredType DEF TalkOK
<1>5. Agrees(s2, to, from)
  BY <1>2, <1>4, DeliveredAgrees
<1>6. ASSUME NEW me \in Users, NEW peer \in Users, me # to \/ peer # from  PROVE Agrees(s2, me, peer)
  <2>1. Agrees(s1, me, peer)
    <3>1. CASE me = from /\ peer = to
      BY <1>1, <1>6, <3>1, DeliveredAgrees DEF TalkOK
    <3>2. CASE me # from \/ peer # to
      <4>1. ThreadOf(s1, me, peer) = ThreadOf(store, me, peer)
              /\ CountOf(s1, me, peer) = CountOf(store, me, peer)
        <5>1. TalkType(store) /\ 0 \in {0, 1}
          BY DEF TalkOK
        <5> QED
          BY <1>1, <3>2, <5>1, DeliveredParts
      <4> QED
        BY <4>1 DEF TalkOK, Agrees, Unread, ThreadOf, CountOf
    <3> QED
      BY <3>1, <3>2
  <2>2. ThreadOf(s2, me, peer) = ThreadOf(s1, me, peer)
          /\ CountOf(s2, me, peer) = CountOf(s1, me, peer)
    <3>1. TalkType(s1) /\ 1 \in {0, 1}
      BY <1>4
    <3> QED
      BY <1>2, <1>6, <3>1, DeliveredParts
  <2> QED
    BY <2>1, <2>2 DEF Agrees, Unread, ThreadOf, CountOf
<1> QED
  BY <1>3, <1>4, <1>5, <1>6 DEF TalkOK

LEMMA ReadOK ==
  ASSUME NEW kept, TalkOK(kept), NEW me \in Users, NEW peer \in Users
    PROVE TalkOK(markThreadAsRead(kept, me, peer))
<1> DEFINE thread == kept.thread[me][peer]
           read == [i \in DOMAIN thread |-> [thread[i] EXCEPT !.read = @ \/ thread[i].from = peer]]
<1>1. thread \in Seq(MessageType)
  BY DEF TalkOK, TalkType
<1>2. CASE read = thread
  BY <1>2 DEF markThreadAsRead
<1>3. CASE read # thread
  <2>1. PICK new : new = [kept EXCEPT !.thread[me][peer] = read,
                          !.convos[me][peer] = IF @ = NoConvo THEN @ ELSE 0]
    OBVIOUS
  <2>2. markThreadAsRead(kept, me, peer) = new
    BY <1>3, <2>1 DEF markThreadAsRead
  <2>3. ASSUME NEW i \in DOMAIN thread
        PROVE  read[i] \in MessageType /\ read[i].from = thread[i].from
          /\ (read[i].from = peer => read[i].read)
    <3>1. thread[i] \in MessageType
      BY <1>1
    <3>2. PICK b \in BOOLEAN : b = (thread[i].read \/ thread[i].from = peer)
      BY Zenon
    <3>3. read[i] = [thread[i] EXCEPT !.read = b]
      BY <3>2, Zenon
    <3>4. thread[i].from = peer => b
      BY <3>2
    <3> HIDE DEF read
    <3> QED
      BY <3>1, <3>3, <3>4 DEF MessageType
  <2>4. read \in Seq(MessageType)
    <3>1. read = [i \in 1..Len(thread) |-> read[i]] /\ Len(thread) \in Nat
            /\ DOMAIN thread = 1..Len(thread)
      BY <1>1
    <3> HIDE DEF read, thread
    <3> QED
      BY <2>3, <3>1
  <2> HIDE DEF read
  <2>5. /\ new = [thread |-> [kept.thread EXCEPT ![me][peer] = read],
                  convos |-> [kept.convos EXCEPT ![me][peer] = IF @ = NoConvo THEN @ ELSE 0]]
    BY <2>1 DEF TalkOK, TalkType
  <2>6. /\ TalkType(new) /\ new.thread[me][peer] = read /\ new.convos[me][peer] \in {0, NoConvo}
        /\ \A m, p \in Users : m # me \/ p # peer =>
              new.thread[m][p] = kept.thread[m][p] /\ new.convos[m][p] = kept.convos[m][p]
    BY <2>4, <2>5 DEF TalkOK, TalkType, NoConvo
  <2>7. Agrees(new, me, peer)
    BY <2>3, <2>6 DEF Agrees, Unread, read
  <2>8. ASSUME NEW m \in Users, NEW p \in Users, m # me \/ p # peer  PROVE Agrees(new, m, p)
    BY <2>6, <2>8 DEF Agrees, Unread, TalkOK
  <2> QED
    BY <2>2, <2>6, <2>7, <2>8 DEF TalkOK
<1> QED
  BY <1>2, <1>3

LEMMA ReadsKeeps ==
  ASSUME MessagesInv, wallet # NoOne, NEW kept, TalkOK(kept), ReadsThread(kept)  PROVE MessagesInv'
<1>1. TalkOK(store')
  BY ReadOK DEF ReadsThread, MessagesInv
<1>2. wallet' = wallet /\ ui' = [ui EXCEPT !.badge = countTotalUnread(store', wallet)]
  BY DEF ReadsThread
<1>3. (MessagesInv!1)' /\ ui'.peer \in Users
  BY <1>2 DEF MessagesInv
<1> QED
  BY <1>1, <1>2, <1>3 DEF MessagesInv, TalkOK, TalkType, Agrees, Unread

LEMMA SameTalk == ASSUME TalkOK(store), UNCHANGED store  PROVE TalkOK(store)'
BY DEF TalkOK, TalkType, Agrees, Unread

LEMMA MessagesKept == ASSUME MessagesInv, MessagesNext  PROVE MessagesInv'
<1>1. CASE loadMessages
  BY <1>1, ReadsKeeps DEF loadMessages, InThread, MessagesInv
<1>2. CASE handleSend
  BY <1>2, SentOK, ReadsKeeps DEF handleSend, InThread, MessagesInv
<1>3. CASE OtherTabSends
  <2>1. TalkOK(store') /\ ui' = ui /\ wallet' = wallet
    BY <1>3, SentOK DEF OtherTabSends, Keeps, MessagesInv
  <2> QED
    BY <2>1 DEF MessagesInv, TalkOK, TalkType, Agrees, Unread
<1>4. CASE handleDelete
  <2>1. PICK kept : kept = [store EXCEPT !.thread[wallet][ui.peer] = <<>>,
                            !.convos[wallet][ui.peer] = NoConvo]
    OBVIOUS
  <2>2. /\ wallet \in Users /\ store' = kept /\ wallet' = wallet
        /\ ui' = [ui EXCEPT !.inbox = loadConversations(kept, wallet),
                  !.badge = countTotalUnread(kept, wallet)]
    BY <1>4, <2>1 DEF handleDelete, MessagesInv
  <2>3. kept = [thread |-> [store.thread EXCEPT ![wallet][ui.peer] = <<>>],
                convos |-> [store.convos EXCEPT ![wallet][ui.peer] = NoConvo]]
    BY <2>1 DEF MessagesInv, TalkOK, TalkType
  <2>4. <<>> \in Seq(MessageType)
    OBVIOUS
  <2>5. /\ TalkType(kept) /\ kept.thread[wallet][ui.peer] = <<>>
        /\ kept.convos[wallet][ui.peer] = NoConvo
        /\ \A m, p \in Users : m # wallet \/ p # ui.peer =>
              kept.thread[m][p] = store.thread[m][p] /\ kept.convos[m][p] = store.convos[m][p]
    BY <2>2, <2>3, <2>4 DEF MessagesInv, TalkOK, TalkType
  <2>6. Agrees(kept, wallet, ui.peer)
    BY <2>5 DEF Agrees, Unread
  <2>7. TalkOK(kept)
    BY <2>5, <2>6 DEF TalkOK, Agrees, Unread, MessagesInv
  <2>8. (MessagesInv!1)' /\ ui'.peer \in Users
    BY <2>2 DEF MessagesInv
  <2>9. TalkOK(store)'
    BY <2>2, <2>7 DEF TalkOK, TalkType, Agrees, Unread
  <2> QED
    BY <2>2, <2>8, <2>9 DEF MessagesInv
<1>5. CASE ListLoads \/ refreshUnread \/ \E page \in {"inbox", "thread"} : PageOpened(page)
  <2>1. (MessagesInv!1)' /\ ui'.peer = ui.peer /\ UNCHANGED <<store, wallet>>
    BY <1>5 DEF ListLoads, refreshUnread, PageOpened, Sets, MessagesInv
  <2> QED
    BY <2>1, SameTalk DEF MessagesInv
<1>6. ASSUME NEW who \in Users \cup {NoOne}, NEW badge,
        WalletChanges(who, [ui EXCEPT !.badge = badge, !.inbox = {}])
      PROVE  MessagesInv'
  <2>1. (MessagesInv!1)' /\ ui'.peer = ui.peer /\ UNCHANGED store /\ wallet' = who
    BY <1>6 DEF WalletChanges, MessagesInv
  <2> QED
    BY <2>1, SameTalk DEF MessagesInv
<1> QED
  BY <1>1, <1>2, <1>3, <1>4, <1>5, <1>6 DEF MessagesNext

LEMMA MessagesBegin == ASSUME MessagesInit, wallet = Client  PROVE MessagesInv
<1>1. TalkType(store)
  BY DEF MessagesInit, TalkType, NoConvo
<1>2. \A me, peer \in Users : store.thread[me][peer] = <<>> /\ store.convos[me][peer] = NoConvo
  BY DEF MessagesInit
<1>3. \A me, peer \in Users : Agrees(store, me, peer)
  BY <1>2 DEF Agrees, Unread
<1>4. PICK peer \in Users : ui = MessagesUi(peer)
  BY DEF MessagesInit
<1> QED
  BY <1>1, <1>3, <1>4 DEF MessagesInv, TalkOK, MessagesUi, Users

\* The count says that nothing is unread exactly if every message of the
\* other party is marked as read, however messages, readings and deletions
\* alternate (lib/messages.ts).
THEOREM UnreadCountsAgree == ClientSpec => []UnreadAgrees
<1> DEFINE Inv == On("messages") => MessagesInv
<1>1. ClientInit => Inv
  BY PagesBegin, MessagesBegin
<1>2. Inv /\ [ClientNext]_clientVars => Inv'
  <2> SUFFICES ASSUME Inv, [ClientNext]_clientVars, focus' = "messages"  PROVE MessagesInv'
    BY DEF On
  <2>1. CASE ClientNext
    BY <2>1, PagesApart, MessagesKept DEF On
  <2>2. CASE UNCHANGED clientVars
    BY <2>2, SameTalk DEF On, clientVars, pageVars, MessagesInv
  <2> QED
    BY <2>1, <2>2
<1>3. Inv => UnreadAgrees
  BY DEF UnreadAgrees, MessagesInv, TalkOK, Agrees
<1> QED
  BY <1>1, <1>2, <1>3, PTL DEF ClientSpec

-----------------------------------------------------------------------------
(***************************************************************************)
(* The profile.  All pictures of the contract the page works with, also    *)
(* those of requests under way, show as completed only jobs that are,      *)
(* since a completed job stays so.                                         *)
(***************************************************************************)
Portfolio(p) ==
  /\ p = [bio |-> p.bio, skills |-> p.skills, links |-> p.links, highlighted |-> p.highlighted]
  /\ p.highlighted \subseteq {j \in JobIds : jobs[j] = "Completed"}

Picture(f) == \A j \in JobIds : f[j] = "Completed" => jobs[j] = "Completed"

Shaped(u) ==
  u = [list |-> u.list, loading |-> u.loading, error |-> u.error, restricted |-> u.restricted,
       editing |-> u.editing, draft |-> u.draft, portfolio |-> u.portfolio,
       testimonials |-> u.testimonials, thanked |-> u.thanked, availability |-> u.availability]

ProfileInv ==
  /\ Shaped(ui)
  /\ store = [portfolio |-> store.portfolio, testimonials |-> store.testimonials,
              availability |-> store.availability]
  /\ Portfolio(ui.portfolio) /\ Portfolio(ui.draft) /\ Portfolio(store.portfolio)
  /\ Picture(ui.list)
  /\ \A a \in asks : IsAsk(a) /\ Picture(a.seen) /\ Picture(a.arg.seen)

LEMMA NothingDone == Picture(Nothing)
BY DEF Picture, Nothing

\* A step that keeps the jobs and changes nothing else of note.
LEMMA ProfileFrame ==
  ASSUME ProfileInv, jobs' = jobs,
         NEW u, ui' = u,
         Shaped(u), Portfolio(u.portfolio), Portfolio(u.draft), Picture(u.list),
         NEW s, store' = s,
         s = [portfolio |-> s.portfolio, testimonials |-> s.testimonials,
              availability |-> s.availability],
         Portfolio(s.portfolio),
         \A a \in asks' : IsAsk(a) /\ Picture(a.seen) /\ Picture(a.arg.seen)
  PROVE  ProfileInv'
BY DEF ProfileInv, Shaped, Portfolio, Picture, IsAsk

LEMMA DraftKept ==
  ASSUME ProfileInv, NEW d, Portfolio(d), Drafts(d)  PROVE ProfileInv'
<1>1. PICK u : u = [ui EXCEPT !.draft = d]
  OBVIOUS
<1>2. Shaped(u) /\ u.list = ui.list /\ u.portfolio = ui.portfolio /\ u.draft = d
    BY <1>1 DEF ProfileInv, Shaped
<1>3. ui' = u /\ store' = store /\ jobs' = jobs /\ asks' = asks
  BY <1>1 DEF Drafts, Sets
<1> QED
  BY <1>2, <1>3, ProfileFrame DEF ProfileInv

LEMMA SetKept ==
  ASSUME ProfileInv, NEW u, Shaped(u), u.list = ui.list, u.portfolio = ui.portfolio,
         Portfolio(u.draft), ui' = u, UNCHANGED <<store, jobs, asks>>
  PROVE ProfileInv'
BY ProfileFrame DEF ProfileInv

LEMMA EmptyPortfolio == Portfolio(emptyPortfolio)
BY DEF Portfolio, emptyPortfolio

LEMMA EditKept == ASSUME ProfileInv, EditMode  PROVE ProfileInv'
<1>1. CASE startEdit
  <2>1. PICK u : u = [ui EXCEPT !.editing = TRUE, !.draft = ui.portfolio, !.thanked = {}]
    OBVIOUS
  <2>2. Shaped(u) /\ u.list = ui.list /\ u.portfolio = ui.portfolio /\ u.draft = ui.portfolio
    BY <2>1 DEF ProfileInv, Shaped
  <2>3. ui' = u /\ UNCHANGED <<store, jobs, asks>>
    BY <1>1, <2>1 DEF startEdit, Sets
  <2> QED
    BY <2>2, <2>3, SetKept DEF ProfileInv
<1>2. CASE cancelEdit
  <2>1. PICK u : u = [ui EXCEPT !.editing = FALSE]
    OBVIOUS
  <2>2. Shaped(u) /\ u.list = ui.list /\ u.portfolio = ui.portfolio /\ u.draft = ui.draft
    BY <2>1 DEF ProfileInv, Shaped
  <2>3. ui' = u /\ UNCHANGED <<store, jobs, asks>>
    BY <1>2, <2>1 DEF cancelEdit, Sets
  <2> QED
    BY <2>2, <2>3, SetKept DEF ProfileInv
<1>3. CASE saveEdit
  <2>1. PICK u : u = [ui EXCEPT !.portfolio = ui.draft, !.editing = FALSE]
    OBVIOUS
  <2>2. PICK s : s = [store EXCEPT !.portfolio = ui.draft]
    OBVIOUS
  <2>3. Shaped(u) /\ u.list = ui.list /\ u.portfolio = ui.draft /\ u.draft = ui.draft
    BY <2>1 DEF ProfileInv, Shaped
  <2>4. s = [portfolio |-> s.portfolio, testimonials |-> s.testimonials,
             availability |-> s.availability]
        /\ s.portfolio = ui.draft
    BY <2>2 DEF ProfileInv
  <2>5. ui' = u /\ store' = s /\ jobs' = jobs /\ asks' = asks
    BY <1>3, <2>1, <2>2 DEF saveEdit
  <2> QED
    BY <2>3, <2>4, <2>5, ProfileFrame DEF ProfileInv
<1>4. ASSUME NEW d, Drafts(d), d =
        [bio |-> d.bio, skills |-> d.skills, links |-> d.links, highlighted |-> ui.draft.highlighted]
      PROVE  ProfileInv'
  BY <1>4, DraftKept DEF ProfileInv, Portfolio
<1>5. CASE addLink \/ removeLink \/ \E bio \in {"empty", "long"} : BioTyped(bio)
  BY <1>4, <1>5 DEF addLink, removeLink, BioTyped, ProfileInv, Portfolio
<1>6. CASE \E tag \in Tags : addSkill(tag) \/ removeSkill(tag)
  BY <1>4, <1>6 DEF addSkill, removeSkill, ProfileInv, Portfolio
<1>7. ASSUME NEW j \in JobIds, toggleHighlight(j)  PROVE ProfileInv'
  <2>1. jobs[j] = "Completed"
    BY <1>7 DEF toggleHighlight, highlightableJobs, completedAsFreelancer, ProfileInv, Picture
  <2>2. PICK d : Drafts(d) /\ d =
          [bio |-> d.bio, skills |-> d.skills, links |-> d.links, highlighted |-> d.highlighted]
                 /\ d.highlighted \subseteq ui.draft.highlighted \cup {j}
    BY <1>7 DEF toggleHighlight, ProfileInv, Portfolio
  <2>3. Portfolio(d)
    BY <2>1, <2>2 DEF ProfileInv, Portfolio
  <2> QED
    BY <2>2, <2>3, DraftKept
<1> QED
  BY <1>1, <1>2, <1>3, <1>5, <1>6, <1>7 DEF EditMode

LEMMA WentOn ==
  ASSUME ProfileInv, NEW u, NEW as, Goes(u, as), Shaped(u), u.draft = ui.draft,
    u.portfolio = ui.portfolio,
         Picture(u.list), \A a \in as : IsAsk(a) /\ Picture(a.seen) /\ Picture(a.arg.seen)
  PROVE  ProfileInv'
<1>1. ui' = u /\ asks' = as /\ store' = store /\ jobs' = jobs
  BY DEF Goes
<1> QED
  BY <1>1, ProfileFrame DEF ProfileInv

LEMMA NewPicture == ASSUME NEW id, NEW op, NEW arg, Picture(arg.seen)
  PROVE IsAsk(Ask(id, op, arg)) /\ Picture(Ask(id, op, arg).seen)
    /\ Picture(Ask(id, op, arg).arg.seen)
<1>1. Ask(id, op, arg).seen = Nothing /\ Ask(id, op, arg).arg = arg
  BY DEF Ask
<1> QED
  BY <1>1, NewAsk, NothingDone

LEMMA NextReadKept ==
  ASSUME ProfileInv, NEW a \in asks, NEW seen, Picture(seen), NEW j, NextRead(a, seen, j)
    PROVE ProfileInv'
<1>1. CASE j \in JobIds
  <2> DEFINE arg == [next |-> j, seen |-> seen]
  <2>1. arg.seen = seen
    OBVIOUS
  <2> HIDE DEF arg
  <2>2. Goes(ui, (asks \ {a}) \cup {Ask(a.id, "getJob", arg)})
    BY <1>1 DEF NextRead, Awaits, arg
  <2> QED
    BY <2>1, <2>2, NewPicture, WentOn DEF ProfileInv
<1>2. CASE j \notin JobIds
  <2>1. Goes([ui EXCEPT !.list = ListFor(Worker, seen), !.loading = FALSE], asks \ {a})
    BY <1>2 DEF NextRead, Settled
  <2>2. Picture(ListFor(Worker, seen))
    BY DEF ListFor, Picture
  <2>3. PICK u : u = [ui EXCEPT !.list = ListFor(Worker, seen), !.loading = FALSE]
    OBVIOUS
  <2>4. Shaped(u) /\ u.list = ListFor(Worker, seen) /\ u.portfolio = ui.portfolio
          /\ u.draft = ui.draft
    BY <2>3 DEF ProfileInv, Shaped
  <2> QED
    BY <2>1, <2>2, <2>3, <2>4, WentOn DEF ProfileInv
<1> QED
  BY <1>1, <1>2

\* Completed jobs stay completed, whoever moves the others.
LEMMA DoneIsDone == ASSUME NEW op \in DOMAIN Moves  PROVE "Completed" \notin Moves[op].from
BY DEF Moves, Move, acceptJob, submitWork, approveWork, cancelJob, freelancerCancelJob,
   enforceDeadline, raiseDispute, resolveDispute

LEMMA ElsewhereKept == ASSUME ProfileInv, Elsewhere(JobIds)  PROVE ProfileInv'
<1>1. PICK op \in DOMAIN Moves, j \in JobIds : jobs[j] \in Moves[op].from
        /\ jobs' = [jobs EXCEPT ![j] = Moves[op].to]
  BY DEF Elsewhere, Accepted, After
<1>2. ASSUME NEW k \in JobIds, jobs[k] = "Completed"  PROVE jobs'[k] = "Completed"
  BY <1>1, <1>2, DoneIsDone
<1>3. UNCHANGED <<ui, store, asks>>
  BY DEF Elsewhere
<1> QED
  BY <1>2, <1>3 DEF ProfileInv, Shaped, Portfolio, Picture, IsAsk

LEMMA ProfileKept ==
  ASSUME ProfileInv, focus = "profile",
         ProfileUser \/ Elsewhere(JobIds) \/ \E a \in asks : ProfileAnswer(a) \/ ProfileStep(a)
  PROVE  ProfileInv'
<1>1. CASE ErrorDismissed
  <2>1. PICK u : u = [ui EXCEPT !.error = FALSE]
    OBVIOUS
  <2>2. Shaped(u) /\ u.list = ui.list /\ u.portfolio = ui.portfolio /\ u.draft = ui.draft
    BY <2>1 DEF ProfileInv, Shaped
  <2>3. ui' = u /\ UNCHANGED <<store, jobs, asks>>
    BY <1>1, <2>1 DEF ErrorDismissed, Sets
  <2> QED
    BY <2>2, <2>3, SetKept DEF ProfileInv
<1>2. CASE FetchRetried
  <2>1. PICK u : Goes(u, fetchProfile) /\ u = [ui EXCEPT !.error = FALSE, !.loading = TRUE]
    BY <1>2 DEF FetchRetried
  <2>2. Shaped(u) /\ u.list = ui.list /\ u.portfolio = ui.portfolio /\ u.draft = ui.draft
    BY <2>1 DEF ProfileInv, Shaped
  <2> DEFINE arg == [next |-> 0, seen |-> Nothing]
  <2>3. arg.seen = Nothing /\ fetchProfile = asks \cup {Ask(FreeId(asks), "access", arg)}
    BY DEF fetchProfile, Asking
  <2> HIDE DEF arg
  <2>4. \A b \in fetchProfile : IsAsk(b) /\ Picture(b.seen) /\ Picture(b.arg.seen)
    BY <2>3, NothingDone, NewPicture DEF ProfileInv
  <2> QED
    BY <2>1, <2>2, <2>4, WentOn DEF ProfileInv
<1>3. CASE EditMode
  BY <1>3, EditKept
<1>4. ASSUME NEW j \in JobIds, NEW text, TestimonialGiven(j, text)  PROVE ProfileInv'
  <2>1. PICK all : /\ store' = [store EXCEPT !.testimonials = all]
                   /\ ui' = [ui EXCEPT !.testimonials = all, !.thanked = @ \cup {j}]
                   /\ UNCHANGED <<jobs, asks>>
    BY <1>4 DEF TestimonialGiven
  <2>2. PICK u : u = [ui EXCEPT !.testimonials = all, !.thanked = @ \cup {j}]
    OBVIOUS
  <2>3. PICK s : s = [store EXCEPT !.testimonials = all]
    OBVIOUS
  <2>4. Shaped(u) /\ u.list = ui.list /\ u.portfolio = ui.portfolio /\ u.draft = ui.draft
    BY <2>2 DEF ProfileInv, Shaped
  <2>5. s = [portfolio |-> s.portfolio, testimonials |-> s.testimonials,
             availability |-> s.availability]
        /\ s.portfolio = store.portfolio
    BY <2>3 DEF ProfileInv
  <2>6. ui' = u /\ store' = s /\ jobs' = jobs /\ asks' = asks
    BY <2>1, <2>2, <2>3
  <2> QED
    BY <2>4, <2>5, <2>6, ProfileFrame DEF ProfileInv
<1>5. ASSUME NEW who, WalletChanges(who, [ui EXCEPT !.thanked = {}])  PROVE ProfileInv'
  <2>1. PICK u : u = [ui EXCEPT !.thanked = {}]
    OBVIOUS
  <2>2. Shaped(u) /\ u.list = ui.list /\ u.portfolio = ui.portfolio /\ u.draft = ui.draft
    BY <2>1 DEF ProfileInv, Shaped
  <2>3. ui' = u /\ UNCHANGED <<store, jobs, asks>>
    BY <1>5, <2>1 DEF WalletChanges
  <2> QED
    BY <2>2, <2>3, SetKept DEF ProfileInv
<1>6. ASSUME NEW a \in asks, AnswerRead(a)  PROVE ProfileInv'
  <2>1. PICK b : asks' = (asks \ {a}) \cup {b} /\ IsAsk(b) /\ b.arg = a.arg
          /\ b.seen \in {jobs, Nothing}
    BY <1>6, SaidAsk DEF AnswerRead, ProfileInv
  <2>2. Picture(b.seen)
    BY <2>1, NothingDone DEF Picture
  <2>3. UNCHANGED <<ui, store, jobs>>
    BY <1>6 DEF AnswerRead
  <2> QED
    BY <2>1, <2>2, <2>3, ProfileFrame DEF ProfileInv
<1>7. ASSUME NEW a \in asks, AccessRead(a)  PROVE ProfileInv'
  <2>1. PICK r : Goes([ui EXCEPT !.restricted = r],
                           (asks \ {a}) \cup {Ask(a.id, "getJobCount", a.arg)})
    BY <1>7 DEF AccessRead, Awaits
  <2>2. PICK u : u = [ui EXCEPT !.restricted = r]
    OBVIOUS
  <2>3. Shaped(u) /\ u.list = ui.list /\ u.portfolio = ui.portfolio /\ u.draft = ui.draft
    BY <2>2 DEF ProfileInv, Shaped
  <2>4. \A b \in (asks \ {a}) \cup {Ask(a.id, "getJobCount", a.arg)} : IsAsk(b) /\ Picture(b.seen)
          /\ Picture(b.arg.seen)
    BY NewPicture DEF ProfileInv
  <2> QED
    BY <2>1, <2>2, <2>3, <2>4, WentOn DEF ProfileInv
<1>8. ASSUME NEW a \in asks, ProfileRead(a)  PROVE ProfileInv'
  <2>1. CASE Goes([ui EXCEPT !.loading = FALSE, !.error = TRUE], Settled(a))
    <3>1. PICK u : u = [ui EXCEPT !.loading = FALSE, !.error = TRUE]
      OBVIOUS
    <3>2. Shaped(u) /\ u.list = ui.list /\ u.portfolio = ui.portfolio /\ u.draft = ui.draft
    BY <3>1 DEF ProfileInv, Shaped
    <3> QED
      BY <2>1, <3>1, <3>2, WentOn DEF ProfileInv, Settled
  <2>2. CASE NextRead(a, a.arg.seen, 1)
    BY <2>2, NextReadKept DEF ProfileInv
  <2>3. ASSUME NEW j, NEW n, NextRead(a, [a.arg.seen EXCEPT ![j] = a.seen[j]], n)  PROVE ProfileInv'
    <3>1. Picture([a.arg.seen EXCEPT ![j] = a.seen[j]])
      BY DEF ProfileInv, Picture
    <3> QED
      BY <2>3, <3>1, NextReadKept
  <2> QED
    BY <1>8, <2>1, <2>2, <2>3 DEF ProfileRead
<1> QED
  BY <1>1, <1>2, <1>3, <1>4, <1>5, <1>6, <1>7, <1>8, ElsewhereKept DEF ProfileUser, ProfileAnswer,
     ProfileStep

\* Whatever is highlighted, in the stored portfolio, the one shown or the
\* draft, is completed work, though jobs move and lists are read while the
\* draft is edited (app/profile/[address]).
THEOREM HighlightsAreEarned == ClientSpec => []HighlightsEarned
<1> DEFINE Inv == On("profile") => ProfileInv
<1>1. ClientInit => Inv
  BY PagesBegin, NothingDone, EmptyPortfolio DEF ProfileInit, ProfileUi, ProfileInv, Shaped, Reading,
     IsAsk, Ask
<1>2. Inv /\ [ClientNext]_clientVars => Inv'
  <2> SUFFICES ASSUME Inv, [ClientNext]_clientVars, focus' = "profile"  PROVE ProfileInv'
    BY DEF On
  <2>1. CASE ClientNext
    BY <2>1, PagesApart, ProfileKept DEF On
  <2>2. CASE UNCHANGED clientVars
    BY <2>2 DEF On, clientVars, pageVars, ProfileInv, Shaped, Portfolio, Picture, IsAsk
  <2> QED
    BY <2>1, <2>2
<1>3. Inv => HighlightsEarned
  BY DEF HighlightsEarned, ProfileInv, Portfolio, isProfileComplete
<1> QED
  BY <1>1, <1>2, <1>3, PTL DEF ClientSpec

-----------------------------------------------------------------------------
(***************************************************************************)
(* Descriptions.  Hashes being fetched and hashes queued are disjoint and  *)
(* together those in flight; every request is for a hash being fetched, no *)
(* two for the same, so that a task that ends frees one place and no more. *)
(***************************************************************************)
Pumping(active, waiting, flight) ==
  /\ IsFiniteSet(active) /\ Cardinality(active) <= FetchLimit
  /\ waiting \in Seq(Hashes)
  /\ \A i, k \in DOMAIN waiting : waiting[i] = waiting[k] => i = k
  /\ waiting # <<>> => Cardinality(active) = FetchLimit
  /\ flight = active \cup ToSet(waiting)
  /\ active \cap ToSet(waiting) = {}

Fetches(as, active) ==
  /\ \A a \in as : IsAsk(a) /\ a.arg \in active
  /\ \A a, b \in as : a.arg = b.arg => a = b

DescriptionsShape(u) == u =
  [active |-> u.active, queue |-> u.queue, inFlight |-> u.inFlight, text |-> u.text]

DescriptionsInv ==
  /\ DescriptionsShape(ui)
  /\ Pumping(ui.active, ui.queue, ui.inFlight)
  /\ Fetches(asks, ui.active)

LEMMA PumpStart ==
  ASSUME NEW A, NEW Q, NEW F, Pumping(A, Q, F), NEW h \in Hashes, h \notin F,
    Cardinality(A) < FetchLimit
  PROVE  Pumping(A \cup {h}, Q, F \cup {h})
<1>1. Q = <<>> /\ h \notin A /\ ToSet(Q) = {} /\ Cardinality(A) \in Nat
  BY HomeWidgetsConstants, FS_CardinalityType DEF Pumping, ToSet
<1>2. IsFiniteSet(A \cup {h}) /\ Cardinality(A \cup {h}) = Cardinality(A) + 1
  BY <1>1, FS_AddElement DEF Pumping
<1> QED
  BY <1>1, <1>2, HomeWidgetsConstants DEF Pumping

LEMMA PumpWait ==
  ASSUME NEW A, NEW Q, NEW F, Pumping(A, Q, F), NEW h \in Hashes, h \notin F,
    ~(Cardinality(A) < FetchLimit)
  PROVE  Pumping(A, Append(Q, h), F \cup {h})
<1>1. Cardinality(A) = FetchLimit
  BY FS_CardinalityType, HomeWidgetsConstants DEF Pumping
<1>2. Q \in Seq(Hashes) /\ Append(Q, h) \in Seq(Hashes) /\ Len(Append(Q, h)) = Len(Q) + 1
        /\ Append(Q, h)[Len(Q) + 1] = h
      /\ \A i \in 1..Len(Q) : Append(Q, h)[i] = Q[i]
  BY DEF Pumping
<1>3. DOMAIN Append(Q, h) = 1..(Len(Q) + 1) /\ DOMAIN Q = 1..Len(Q) /\ Len(Q) \in Nat
  BY <1>2
<1>4. ToSet(Append(Q, h)) = ToSet(Q) \cup {h}
  BY <1>2, <1>3 DEF ToSet
<1>5. \A i \in DOMAIN Q : Q[i] # h
  BY DEF Pumping, ToSet
<1>6. \A i, k \in DOMAIN Append(Q, h) : Append(Q, h)[i] = Append(Q, h)[k] => i = k
  BY <1>2, <1>3, <1>5 DEF Pumping
<1> QED
  BY <1>1, <1>2, <1>4, <1>6, HomeWidgetsConstants DEF Pumping

LEMMA PumpEnd ==
  ASSUME NEW A, NEW Q, NEW F, Pumping(A, Q, F), NEW h \in A
  PROVE  /\ Q = <<>> => Pumping(A \ {h}, Q, F \ {h})
         /\ Q # <<>> => Pumping((A \ {h}) \cup {Head(Q)}, Tail(Q), F \ {h})
<1>1. IsFiniteSet(A \ {h}) /\ Cardinality(A \ {h}) = Cardinality(A) - 1 /\ Cardinality(A) \in Nat
  BY FS_RemoveElement, FS_CardinalityType DEF Pumping
<1>2. CASE Q = <<>>
  BY <1>1, <1>2, HomeWidgetsConstants DEF Pumping, ToSet
<1>3. CASE Q # <<>>
  <2>1. /\ Q \in Seq(Hashes) /\ Len(Q) \in Nat \ {0} /\ Head(Q) = Q[1] /\ Tail(Q) \in Seq(Hashes)
        /\ Len(Tail(Q)) = Len(Q) - 1 /\ \A i \in 1..Len(Tail(Q)) : Tail(Q)[i] = Q[i + 1]
    BY <1>3 DEF Pumping
  <2>2. DOMAIN Q = 1..Len(Q) /\ DOMAIN Tail(Q) = 1..(Len(Q) - 1)
    BY <2>1
  <2>3. ToSet(Q) = ToSet(Tail(Q)) \cup {Head(Q)}
    <3>1. \A i \in DOMAIN Q : i = 1 \/ (i - 1 \in DOMAIN Tail(Q) /\ Tail(Q)[i - 1] = Q[i])
      BY <2>1, <2>2
    <3>2. \A i \in DOMAIN Tail(Q) : i + 1 \in DOMAIN Q /\ Q[i + 1] = Tail(Q)[i]
      BY <2>1, <2>2
    <3>3. 1 \in DOMAIN Q
      BY <2>1, <2>2
    <3> QED
      <4>1. \A x \in ToSet(Q) : x = Head(Q) \/ x \in ToSet(Tail(Q))
        <5>1. ASSUME NEW i \in DOMAIN Q  PROVE Q[i] = Head(Q) \/ Q[i] \in ToSet(Tail(Q))
          <6>1. CASE i = 1
            BY <2>1, <6>1
          <6>2. CASE i # 1
            BY <3>1, <6>2 DEF ToSet
          <6> QED
            BY <6>1, <6>2
        <5> QED
          BY <5>1 DEF ToSet
      <4>2. Head(Q) \in ToSet(Q)
        BY <2>1, <3>3 DEF ToSet
      <4>3. \A x \in ToSet(Tail(Q)) : x \in ToSet(Q)
        BY <3>2 DEF ToSet
      <4> QED
        BY <4>1, <4>2, <4>3
  <2>4. \A i, k \in DOMAIN Tail(Q) : Tail(Q)[i] = Tail(Q)[k] => i = k
    BY <2>1, <2>2 DEF Pumping
  <2>5. Head(Q) \notin ToSet(Tail(Q))
    BY <2>1, <2>2 DEF Pumping, ToSet
  <2>6. Head(Q) \notin A /\ Cardinality(A) = FetchLimit
    BY <1>3, <2>3 DEF Pumping
  <2>7. IsFiniteSet((A \ {h}) \cup {Head(Q)})
          /\ Cardinality((A \ {h}) \cup {Head(Q)}) = Cardinality(A)
    BY <1>1, <2>6, FS_AddElement
  <2> QED
    BY <2>1, <2>3, <2>4, <2>5, <2>6, <2>7, <1>3, HomeWidgetsConstants DEF Pumping
<1> QED
  BY <1>2, <1>3

LEMMA FinishedPumps ==
  ASSUME DescriptionsInv, NEW h \in ui.active
  PROVE  /\ DescriptionsShape(Finished(ui, h))
         /\ Pumping(Finished(ui, h).active, Finished(ui, h).queue, Finished(ui, h).inFlight)
         /\ ui.active \ {h} \subseteq Finished(ui, h).active
<1>1. CASE ui.queue = <<>>
  <2>1. PICK u : u = [ui EXCEPT !.active = @ \ {h}, !.inFlight = @ \ {h}]
    OBVIOUS
  <2>2. DescriptionsShape(u) /\ u.active = ui.active \ {h} /\ u.queue = ui.queue
          /\ u.inFlight = ui.inFlight \ {h}
    BY <2>1 DEF DescriptionsInv, DescriptionsShape
  <2>3. Finished(ui, h) = u
    BY <1>1, <2>1 DEF Finished
  <2>4. Pumping(ui.active \ {h}, ui.queue, ui.inFlight \ {h})
    BY <1>1, PumpEnd DEF DescriptionsInv
  <2> QED
    BY <2>2, <2>3, <2>4
<1>2. CASE ui.queue # <<>>
  <2>1. PICK v : v = [ui EXCEPT !.active = @ \ {h}, !.inFlight = @ \ {h}]
    OBVIOUS
  <2>2. PICK w : w = [v EXCEPT !.active = @ \cup {Head(ui.queue)}]
    OBVIOUS
  <2>3. PICK u : u = [w EXCEPT !.queue = Tail(@)]
    OBVIOUS
  <2>4. DescriptionsShape(v) /\ v.active = ui.active \ {h} /\ v.queue = ui.queue
          /\ v.inFlight = ui.inFlight \ {h}
    BY <2>1 DEF DescriptionsInv, DescriptionsShape
  <2>5. DescriptionsShape(w) /\ w.active = (ui.active \ {h}) \cup {Head(ui.queue)}
          /\ w.queue = ui.queue /\ w.inFlight = ui.inFlight \ {h}
    BY <2>2, <2>4 DEF DescriptionsShape
  <2>6. /\ DescriptionsShape(u) /\ u.active = (ui.active \ {h}) \cup {Head(ui.queue)}
             /\ u.queue = Tail(ui.queue)
        /\ u.inFlight = ui.inFlight \ {h}
    BY <2>3, <2>5 DEF DescriptionsShape
  <2>7. Finished(ui, h) = u
    BY <1>2, <2>1, <2>2, <2>3 DEF Finished, Started
  <2>8. Pumping((ui.active \ {h}) \cup {Head(ui.queue)}, Tail(ui.queue), ui.inFlight \ {h})
    BY <1>2, PumpEnd DEF DescriptionsInv
  <2> QED
    BY <2>6, <2>7, <2>8
<1> QED
  BY <1>1, <1>2

LEMMA DescriptionsFrame ==
  ASSUME NEW u, ui' = u, DescriptionsShape(u), Pumping(u.active, u.queue, u.inFlight),
         NEW as, asks' = as, Fetches(as, u.active)
  PROVE  DescriptionsInv'
<1>1. DescriptionsShape(ui)'
  BY DEF DescriptionsShape
<1>2. Pumping(ui.active, ui.queue, ui.inFlight)'
  BY DEF Pumping, ToSet
<1>3. Fetches(asks, ui.active)'
  BY DEF Fetches, IsAsk
<1> QED
  BY <1>1, <1>2, <1>3 DEF DescriptionsInv

LEMMA DescriptionsKept == ASSUME DescriptionsInv, DescriptionsNext  PROVE DescriptionsInv'
<1>1. ASSUME NEW h \in Hashes, resolveJobDescription(h)  PROVE DescriptionsInv'
  <2>1. h \notin ui.inFlight /\ asks' = asks
    BY <1>1 DEF resolveJobDescription, Sets
  <2>2. CASE Cardinality(ui.active) < FetchLimit
    <3>1. PICK v : v = [ui EXCEPT !.active = @ \cup {h}]
      OBVIOUS
    <3>2. PICK u : u = [v EXCEPT !.inFlight = @ \cup {h}]
      OBVIOUS
    <3>3. DescriptionsShape(v) /\ v.active = ui.active \cup {h} /\ v.queue = ui.queue
            /\ v.inFlight = ui.inFlight
      BY <3>1 DEF DescriptionsInv, DescriptionsShape
    <3>4. DescriptionsShape(u) /\ u.active = ui.active \cup {h} /\ u.queue = ui.queue
            /\ u.inFlight = ui.inFlight \cup {h}
      BY <3>2, <3>3 DEF DescriptionsShape
    <3>5. ui' = u
      BY <1>1, <2>2, <3>1, <3>2 DEF resolveJobDescription, Sets, Started
    <3> QED
      BY <2>1, <2>2, <3>4, <3>5, PumpStart DEF DescriptionsInv, Fetches, IsAsk
  <2>3. CASE ~(Cardinality(ui.active) < FetchLimit)
    <3>1. PICK u : u = [ui EXCEPT !.queue = Append(@, h), !.inFlight = @ \cup {h}]
      OBVIOUS
    <3>2. DescriptionsShape(u) /\ u.active = ui.active /\ u.queue = Append(ui.queue, h)
            /\ u.inFlight = ui.inFlight \cup {h}
      BY <3>1 DEF DescriptionsInv, DescriptionsShape
    <3>3. ui' = u
      BY <1>1, <2>3, <3>1 DEF resolveJobDescription, Sets
    <3>4. Pumping(ui.active, Append(ui.queue, h), ui.inFlight \cup {h})
      BY <2>1, <2>3, PumpWait DEF DescriptionsInv
    <3> QED
      BY <2>1, <3>2, <3>3, <3>4, DescriptionsFrame DEF DescriptionsInv
  <2> QED
    BY <2>2, <2>3
\* A text has come: the fetch has ended, and its request with it.
<1>2. ASSUME NEW h \in ui.active, NEW as, asks' = as, as \subseteq asks, \A a \in as : a.arg # h,
             ui' = Finished(ui, h) \/ ui' = [Finished(ui, h) EXCEPT !.text[h] = "good"]
      PROVE  DescriptionsInv'
  <2>1. /\ DescriptionsShape(ui') /\ ui'.active = Finished(ui, h).active
             /\ ui'.queue = Finished(ui, h).queue
        /\ ui'.inFlight = Finished(ui, h).inFlight
    BY <1>2, FinishedPumps DEF DescriptionsShape
  <2>2. Fetches(asks', ui'.active)
    BY <1>2, <2>1, FinishedPumps DEF DescriptionsInv, Fetches
  <2> QED
    BY <2>1, <2>2, FinishedPumps DEF DescriptionsInv, DescriptionsShape, Pumping, Fetches, IsAsk,
       ToSet
<1>3. ASSUME NEW h \in Hashes, CacheRead(h)  PROVE DescriptionsInv'
  <2>1. h \in ui.active /\ \A a \in asks : a.arg # h
    BY <1>3 DEF CacheRead, Asked
  <2>2. CASE Sets([Finished(ui, h) EXCEPT !.text[h] = "good"])
    BY <2>1, <2>2, <1>2 DEF Sets
  <2>3. CASE asks' = Asking("getDescriptionCid", h) /\ UNCHANGED ui
    <3>1. \A a \in asks' : IsAsk(a)
            /\ (a \in asks \/ (a = Ask(FreeId(asks), "getDescriptionCid", h) /\ a.arg = h))
      BY <2>3, NewAsk DEF Asking, DescriptionsInv, Fetches
    <3> QED
      BY <2>1, <2>3, <3>1 DEF DescriptionsInv, DescriptionsShape, Pumping, Fetches, IsAsk, ToSet
  <2> QED
    BY <1>3, <2>2, <2>3 DEF CacheRead
<1>4. ASSUME NEW a \in asks, ui' = ui, NEW b, asks' = (asks \ {a}) \cup {b}, IsAsk(b), b.arg = a.arg
      PROVE DescriptionsInv'
  BY <1>4 DEF DescriptionsInv, DescriptionsShape, Pumping, Fetches, IsAsk, ToSet
<1>5. ASSUME NEW a \in asks, CidRead(a) \/ IpfsRead(a)  PROVE DescriptionsInv'
  <2>1. a.arg \in ui.active /\ Settled(a) \subseteq asks /\ \A b \in Settled(a) : b.arg # a.arg
    BY DEF Settled, DescriptionsInv, Fetches
  <2>2. CASE Goes(Finished(ui, a.arg), Settled(a))
    BY <1>2, <2>1, <2>2 DEF Goes
  <2>3. CASE ui' = [Finished(ui, a.arg) EXCEPT !.text[a.arg] = "good"] /\ asks' = Settled(a)
    BY <1>2, <2>1, <2>3
  <2>4. CASE Goes(ui, Awaits(a, "fetchFromIpfs", a.arg))
    BY <1>4, <2>4, NewAsk DEF Goes, Awaits
  <2> QED
    BY <1>5, <2>2, <2>3, <2>4 DEF CidRead, IpfsRead
<1>6. ASSUME NEW a \in asks, AnswerPlain(a)  PROVE DescriptionsInv'
  <2>1. IsAsk(a)
    BY DEF DescriptionsInv, Fetches
  <2>2. PICK b : asks' = (asks \ {a}) \cup {b} /\ IsAsk(b) /\ b.arg = a.arg
    BY <1>6, <2>1, SaidAsk DEF AnswerPlain
  <2> QED
    BY <1>4, <1>6, <2>2 DEF AnswerPlain
<1> QED
  BY <1>1, <1>3, <1>5, <1>6 DEF DescriptionsNext

LEMMA DescriptionsBegin == ASSUME DescriptionsInit, asks = {}  PROVE DescriptionsInv
<1>1. Pumping({}, <<>>, {})
  BY FS_EmptySet, HomeWidgetsConstants DEF Pumping, ToSet
<1> QED
  BY <1>1 DEF DescriptionsInit, DescriptionsInv, DescriptionsShape, Fetches

\* The fetcher is at its limit while anything waits, never above it, and
\* forgets no hash, for every limit and set of hashes (lib/job-
\* descriptions.ts).
THEOREM DescriptionsKeepFlowing == ClientSpec => []DescriptionsPumped
<1> DEFINE Inv == On("descriptions") => DescriptionsInv
<1>1. ClientInit => Inv
  BY PagesBegin, DescriptionsBegin
<1>2. Inv /\ [ClientNext]_clientVars => Inv'
  <2> SUFFICES ASSUME Inv, [ClientNext]_clientVars, focus' = "descriptions"  PROVE DescriptionsInv'
    BY DEF On
  <2>1. CASE ClientNext
    BY <2>1, PagesApart, DescriptionsKept DEF On
  <2>2. CASE UNCHANGED clientVars
    BY <2>2 DEF On, clientVars, pageVars, DescriptionsInv, DescriptionsShape, Pumping, Fetches,
       IsAsk, ToSet
  <2> QED
    BY <2>1, <2>2
<1>3. Inv => DescriptionsPumped
  BY DEF DescriptionsPumped, DescriptionsInv, Pumping
<1> QED
  BY <1>1, <1>2, <1>3, PTL DEF ClientSpec

-----------------------------------------------------------------------------
(***************************************************************************)
(* What is stored and what is shown: recent calls, the resume, the         *)
(* notifications, the network.                                             *)
(***************************************************************************)
RecentInv ==
  /\ store = [recent |-> store.recent] /\ ui = [items |-> ui.items, mounted |-> ui.mounted]
  /\ ui.mounted => ui.items = store.recent

LEMMA RecentKept == ASSUME RecentInv, RecentNext  PROVE RecentInv'
<1>1. CASE RecentMounted \/ RecentLeft
  BY <1>1 DEF RecentInv, RecentMounted, RecentLeft, Sets
<1>2. ASSUME NEW h, NEW s, recordRecentContractInteraction(h, s)  PROVE RecentInv'
  BY <1>2 DEF RecentInv, recordRecentContractInteraction
<1> QED
  BY <1>1, <1>2 DEF RecentNext

BuilderInv ==
  /\ ui = [resume |-> ui.resume, loaded |-> ui.loaded, preview |-> ui.preview]
  /\ ui.loaded => store = ui.resume

LEMMA BuilderKept == ASSUME BuilderInv, BuilderNext  PROVE BuilderInv'
<1>1. CASE ResumeLoaded \/ PreviewToggled
  BY <1>1 DEF BuilderInv, ResumeLoaded, PreviewToggled, Sets
<1>2. ASSUME NEW r, ResumeEdited(r)  PROVE BuilderInv'
  BY <1>2 DEF BuilderInv, ResumeEdited
<1> QED
  BY <1>1, <1>2 DEF BuilderNext, updateField, addEntry, removeEntry

NoticesInv ==
  /\ ui = [list |-> ui.list, prefs |-> ui.prefs, loaded |-> ui.loaded, open |-> ui.open,
           settings |-> ui.settings, focused |-> ui.focused]
  /\ store = [list |-> store.list, prefs |-> store.prefs]
  /\ ui.loaded => store.list = ui.list /\ store.prefs = ui.prefs

LEMMA NoticesKept == ASSUME NoticesInv, NoticesNext  PROVE NoticesInv'
<1>1. ASSUME NEW list, NEW prefs, NoticesChange(list, prefs)  PROVE NoticesInv'
  BY <1>1 DEF NoticesInv, NoticesChange
<1>2. CASE NoticesLoaded
  BY <1>2 DEF NoticesInv, NoticesLoaded, Sets
<1>3. CASE InboxToggled
  BY <1>3 DEF NoticesInv, InboxToggled, Sets
<1>4. ASSUME NEW step, handleListKeyDown(step)  PROVE NoticesInv'
  BY <1>4 DEF NoticesInv, handleListKeyDown, Sets
<1>5. CASE markAllAsSeen \/ clearNotifications
        \/ (\E event \in Events : addNotification(event) \/ setPreference(event))
           \/ \E i \in 1..MaxNotices : markAsSeen(i)
  BY <1>1, <1>5 DEF markAllAsSeen, clearNotifications, addNotification, setPreference, markAsSeen
<1> QED
  BY <1>2, <1>3, <1>4, <1>5 DEF NoticesNext

NetworkInv ==
  /\ ui = [network |-> ui.network, hydrated |-> ui.hydrated, picker |-> ui.picker,
           walletNetwork |-> ui.walletNetwork, extension |-> ui.extension, behind |-> ui.behind]
  /\ store = [network |-> store.network]
  /\ ui.extension \in Networks /\ ui.walletNetwork \in Networks \cup {"none"}
  /\ ui.hydrated /\ ~ui.behind => ui.network = getPersistedNetwork(store.network)

LEMMA NetworkKept == ASSUME NetworkInv, NetworkNext  PROVE NetworkInv'
<1>1. ASSUME NEW n \in Networks, Picks(n)  PROVE NetworkInv'
  BY <1>1, WalletConstants DEF NetworkInv, Picks, setNetwork, persistNetwork, getPersistedNetwork
<1>2. CASE Hydrated
  BY <1>2 DEF NetworkInv, Hydrated, Sets
<1>3. CASE NetworkReloads
  BY <1>3 DEF NetworkInv, NetworkReloads, NetworkUi, Sets
<1>4. ASSUME NEW p, Sets([ui EXCEPT !.picker = p])  PROVE NetworkInv'
  BY <1>4 DEF NetworkInv, Sets
<1>5. CASE handleSwitch
  BY <1>5, WalletConstants DEF NetworkInv, handleSwitch, ShowsMismatch, setNetwork, Kept,
     persistNetwork, getPersistedNetwork
<1>6. ASSUME NEW n \in Networks, ExtensionNetwork(n) \/ NetworkReported  PROVE NetworkInv'
  BY <1>6 DEF NetworkInv, ExtensionNetwork, NetworkReported, Sets
<1>7. ASSUME NEW n \in Networks, OtherTabPicks(n)  PROVE NetworkInv'
  BY <1>7 DEF NetworkInv, OtherTabPicks
<1> QED
  BY <1>1, <1>2, <1>3, <1>4, <1>5, <1>6, <1>7, WalletConstants DEF NetworkNext, PickerClicked,
     handleSelect, handleConfirmMainnet

StoredInv ==
  /\ On("recent") => RecentInv
  /\ On("builder") => BuilderInv
  /\ On("notices") => NoticesInv
  /\ On("network") => NetworkInv

LEMMA StoredBegins == ASSUME ClientInit PROVE StoredInv
<1>1. On("recent") => RecentInv
  BY PagesBegin DEF RecentInit, RecentInv
<1>2. On("builder") => BuilderInv
  BY PagesBegin DEF BuilderInit, BuilderInv
<1>3. On("notices") => NoticesInv
  BY PagesBegin DEF NoticesInit, NoticesInv
<1>4. On("network") => NetworkInv
  BY PagesBegin DEF NetworkInit, NetworkInv, NetworkUi
<1> QED
  BY <1>1, <1>2, <1>3, <1>4 DEF StoredInv

\* After its first reading a page shows what the browser's storage holds,
\* whatever is recorded, edited, dismissed or picked.
THEOREM StoredListsAreShown == ClientSpec => []StoredIsShown
<1>1. ClientInit => StoredInv
  BY StoredBegins
<1>2. StoredInv /\ [ClientNext]_clientVars => StoredInv'
  <2> SUFFICES ASSUME StoredInv, [ClientNext]_clientVars  PROVE StoredInv'
    OBVIOUS
  <2>1. CASE ClientNext
    <3>1. focus' = focus
      BY <2>1, PagesApart
    <3>2. On("recent")' => RecentInv'
      BY <2>1, <3>1, PagesApart, RecentKept DEF On, StoredInv
    <3>3. On("builder")' => BuilderInv'
      BY <2>1, <3>1, PagesApart, BuilderKept DEF On, StoredInv
    <3>4. On("notices")' => NoticesInv'
      BY <2>1, <3>1, PagesApart, NoticesKept DEF On, StoredInv
    <3>5. On("network")' => NetworkInv'
      BY <2>1, <3>1, PagesApart, NetworkKept DEF On, StoredInv
    <3> QED
      BY <3>2, <3>3, <3>4, <3>5 DEF StoredInv, On
  <2>2. CASE UNCHANGED clientVars
    BY <2>2 DEF On, clientVars, pageVars, StoredInv, RecentInv, BuilderInv, NoticesInv, NetworkInv
  <2> QED
    BY <2>1, <2>2
<1>3. StoredInv => StoredIsShown
  BY DEF StoredIsShown, StoredInv, RecentInv, BuilderInv, NoticesInv, NetworkInv
<1> QED
  BY <1>1, <1>2, <1>3, PTL DEF ClientSpec

-----------------------------------------------------------------------------
(***************************************************************************)
(* The export.  A ledger answers with its newest transactions; what a page *)
(* leaves out is older than all it has.                                    *)
(***************************************************************************)
\* A set of tokens has such a list (ListedExists), and NewestFirst is it.
LEMMA NewestFirstIs ==
  ASSUME NEW n \in Nat, NEW S \in SUBSET (1 .. n)
  PROVE  NewestFirst(S) \in Seq(S) /\ Falling(NewestFirst(S)) /\ ToSet(NewestFirst(S)) = S
<1> DEFINE places == 1 .. Cardinality(S)
           list == NewestFirst(S)
<1>1. PICK s \in Seq(S) : Falling(s) /\ ToSet(s) = S
  BY ListedExists
<1>2. \A x \in S : x \in Int
  OBVIOUS
<1>3. s \in Seq(Int)
  BY <1>2, ListOfNumbers
<1>4. Len(s) = Cardinality(S) /\ IsFiniteSet(S)
  BY <1>1, <1>3, FallingIsOnce, OnceCounts
<1>5. s \in [places -> S] /\ \A k, l \in places : k < l => s[k] > s[l]
  BY <1>1, <1>4 DEF Falling
<1>6. list \in [places -> S] /\ \A k, l \in places : k < l => list[k] > list[l]
  BY <1>5 DEF NewestFirst
<1>7. Cardinality(S) \in Nat
  BY <1>4
<1> HIDE DEF list
<1>8. list \in Seq(S) /\ Len(list) = Cardinality(S) /\ DOMAIN list = places
  BY <1>6, <1>7
<1>9. Falling(list)
  BY <1>6, <1>8 DEF Falling
<1>10. Len(list) = Cardinality(ToSet(list))
  <2>1. list \in Seq(Int)
    BY <1>2, <1>8, ListOfNumbers
  <2> QED
    BY <2>1, <1>9, FallingIsOnce, OnceCounts
<1>11. ToSet(list) \subseteq S
  BY <1>8 DEF ToSet
<1>12. ToSet(list) = S
  BY <1>4, <1>8, <1>10, <1>11, FS_Subset
<1> QED
  BY <1>8, <1>9, <1>12 DEF list

\* A page of the ledger: the newest of those that are older than the cursor.
Older(who, cursor, n) == {t \in Owned(who) : t <= n /\ (cursor # NoCursor => t < cursor)}

LEMMA PageIs ==
  ASSUME NEW who, NEW cursor \in Nat, NEW limit \in Nat \ {0}, NEW n \in Nat,
         NEW page, page = fetchWalletTransactions(who, cursor, limit, n)
  PROVE  /\ page.records \in Seq(Older(who, cursor, n)) /\ Falling(page.records)
         /\ \A t \in Older(who, cursor, n) :
              t \in ToSet(page.records) \/ \A s \in ToSet(page.records) : t < s
         /\ page.nextCursor = NoCursor => ToSet(page.records) = Older(who, cursor, n)
         /\ page.nextCursor # NoCursor =>
              page.nextCursor \in ToSet(page.records) /\ \A s \in ToSet(page.records) : s >= page.nextCursor
<1> DEFINE S == Older(who, cursor, n)
           older == NewestFirst(S)
           size == IF limit < Len(older) THEN limit ELSE Len(older)
           records == SubSeq(older, 1, size)
<1>1. S \in SUBSET (1 .. MaxTokens) /\ MaxTokens \in Nat
  BY TransactionConstants DEF Older, Owned
<1>2. older \in Seq(S) /\ Falling(older) /\ ToSet(older) = S
  BY <1>1, NewestFirstIs
<1>3. page = [records |-> records, nextCursor |-> IF Len(records) >= limit THEN Last(records) ELSE NoCursor]
  BY DEF fetchWalletTransactions, Older
<1> HIDE DEF S, older
<1>4. Len(older) \in Nat /\ size \in Nat /\ size <= Len(older) /\ size <= limit
  BY <1>2
<1>5. /\ records \in Seq(S) /\ Len(records) = size /\ DOMAIN records = 1 .. size
      /\ \A i \in 1 .. size : records[i] = older[i]
  BY <1>2, <1>4
<1>6. Falling(records)
  BY <1>2, <1>4, <1>5 DEF Falling
<1>7. \A t \in S : t \in Int /\ t # NoCursor
  BY <1>1 DEF NoCursor
<1>8. ASSUME NEW t \in S, t \notin ToSet(records), NEW s \in ToSet(records)  PROVE t < s
  <2>1. PICK i \in DOMAIN older : older[i] = t
    BY <1>2 DEF ToSet
  <2>2. PICK k \in 1 .. size : records[k] = s
    BY <1>5 DEF ToSet
  <2>3. i \notin 1 .. size
    BY <2>1, <1>5, <1>8 DEF ToSet
  <2>4. i > k /\ k \in DOMAIN older /\ older[k] = s
    BY <2>1, <2>2, <2>3, <1>4, <1>5, <1>2
  <2>5. s > t
    BY <2>1, <2>4, <1>2 DEF Falling
  <2>6. s \in S
    BY <2>4, <1>2
  <2> QED
    BY <2>5, <2>6, <1>7
<1> HIDE DEF records, size
<1>9. CASE size >= limit
  <2>1. page.nextCursor = records[size] /\ size \in DOMAIN records
    BY <1>3, <1>4, <1>5, <1>9 DEF Last
  <2>2. \A i \in DOMAIN records : records[i] \in S
    BY <1>5
  <2>3. ASSUME NEW s \in ToSet(records)  PROVE s >= records[size]
    <3>1. PICK k \in DOMAIN records : records[k] = s
      BY DEF ToSet
    <3>4. s \in Int /\ records[size] \in Int
      BY <3>1, <2>1, <2>2, <1>7
    <3>2. CASE k < size
      <4>1. records[k] > records[size]
        BY <3>2, <2>1, <1>6 DEF Falling
      <4> QED
        BY <4>1, <3>1, <3>4
    <3>3. CASE k = size
      BY <3>1, <3>3, <3>4
    <3> QED
      BY <3>1, <3>2, <3>3, <1>4, <1>5
  <2>4. page.nextCursor \in ToSet(records) /\ page.nextCursor \in S
    BY <2>1, <2>2 DEF ToSet
  <2> QED
    BY <2>1, <2>3, <2>4, <1>3, <1>5, <1>6, <1>7, <1>8 DEF S
<1>10. CASE size < limit
  <2>1. page.nextCursor = NoCursor
    BY <1>3, <1>4, <1>5, <1>10
  <2>2. size = Len(older)
    BY <1>4, <1>10 DEF size
  <2>3. ToSet(records) = ToSet(older)
    BY <2>2, <1>2, <1>5 DEF ToSet
  <2> QED
    BY <2>1, <2>3, <1>2, <1>3, <1>5, <1>6, <1>8 DEF S
<1> QED
  BY <1>9, <1>10, <1>4

\* What an export has gathered when it asks for the page behind the cursor:
\* what it wants and does not have is older.
Gathered(rows, days, began, cursor) ==
  /\ rows \in Seq(Int) /\ Falling(rows)
  /\ cursor = NoCursor => rows = <<>>
  /\ cursor # NoCursor =>
       /\ \A s \in ToSet(rows) : s >= cursor
       /\ \A t \in Owned(Client) \cap days \cap 1 .. began : t \in ToSet(rows) \/ t < cursor

Complete(file) ==
  /\ \A k, l \in DOMAIN file.rows : k < l => file.rows[k] > file.rows[l]
  /\ \A t \in Owned(Client) \cap file.days \cap 1 .. file.began :
       t \in ToSet(file.rows) \/ (Len(file.rows) >= ExportCap /\ t < Last(file.rows))

ExportInv ==
  /\ ui = [open |-> ui.open, days |-> ui.days, running |-> ui.running, rows |-> ui.rows, file |-> ui.file]
  /\ store = [newest |-> store.newest] /\ store.newest \in Nat
  /\ wallet = Client
  /\ \A a \in asks :
       /\ a.arg.who = Client /\ a.arg.cursor \in Nat /\ a.arg.since \in Nat
       /\ a.arg.for.began \in Nat /\ a.arg.for.began <= a.arg.since
       /\ Gathered(ui.rows, a.arg.for.days, a.arg.for.began, a.arg.cursor)
  /\ \A i \in DOMAIN ui.file : Complete(ui.file[i])

\* One more page, from a ledger that may have grown since the export began.
LEMMA PageGathered ==
  ASSUME NEW rows, NEW days, NEW began \in Nat, NEW cursor \in Nat, NEW n \in Nat, began <= n,
         Gathered(rows, days, began, cursor),
         NEW page, page = fetchWalletTransactions(Client, cursor, ExportLimit, n),
         NEW all, all = rows \o Without(page.records, Owned(Client) \ days)
  PROVE  /\ page.nextCursor \in Nat /\ Len(all) \in Nat
         /\ page.nextCursor # NoCursor => Gathered(all, days, began, page.nextCursor)
         /\ page.nextCursor = NoCursor \/ Len(all) >= ExportCap =>
              Complete([rows |-> all, days |-> days, began |-> began])
<1> DEFINE S == Older(Client, cursor, n)
           found == Without(page.records, Owned(Client) \ days)
<1>0. ExportLimit \in Nat \ {0} /\ ExportCap \in Nat \ {0}
  BY TransactionConstants
<1>1. /\ page.records \in Seq(S) /\ Falling(page.records)
      /\ \A t \in S : t \in ToSet(page.records) \/ \A s \in ToSet(page.records) : t < s
      /\ page.nextCursor = NoCursor => ToSet(page.records) = S
      /\ page.nextCursor # NoCursor =>
           page.nextCursor \in ToSet(page.records) /\ \A s \in ToSet(page.records) : s >= page.nextCursor
  BY <1>0, PageIs
<1>2. /\ found \in Seq(S) /\ Falling(found)
      /\ ToSet(found) = ToSet(page.records) \ (Owned(Client) \ days)
  BY <1>1, WithoutIs
<1>3. /\ \A t \in S : t \in Nat /\ t # NoCursor /\ (cursor # NoCursor => t < cursor)
      /\ \A t \in Owned(Client) : t \in Nat
  BY DEF Older, Owned, NoCursor
<1>4. ToSet(page.records) \subseteq S /\ ToSet(found) \subseteq S
  BY <1>1, <1>2, MembersOf
<1>5. page.nextCursor \in Nat
  BY <1>1, <1>3, <1>4 DEF NoCursor
<1> HIDE DEF found
<1>6. rows \in Seq(Int) /\ Falling(rows) /\ ToSet(rows) \subseteq Int
  BY DEF Gathered, ToSet
<1>7. \A s \in ToSet(rows) : cursor # NoCursor /\ s >= cursor
  BY DEF Gathered, ToSet
<1>8. \A s \in ToSet(rows), t \in S : s > t
  BY <1>3, <1>6, <1>7
<1>9. found \in Seq(Int)
  <2>1. \A t \in S : t \in Int
    BY <1>3
  <2> QED
    BY <2>1, <1>2, ListOfNumbers
<1>10. all \in Seq(Int) /\ Falling(all) /\ ToSet(all) = ToSet(rows) \cup ToSet(found)
  <2>1. \A i \in DOMAIN rows, k \in DOMAIN found : rows[i] > found[k]
    BY <1>4, <1>8 DEF ToSet
  <2>2. all = rows \o found
    BY DEF found
  <2>3. Falling(rows \o found) /\ ToSet(rows \o found) = ToSet(rows) \cup ToSet(found)
    BY <2>1, <1>2, <1>6, <1>9, FallsBehind
  <2>4. rows \o found \in Seq(Int)
    BY <1>6, <1>9
  <2> QED
    BY <2>2, <2>3, <2>4
\* What is wanted and not there is older than all that is.
<1>11. ASSUME NEW t \in Owned(Client) \cap days \cap 1 .. began, t \notin ToSet(all)
       PROVE  t \in S /\ t \notin ToSet(page.records) /\ \A s \in ToSet(page.records) \cup ToSet(rows) : t < s
  <2>1. t \in Owned(Client) /\ t \in days /\ t \in Nat /\ t <= n /\ t \in 1 .. began
    BY <1>3
  <2>2. cursor # NoCursor => t < cursor
    BY <1>10, <1>11 DEF Gathered
  <2>3. t \in S
    BY <2>1, <2>2 DEF Older
  <2>4. t \notin ToSet(page.records)
    BY <1>2, <1>10, <1>11, <2>1
  <2>5. \A s \in ToSet(page.records) : t < s
    BY <1>1, <2>3, <2>4
  <2>6. \A s \in ToSet(rows) : t < s
    BY <1>6, <1>8, <2>1, <2>3
  <2> QED
    BY <2>3, <2>4, <2>5, <2>6
<1>12. ASSUME page.nextCursor # NoCursor  PROVE Gathered(all, days, began, page.nextCursor)
  <2>1. page.nextCursor \in ToSet(page.records) /\ page.nextCursor \in S
    BY <1>1, <1>4, <1>12
  <2>2. ASSUME NEW s \in ToSet(all)  PROVE s >= page.nextCursor
    <3>1. CASE s \in ToSet(rows)
      BY <3>1, <2>1, <1>6, <1>8, <1>5
    <3>2. CASE s \in ToSet(found)
      BY <3>2, <1>1, <1>2, <1>12
    <3> QED
      BY <3>1, <3>2, <1>10
  <2>3. \A t \in Owned(Client) \cap days \cap 1 .. began : t \in ToSet(all) \/ t < page.nextCursor
    BY <2>1, <1>11
  <2> QED
    BY <2>2, <2>3, <1>10, <1>12 DEF Gathered
<1>13. ASSUME page.nextCursor = NoCursor \/ Len(all) >= ExportCap
       PROVE  Complete([rows |-> all, days |-> days, began |-> began])
  <2>1. ASSUME NEW t \in Owned(Client) \cap days \cap 1 .. began
        PROVE  t \in ToSet(all) \/ (Len(all) >= ExportCap /\ t < Last(all))
    <3>1. CASE page.nextCursor = NoCursor
      BY <3>1, <1>1, <1>11
    <3>2. CASE t \notin ToSet(all) /\ Len(all) >= ExportCap
      <4>1. Last(all) = all[Len(all)] /\ Len(all) \in DOMAIN all
        BY <3>2, <1>0, <1>10 DEF Last
      <4>2. Last(all) \in ToSet(page.records) \cup ToSet(rows)
        BY <4>1, <1>2, <1>10 DEF ToSet
      <4> QED
        BY <4>2, <3>2, <1>11
    <3> QED
      BY <3>1, <3>2, <1>13
  <2>2. \A k, l \in DOMAIN all : k < l => all[k] > all[l]
    BY <1>10 DEF Falling
  <2> QED
    BY <2>1, <2>2 DEF Complete
<1>14. Len(all) \in Nat
  BY <1>10
<1> QED
  BY <1>5, <1>12, <1>13, <1>14

LEMMA ExportAsks ==
  ASSUME NEW id, NEW who, NEW cursor, NEW for, NEW a, a = PageAsk(id, "export", who, cursor, for)
  PROVE  /\ a.arg.who = who /\ a.arg.cursor = cursor /\ a.arg.since = store.newest /\ a.arg.for = for
BY DEF PageAsk, Ask

LEMMA ExportKept ==
  ASSUME ExportInv, ExportUser \/ LedgerGrows \/ \E a \in asks : ExportPage(a)  PROVE ExportInv'
<1>1. CASE exportWindow
  <2>1. CASE Sets([ui EXCEPT !.open = ~@])
    BY <2>1 DEF Sets, ExportInv
  <2>2. ASSUME NEW days, Sets([ui EXCEPT !.days = days])  PROVE ExportInv'
    BY <2>2 DEF Sets, ExportInv
  <2> QED
    BY <1>1, <2>1, <2>2 DEF exportWindow
<1>2. CASE handleExport
  <2>1. CASE Sets([ui EXCEPT !.open = FALSE])
    BY <2>1 DEF Sets, ExportInv
  <2>2. CASE Goes([ui EXCEPT !.running = TRUE, !.rows = <<>>, !.file = <<>>],
                  {PageAsk(1, "export", wallet, NoCursor, [days |-> ui.days, began |-> store.newest])})
    <3>1. PICK a : a = PageAsk(1, "export", wallet, NoCursor, [days |-> ui.days, began |-> store.newest])
      OBVIOUS
    <3>2. /\ ui' = [ui EXCEPT !.running = TRUE, !.rows = <<>>, !.file = <<>>] /\ asks' = {a}
          /\ UNCHANGED <<store, wallet>>
      BY <2>2, <3>1 DEF Goes
    <3>3. /\ a.arg.who = Client /\ a.arg.cursor = NoCursor /\ a.arg.since = store.newest
          /\ a.arg.for = [days |-> ui.days, began |-> store.newest]
      BY <3>1, ExportAsks DEF ExportInv
    <3>4. Gathered(<<>>, ui.days, store.newest, NoCursor)
      BY DEF Gathered, Falling
    <3>5. ui'.rows = <<>> /\ ui'.file = <<>> /\ (ExportInv!1)'
      BY <3>2 DEF ExportInv
    <3> QED
      BY <3>2, <3>3, <3>4, <3>5 DEF ExportInv, NoCursor
  <2> QED
    BY <1>2, <2>1, <2>2 DEF handleExport
<1>3. CASE LedgerGrows
  <2>1. store' = [store EXCEPT !.newest = @ + 1] /\ UNCHANGED <<ui, wallet, asks>>
    BY <1>3 DEF LedgerGrows, TransactionLands, Keeps
  <2> QED
    BY <2>1 DEF ExportInv
<1>4. ASSUME NEW a \in asks, ExportPage(a)  PROVE ExportInv'
  <2>1. CASE Goes([ui EXCEPT !.running = FALSE, !.open = FALSE, !.rows = <<>>], {})
    BY <2>1 DEF Goes, ExportInv
  <2>2. ASSUME NEW page \in PagesOf(a, ExportLimit), NEW rows,
               rows = ui.rows \o Without(page.records, Owned(a.arg.who) \ a.arg.for.days),
               IF page.nextCursor # NoCursor /\ Len(rows) < ExportCap
               THEN Goes([ui EXCEPT !.rows = rows],
                         {PageAsk(1, "export", a.arg.who, page.nextCursor, a.arg.for)})
               ELSE Goes([ui EXCEPT !.running = FALSE, !.open = FALSE, !.rows = <<>>,
                                    !.file = <<[rows |-> rows, days |-> a.arg.for.days,
                                                began |-> a.arg.for.began]>>], {})
        PROVE  ExportInv'
    <3> DEFINE days == a.arg.for.days
               began == a.arg.for.began
    <3>1. /\ a.arg.who = Client /\ a.arg.cursor \in Nat /\ a.arg.since \in Nat /\ began \in Nat
          /\ began <= a.arg.since /\ Gathered(ui.rows, days, began, a.arg.cursor) /\ store.newest \in Nat
      BY DEF ExportInv
    <3>2. PICK n \in a.arg.since .. store.newest :
            page = fetchWalletTransactions(Client, a.arg.cursor, ExportLimit, n)
      BY <3>1 DEF PagesOf
    <3>3. n \in Nat /\ began <= n /\ began <= store.newest
      BY <3>1, <3>2
    <3>4. /\ page.nextCursor \in Nat /\ Len(rows) \in Nat
          /\ page.nextCursor # NoCursor => Gathered(rows, days, began, page.nextCursor)
          /\ page.nextCursor = NoCursor \/ Len(rows) >= ExportCap =>
               Complete([rows |-> rows, days |-> days, began |-> began])
      BY <3>1, <3>2, <3>3, <2>2, PageGathered
    <3>5. CASE page.nextCursor # NoCursor /\ Len(rows) < ExportCap
      <4>1. PICK b : b = PageAsk(1, "export", a.arg.who, page.nextCursor, a.arg.for)
        OBVIOUS
      <4>2. ui' = [ui EXCEPT !.rows = rows] /\ asks' = {b} /\ UNCHANGED <<store, wallet>>
        BY <4>1, <3>5, <2>2 DEF Goes
      <4>3. /\ b.arg.who = Client /\ b.arg.cursor = page.nextCursor /\ b.arg.since = store.newest
            /\ b.arg.for = a.arg.for
        BY <4>1, <3>1, ExportAsks
      <4>4. ui'.rows = rows /\ ui'.file = ui.file /\ (ExportInv!1)'
        BY <4>2 DEF ExportInv
      <4> QED
        BY <4>2, <4>3, <4>4, <3>1, <3>3, <3>4, <3>5 DEF ExportInv
    <3>6. CASE ~(page.nextCursor # NoCursor /\ Len(rows) < ExportCap)
      <4>1. PICK file : file = [rows |-> rows, days |-> days, began |-> began]
        OBVIOUS
      <4>2. /\ ui' = [ui EXCEPT !.running = FALSE, !.open = FALSE, !.rows = <<>>, !.file = <<file>>]
            /\ asks' = {} /\ UNCHANGED <<store, wallet>>
        BY <4>1, <3>6, <2>2 DEF Goes
      <4>3. Complete(file)
        <5>1. ExportCap \in Nat
          BY TransactionConstants
        <5> QED
          BY <5>1, <4>1, <3>4, <3>6
      <4>4. \A i \in DOMAIN <<file>> : <<file>>[i] = file
        OBVIOUS
      <4>5. ui'.file = <<file>> /\ (ExportInv!1)'
        BY <4>2 DEF ExportInv
      <4>6. \A i \in DOMAIN ui'.file : Complete(ui'.file[i])
        BY <4>3, <4>4, <4>5
      <4> QED
        BY <4>2, <4>5, <4>6 DEF ExportInv
    <3> QED
      BY <3>5, <3>6
  <2> QED
    BY <1>4, <2>1, <2>2 DEF ExportPage
<1> QED
  BY <1>1, <1>2, <1>3, <1>4 DEF ExportUser

LEMMA ExportBegin == ASSUME ExportInit  PROVE ExportInv
<1>1. PICK n \in 0 .. MaxTokens : store = [newest |-> n]
  BY DEF ExportInit
<1> QED
  BY <1>1, TransactionConstants DEF ExportInit, ExportInv

\* The file of an export is in order and lacks nothing of the chosen days,
\* whatever lands on the ledger while its pages are read and wherever they
\* begin and end (components/TransactionCSVExport.tsx).
THEOREM ExportsAreComplete == ClientSpec => []ExportComplete
<1> DEFINE Inv == On("export") => ExportInv
<1>1. ClientInit => Inv
  BY PagesBegin, ExportBegin
<1>2. Inv /\ [ClientNext]_clientVars => Inv'
  <2> SUFFICES ASSUME Inv, [ClientNext]_clientVars, focus' = "export"  PROVE ExportInv'
    BY DEF On
  <2>1. CASE ClientNext
    BY <2>1, PagesApart, ExportKept DEF On
  <2>2. CASE UNCHANGED clientVars
    BY <2>2 DEF On, clientVars, pageVars, ExportInv
  <2> QED
    BY <2>1, <2>2
<1>3. Inv => ExportComplete
  BY DEF ExportComplete, ExportInv, Complete
<1> QED
  BY <1>1, <1>2, <1>3, PTL DEF ClientSpec

-----------------------------------------------------------------------------
\* The layer below the pages behaves in the client as it does alone.
LEMMA LayerApart == ClientSpec => RpcSpec
<1>1. ClientInit => RpcInit
  BY DEF ClientInit, CallsIdle
<1>2. [ClientNext]_clientVars => [RpcNext]_rpcVars
  BY DEF ClientNext, clientVars
<1> QED
  BY <1>1, <1>2, PTL DEF ClientSpec, RpcSpec

\* So whatever is proved of calls, retries and the queue of failed writes
\* (stellar.ts, contract-retry.ts) holds in the client as it is run.
THEOREM CallsAreSafe ==
  ClientSpec => []ReportsAreComplete /\ []SuccessWasApplied /\ LostOnlyBySharedId
BY LayerApart, RetriesAreSafe, SuccessIsReal, WritesAreRemembered

-----------------------------------------------------------------------------
(***************************************************************************)
(* One call at a time.  Each page keeps a chain of requests apart from the *)
(* others, and something it sets when the chain begins and resets when it  *)
(* ends: that at most one chain is under way is inductive with it.         *)
(***************************************************************************)

\* A step of a page that calls the contract is one of that page.
LEMMA WritingPagesApart ==
  ASSUME ClientNext
  PROVE  /\ On("job") => JobPageUser \/ Elsewhere({ThisJob})
              \/ \E a \in asks : JobPageAnswer(a) \/ JobPageStep(a)
         /\ On("feed") => FeedNext
         /\ On("bulk") => BulkUser \/ \E a \in asks : BulkAnswer(a) \/ BulkPageStep(a)
              \/ DashboardStep(a)
         /\ On("post") => PostNext
         /\ On("admin") => AdminUser \/ \E a \in asks : AdminAnswer(a) \/ AdminStep(a)
BY DEF On, ClientNext, Visits, HappensTo, Meanwhile, WidgetMoves,
  JobPageUser, DashboardUser, BulkUser, ProfileUser, AdminUser, DisputesUser, WalletUser,
    TransactionsUser, ExportUser,
  JobPageAnswer, JobPageStep, DashboardAnswer, DashboardStep, BulkAnswer, BulkPageStep,
    ProfileAnswer, ProfileStep,
  AdminAnswer, AdminStep, DisputesAnswer, DisputesStep, WalletStep, TransactionsStep, ExportPage,
    OnProfile, LedgerGrows,
  SubscriptionNext, DescriptionNext, ViewsNext, SimilarNext, ConfirmNext, SavedNext,
  FeedNext, FiltersNext, SearchNext, PrefsNext, SwipeNext, PullNext, DescriptionsNext,
  BatchNext, OrderNext, WidgetsNext, RecentNext, PostNext, FeeNext, EditorNext,
  BuilderNext, CelebrationNext, MessagesNext, TypingNext, MeetingsNext, NoticesNext,
  FlagsNext, BannerNext, NetworkNext

LEMMA WritingPagesBegin ==
  ASSUME ClientInit
  PROVE  /\ On("job") => JobPageInit /\ asks = {}
         /\ On("feed") => FeedInit /\ asks = {}
         /\ On("bulk") => BulkInit /\ asks = {}
         /\ On("post") => PostInit /\ asks = {}
         /\ On("admin") => AdminInit /\ Reading("getNativeToken", Client)
BY DEF On, ClientInit, JobPagesInit, WidgetsInitially, Starts,
  JobPageInit, DashboardInit, BulkInit, SavedInit, FeedInit, ProfileInit, AdminInit, DisputesInit,
    TransactionsInit,
  SubscriptionInit, DescriptionInit, ViewsInit, SimilarInit, ConfirmInit, FiltersInit, SearchInit,
    PrefsInit, SwipeInit,
  PullInit, DescriptionsInit, BatchInit, OrderInit, WidgetsInit, RecentInit, PostInit, FeeInit,
    EditorInit,
  MessagesInit, TypingInit, MeetingsInit, NoticesInit, NetworkInit, BuilderInit, CelebrationInit,
    FlagsInit, BannerInit,
  WalletInit, ExportInit

-----------------------------------------------------------------------------
\* At most one.
Single(S) == \A a, b \in S : a = b

LEMMA SingleCounts == ASSUME NEW S, NEW T, S \subseteq T, Single(T)  PROVE Cardinality(S) <= 1
<1>1. CASE S = {}
  BY <1>1, FS_EmptySet
<1>2. CASE S # {}
  <2>1. PICK a : a \in S
    BY <1>2
  <2>2. S = {a}
    BY <2>1 DEF Single
  <2>3. Cardinality({a}) = 1
    BY FS_Singleton
  <2> QED
    BY <2>2, <2>3
<1> QED
  BY <1>1, <1>2

\* A request goes on as another one, or makes place for none.
LEMMA SingleGoesOn ==
  ASSUME NEW S, NEW T, NEW a \in S, NEW x, Single(S), T \subseteq (S \ {a}) \cup {x}
  PROVE  Single(T)
BY DEF Single

LEMMA SingleEnds ==
  ASSUME NEW S, NEW a \in S, Single(S)  PROVE S \ {a} = {}
BY DEF Single

-----------------------------------------------------------------------------
(***************************************************************************)
(* The page of a job: every request made on behalf of an action carries    *)
(* it, through what comes before the call to the reload after it, and the  *)
(* page is busy for as long.                                               *)
(***************************************************************************)
JobChain == {a \in asks : a.arg # NoAction}

JobShape(u) ==
  /\ u = [shown |-> u.shown, fetching |-> u.fetching, busy |-> u.busy, last |-> u.last,
          dialog |-> u.dialog, form |-> u.form]
  /\ u.busy \in BOOLEAN

JobPageInv ==
  /\ JobShape(ui)
  /\ \A a \in asks : IsAsk(a) /\ (a.op \notin {"load", "describe"} => a.arg # NoAction)
  /\ Single(JobChain)
  /\ JobChain # {} => ui.busy

LEMMA AfterwardsEnds ==
  ASSUME NEW u, JobShape(u), NEW op, NEW v, v = Afterwards(u, op)
  PROVE  JobShape(v)
BY DEF JobShape, Afterwards

\* Any step that asks nothing and leaves the busy flag.
LEMMA JobQuiet ==
  ASSUME JobPageInv, JobShape(ui'), ui'.busy = ui.busy, asks' = asks  PROVE JobPageInv'
BY DEF JobPageInv, JobChain

LEMMA JobHandles ==
  ASSUME JobPageInv, ~ui.busy, NEW op, NEW action, action # NoAction, NEW id,
         JobShape(ui'), ui'.busy = TRUE, asks' = asks \cup {Ask(id, op, action)}
  PROVE  JobPageInv'
<1>1. JobChain = {}
  BY DEF JobPageInv
<1>2. \A a \in asks' : IsAsk(a) /\ (a.op \notin {"load", "describe"} => a.arg # NoAction)
  BY NewAsk DEF JobPageInv
<1>3. JobChain' \subseteq {Ask(id, op, action)}
  BY <1>1 DEF JobChain
<1>4. Single(JobChain')
  BY <1>3 DEF Single
<1> QED
  BY <1>2, <1>4 DEF JobPageInv

LEMMA JobGoesOn ==
  ASSUME JobPageInv, NEW a \in asks, JobShape(ui'), NEW b, IsAsk(b), b.arg = a.arg,
         b.op \notin {"load", "describe"} => b.arg # NoAction,
         asks' = (asks \ {a}) \cup {b}, ui'.busy = ui.busy
  PROVE  JobPageInv'
<1>1. \A x \in asks' : IsAsk(x) /\ (x.op \notin {"load", "describe"} => x.arg # NoAction)
  BY DEF JobPageInv
<1>2. CASE a \in JobChain
  <2>1. JobChain' \subseteq (JobChain \ {a}) \cup {b}
    BY DEF JobChain
  <2>2. Single(JobChain')
    BY <1>2, <2>1, SingleGoesOn DEF JobPageInv
  <2> QED
    BY <1>1, <1>2, <2>2 DEF JobPageInv
<1>3. CASE a \notin JobChain
  <2>1. JobChain' \subseteq JobChain
    BY <1>3 DEF JobChain
  <2>2. Single(JobChain')
    BY <2>1 DEF JobPageInv, Single
  <2> QED
    BY <1>1, <2>1, <2>2 DEF JobPageInv
<1> QED
  BY <1>2, <1>3

\* The last request of a chain lets go of the page, others leave it alone.
LEMMA JobEnds ==
  ASSUME JobPageInv, NEW a \in asks, JobShape(ui'), asks' = asks \ {a},
         a.arg = NoAction => ui'.busy = ui.busy
  PROVE  JobPageInv'
<1>1. CASE a.arg = NoAction
  <2>1. JobChain' = JobChain
    BY <1>1 DEF JobChain
  <2> QED
    BY <1>1, <2>1 DEF JobPageInv
<1>2. CASE a.arg # NoAction
  <2>1. JobChain' = JobChain \ {a} /\ a \in JobChain
    BY <1>2 DEF JobChain
  <2>2. JobChain' = {}
    BY <2>1, SingleEnds DEF JobPageInv
  <2> QED
    BY <2>2 DEF JobPageInv, Single
<1> QED
  BY <1>1, <1>2

LEMMA JobHandled ==
  ASSUME JobPageInv, NEW u, JobShape(u), NEW action, action # NoAction, Handles(u, action)
  PROVE  JobPageInv'
<1>1. /\ ~ui.busy /\ ui' = [u EXCEPT !.busy = TRUE, !.last = action]
      /\ asks' = asks \cup {Ask(FreeId(asks), action.op, action)}
  BY DEF Handles, CanHandle, Asking
<1>2. JobShape(ui') /\ ui'.busy = TRUE
  BY <1>1 DEF JobShape
<1> QED
  BY <1>1, <1>2, JobHandles

LEMMA SomeAction == ASSUME NEW op, op # "none"  PROVE [op |-> op, as |-> wallet] # NoAction
BY DEF NoAction

LEMMA NoDialog ==
  ASSUME JobPageInv, NEW d, NEW v, v = [ui EXCEPT !.dialog = d]  PROVE JobShape(v) /\ v.busy = ui.busy
BY DEF JobPageInv, JobShape

LEMMA JobUserKept == ASSUME JobPageInv, JobPageUser  PROVE JobPageInv'
<1>1. CASE load
  <2>1. ui' = [ui EXCEPT !.fetching = TRUE] /\ asks' = asks \cup {Ask(FreeId(asks), "load", NoAction)}
    BY <1>1 DEF load, Asking
  <2>2. JobShape(ui') /\ ui'.busy = ui.busy
    BY <2>1 DEF JobPageInv, JobShape
  <2>3. JobChain' = JobChain
    BY <2>1, NewAsk DEF JobChain
  <2>4. \A a \in asks' : IsAsk(a) /\ (a.op \notin {"load", "describe"} => a.arg # NoAction)
    BY <2>1, NewAsk DEF JobPageInv
  <2> QED
    BY <2>2, <2>3, <2>4 DEF JobPageInv
<1>2. CASE onManualRetry
  BY <1>2, JobHandled DEF onManualRetry, JobPageInv
<1>3. ASSUME NEW d, Sets([ui EXCEPT !.dialog = d])  PROVE JobPageInv'
  BY <1>3, NoDialog, JobQuiet DEF Sets
<1>4. ASSUME NEW f, Sets([ui EXCEPT !.form = f])  PROVE JobPageInv'
  <2>1. JobShape(ui') /\ ui'.busy = ui.busy
    BY <1>4 DEF Sets, JobPageInv, JobShape
  <2> QED
    BY <1>4, <2>1, JobQuiet DEF Sets
<1>5. CASE requestTopUpConfirm
  <2>1. CASE Handles(ui, [op |-> "topUpEscrow", as |-> wallet])
    BY <2>1, SomeAction, JobHandled DEF JobPageInv
  <2> QED
    BY <1>3, <1>5, <2>1 DEF requestTopUpConfirm
<1>6. CASE onCancel
  BY <1>3, <1>6 DEF onCancel
<1>7. CASE JobForms
  BY <1>3, <1>4, <1>7 DEF JobForms
<1>8. ASSUME NEW op \in Confirmable, requestAction(op)  PROVE JobPageInv'
  <2>1. CASE Handles(ui, [op |-> op, as |-> wallet])
    BY <2>1, SomeAction, JobHandled DEF JobPageInv, Confirmable
  <2> QED
    BY <1>3, <1>8, <2>1 DEF requestAction
<1>9. ASSUME NEW op \in Confirmable, executeAction(op)  PROVE JobPageInv'
  <2>1. op # "none" /\ Handles([ui EXCEPT !.dialog = "none"], [op |-> op, as |-> wallet])
    BY <1>9 DEF executeAction
  <2> QED
    BY <2>1, SomeAction, NoDialog, JobHandled
<1>10. ASSUME NEW cover \in BOOLEAN, AcceptJob(cover)  PROVE JobPageInv'
  <2>1. CASE Handles([ui EXCEPT !.dialog = "none"], [op |-> "acceptJob", as |-> wallet])
    BY <2>1, SomeAction, NoDialog, JobHandled
  <2>2. CASE /\ ~ui.busy /\ ui' = [ui EXCEPT !.dialog = "none", !.busy = TRUE]
             /\ asks' = Asking("upload", [op |-> "acceptJob", as |-> wallet])
    <3>1. JobShape(ui') /\ ui'.busy = TRUE
      BY <2>2 DEF JobPageInv, JobShape
    <3>2. asks' = asks \cup {Ask(FreeId(asks), "upload", [op |-> "acceptJob", as |-> wallet])}
      BY <2>2 DEF Asking
    <3> QED
      BY <2>2, <3>1, <3>2, SomeAction, JobHandles
  <2> QED
    BY <1>3, <1>10, <2>1, <2>2 DEF AcceptJob
<1>11. ASSUME NEW who, JobWallet(who)  PROVE JobPageInv'
  <2>1. asks' = asks /\ (ui' = ui \/ ui' = [ui EXCEPT !.dialog = "none"])
    BY <1>11 DEF JobWallet, WalletChanges
  <2>2. JobShape(ui') /\ ui'.busy = ui.busy
    BY <2>1, NoDialog DEF JobPageInv
  <2> QED
    BY <2>1, <2>2, JobQuiet
<1> QED
  BY <1>1, <1>2, <1>5, <1>6, <1>7, <1>8, <1>9, <1>10, <1>11 DEF JobPageUser

LEMMA JobFetching ==
  ASSUME JobPageInv, NEW f, NEW v, v = [ui EXCEPT !.fetching = f]
    PROVE JobShape(v) /\ v.busy = ui.busy
BY DEF JobPageInv, JobShape

LEMMA JobAnswered ==
  ASSUME JobPageInv, NEW a \in asks, NEW answer, NEW seen, Says(a, answer, seen), ui' = ui
  PROVE  JobPageInv'
<1>1. PICK b : asks' = (asks \ {a}) \cup {b} /\ IsAsk(b) /\ b.op = a.op /\ b.arg = a.arg
  BY SaidAsk DEF JobPageInv
<1>2. b.op \notin {"load", "describe"} => b.arg # NoAction
  BY <1>1 DEF JobPageInv
<1>3. JobShape(ui') /\ ui'.busy = ui.busy
  BY DEF JobPageInv
<1> QED
  BY <1>1, <1>2, <1>3, JobGoesOn

LEMMA JobStepKept == ASSUME JobPageInv, NEW a \in asks, JobPageStep(a)  PROVE JobPageInv'
<1>0. a.op \notin {"load", "describe"} => a.arg # NoAction
  BY DEF JobPageInv
<1>1. ASSUME NEW op, asks' = Awaits(a, op, a.arg), JobShape(ui'), ui'.busy = ui.busy,
             op \notin {"load", "describe"} => a.arg # NoAction
      PROVE  JobPageInv'
  <2>1. asks' = (asks \ {a}) \cup {Ask(a.id, op, a.arg)}
    BY <1>1 DEF Awaits
  <2> QED
    BY <1>1, <2>1, NewAsk, JobGoesOn
<1>2. ASSUME NEW u, u = [ui EXCEPT !.fetching = FALSE],
             ui' = IF a.arg = NoAction THEN u ELSE Afterwards(u, a.arg.op), asks' = Settled(a)
      PROVE  JobPageInv'
  <2>1. JobShape(u) /\ u.busy = ui.busy
    BY <1>2, JobFetching
  <2>2. CASE a.arg = NoAction
    BY <1>2, <2>1, <2>2, JobEnds DEF Settled
  <2>3. CASE a.arg # NoAction
    <3>1. JobShape(ui')
      BY <1>2, <2>1, <2>3, AfterwardsEnds
    <3> QED
      BY <1>2, <2>3, <3>1, JobEnds DEF Settled
  <2> QED
    BY <2>2, <2>3
<1>3. CASE Loaded(a)
  <2>1. CASE ui' = [ui EXCEPT !.shown = a.seen[ThisJob]] /\ asks' = Awaits(a, "describe", a.arg)
    <3>1. JobShape(ui') /\ ui'.busy = ui.busy
      BY <2>1 DEF JobPageInv, JobShape
    <3> QED
      BY <2>1, <3>1, <1>1
  <2> QED
    BY <1>2, <1>3, <2>1 DEF Loaded
<1>4. CASE Described(a)
  BY <1>2, <1>4 DEF Described
<1>5. CASE Uploaded(a)
  <2>1. CASE a.op = "upload" /\ asks' = Awaits(a, "storeDescriptionCid", a.arg) /\ ui' = ui
    BY <1>0, <1>1, <2>1 DEF JobPageInv
  <2>2. CASE a.op = "upload" /\ asks' = Settled(a) /\ ui' = [ui EXCEPT !.busy = FALSE]
    <3>1. JobShape(ui')
      BY <2>2 DEF JobPageInv, JobShape
    <3> QED
      BY <1>0, <2>2, <3>1, JobEnds DEF Settled
  <2>3. CASE a.op = "storeDescriptionCid" /\ asks' = Awaits(a, "acceptJob", a.arg)
             /\ ui' = [ui EXCEPT !.last = a.arg]
    <3>1. JobShape(ui') /\ ui'.busy = ui.busy
      BY <2>3 DEF JobPageInv, JobShape
    <3> QED
      BY <1>0, <1>1, <2>3, <3>1
  <2> QED
    BY <1>5, <2>1, <2>2, <2>3 DEF Uploaded
<1>6. CASE Acted(a)
  <2>1. a.arg # NoAction
    BY <1>0, <1>6 DEF Acted, JobActions, Confirmable
  <2>2. CASE ui' = [ui EXCEPT !.fetching = TRUE] /\ asks' = Awaits(a, "load", a.arg)
    BY <1>1, <2>2, JobFetching
  <2>3. CASE ui' = ui /\ asks' = Awaits(a, "getNativeBalance", a.arg)
    BY <1>1, <2>1, <2>3 DEF JobPageInv
  <2> QED
    BY <1>6, <2>2, <2>3 DEF Acted
<1>7. CASE Complained(a)
  <2>1. a.arg # NoAction /\ ui' = Afterwards(ui, a.arg.op) /\ asks' = asks \ {a}
    BY <1>0, <1>7 DEF Complained, Settled
  <2>2. JobShape(ui')
    BY <2>1, AfterwardsEnds DEF JobPageInv
  <2> QED
    BY <2>1, <2>2, JobEnds
<1> QED
  BY <1>3, <1>4, <1>5, <1>6, <1>7 DEF JobPageStep

LEMMA JobKept ==
  ASSUME JobPageInv,
         JobPageUser \/ Elsewhere({ThisJob}) \/ \E a \in asks : JobPageAnswer(a) \/ JobPageStep(a)
  PROVE  JobPageInv'
<1>1. ASSUME NEW a \in asks, JobPageAnswer(a)  PROVE JobPageInv'
  <2>1. ui' = ui /\ \E answer, seen : Says(a, answer, seen)
    BY <1>1 DEF JobPageAnswer, AnswerRead, AnswerWrite, AnswerPlain
  <2> QED
    BY <2>1, JobAnswered
<1>2. CASE Elsewhere({ThisJob})
  BY <1>2, JobQuiet DEF Elsewhere, JobPageInv
<1> QED
  BY <1>1, <1>2, JobUserKept, JobStepKept

LEMMA OneJobAction == ClientSpec
  => [](On("job") => Cardinality({a \in asks : a.op \in JobActions}) <= 1)
<1> DEFINE Inv == On("job") => JobPageInv
<1>1. ClientInit => Inv
  <2>1. asks = {} /\ ui = JobPageUi => JobPageInv
    BY DEF JobPageUi, JobPageInv, JobShape, JobChain, Single
  <2> QED
    BY <2>1, WritingPagesBegin DEF JobPageInit
<1>2. Inv /\ [ClientNext]_clientVars => Inv'
  <2> SUFFICES ASSUME Inv, [ClientNext]_clientVars, focus' = "job"  PROVE JobPageInv'
    BY DEF On
  <2>1. CASE ClientNext
    BY <2>1, PagesApart, WritingPagesApart, JobKept DEF On
  <2>2. CASE UNCHANGED clientVars
    BY <2>2, JobQuiet DEF On, clientVars, pageVars, JobPageInv
  <2> QED
    BY <2>1, <2>2
<1>3. Inv => (On("job") => Cardinality({a \in asks : a.op \in JobActions}) <= 1)
  <2> SUFFICES ASSUME JobPageInv  PROVE Cardinality({a \in asks : a.op \in JobActions}) <= 1
    OBVIOUS
  <2>1. {a \in asks : a.op \in JobActions} \subseteq JobChain
    BY DEF JobPageInv, JobChain, JobActions, Confirmable
  <2> QED
    BY <2>1, SingleCounts DEF JobPageInv
<1> QED
  BY <1>1, <1>2, <1>3, PTL DEF ClientSpec

-----------------------------------------------------------------------------
(***************************************************************************)
(* The feed.  While a call or the refresh after it is under way, a job is  *)
(* marked as being acted on, or the dialog to cancel one waits for it.     *)
(***************************************************************************)
FeedChain ==
  {a \in asks : \/ a.op \in {"acceptJob", "cancelJob"}
                \/ a.op \in {"getJobCount", "getJobs"} /\ a.arg.act # 0}

FeedShape(u) ==
  /\ u = [list |-> u.list, page |-> u.page, fetching |-> u.fetching, acting |-> u.acting,
          target |-> u.target, cancelling |-> u.cancelling]
  /\ u.cancelling \in BOOLEAN

FeedMarks(u) ==
  /\ u.acting # 0 => u.target = 0
  /\ u.cancelling => u.target # 0

FeedInv ==
  /\ FeedShape(ui) /\ FeedMarks(ui)
  /\ \A a \in asks : IsAsk(a)
  /\ Single(FeedChain)
  /\ FeedChain # {} => ui.acting # 0 \/ ui.cancelling

\* What else the page does beside the call under way.
LEMMA FeedAside ==
  ASSUME FeedInv, FeedShape(ui'), FeedMarks(ui'), ui'.acting = ui.acting,
    ui'.cancelling = ui.cancelling,
         \A a \in asks' : IsAsk(a), FeedChain' \subseteq FeedChain
  PROVE  FeedInv'
BY DEF FeedInv, Single

LEMMA FeedCalls ==
  ASSUME FeedInv, FeedShape(ui'), FeedMarks(ui'), ui.acting = 0, ~ui.cancelling,
         ui'.acting # 0 \/ ui'.cancelling, NEW id, NEW op, NEW arg, asks' = asks
           \cup {Ask(id, op, arg)}
  PROVE  FeedInv'
<1>1. FeedChain = {}
  BY DEF FeedInv
<1>2. FeedChain' \subseteq {Ask(id, op, arg)}
  BY <1>1 DEF FeedChain
<1>3. \A a \in asks' : IsAsk(a)
  BY NewAsk DEF FeedInv
<1>4. Single(FeedChain')
  BY <1>2 DEF Single
<1> QED
  BY <1>3, <1>4 DEF FeedInv

\* Refreshes for the page itself.
FeedExtra(more) == \A c \in more : IsAsk(c) /\ c.op = "getJobCount" /\ c.arg.act = 0

\* A request takes the place of one of the same chain, or of one of none;
\* beside it only such refreshes are asked for.
LEMMA FeedGoesOn ==
  ASSUME FeedInv, FeedShape(ui'), FeedMarks(ui'), ui'.acting = ui.acting,
    ui'.cancelling = ui.cancelling,
         NEW a \in asks, NEW b, NEW more, IsAsk(b),
         a \in FeedChain \/ (b.op \notin {"acceptJob", "cancelJob"} /\ b.arg.act = 0),
         FeedExtra(more),
         asks' = ((asks \ {a}) \cup {b}) \cup more
  PROVE  FeedInv'
<1>1. \A c \in asks' : IsAsk(c)
  BY DEF FeedInv, FeedExtra
<1>2. CASE a \in FeedChain
  <2>1. FeedChain' \subseteq (FeedChain \ {a}) \cup {b}
    BY DEF FeedChain, FeedExtra
  <2>2. Single(FeedChain')
    BY <1>2, <2>1, SingleGoesOn DEF FeedInv
  <2> QED
    BY <1>1, <1>2, <2>2 DEF FeedInv
<1>3. CASE a \notin FeedChain
  <2>1. FeedChain' \subseteq FeedChain
    BY <1>3 DEF FeedChain, FeedExtra
  <2> QED
    BY <1>1, <2>1, FeedAside
<1> QED
  BY <1>2, <1>3

\* A refresh is over, with it the call it belongs to.
LEMMA RefreshedMarks ==
  ASSUME NEW u, FeedShape(u), FeedMarks(u), NEW act, NEW v, v = Refreshed(u, act)
  PROVE  /\ FeedShape(v) /\ FeedMarks(v)
         /\ act = 0 => v.acting = u.acting /\ v.cancelling = u.cancelling
<1>1. v.cancelling = (u.cancelling /\ act = 0)
  BY DEF FeedShape, Refreshed
<1>2. v.acting = IF act # 0 /\ act = u.acting THEN 0 ELSE u.acting
  BY DEF FeedShape, Refreshed
<1>3. v.target = IF act # 0 /\ u.cancelling THEN 0 ELSE u.target
  BY DEF FeedShape, Refreshed
<1>4. v = [list |-> v.list, page |-> v.page, fetching |-> v.fetching, acting |-> v.acting,
           target |-> v.target, cancelling |-> v.cancelling]
  BY DEF FeedShape, Refreshed
<1>5. v.cancelling \in BOOLEAN
  BY <1>1, Zenon
<1>6. CASE act = 0
  BY <1>1, <1>2, <1>3, <1>4, <1>5, <1>6 DEF FeedShape, FeedMarks
<1>7. CASE act # 0
  <2>1. ~v.cancelling
    BY <1>1, <1>7, Zenon
  <2> QED
    BY <1>2, <1>3, <1>4, <1>5, <1>7, <2>1 DEF FeedShape, FeedMarks
<1> QED
  BY <1>6, <1>7

LEMMA FeedEnds ==
  ASSUME FeedInv, NEW a \in asks, NEW u, FeedShape(u), FeedMarks(u), u.acting = ui.acting,
         u.cancelling = ui.cancelling, NEW act, ui' = Refreshed(u, act), act # 0 => a \in FeedChain,
         NEW more, FeedExtra(more),
         asks' = (asks \ {a}) \cup more
  PROVE  FeedInv'
<1>1. FeedShape(ui') /\ FeedMarks(ui')
        /\ (act = 0 => ui'.acting = ui.acting /\ ui'.cancelling = ui.cancelling)
  BY RefreshedMarks
<1>2. \A c \in asks' : IsAsk(c)
  BY DEF FeedInv, FeedExtra
<1>3. FeedChain' \subseteq FeedChain \ {a}
  BY DEF FeedChain, FeedExtra
<1>4. CASE act = 0
  BY <1>1, <1>2, <1>3, <1>4, FeedAside
<1>5. CASE act # 0
  <2>1. FeedChain' = {}
    BY <1>3, <1>5, SingleEnds DEF FeedInv
  <2> QED
    BY <1>1, <1>2, <2>1 DEF FeedInv, Single
<1> QED
  BY <1>4, <1>5

\* A refresh for the page itself belongs to no call.
LEMMA NewRefresh ==
  ASSUME NEW id, NEW page, NEW c, c = Ask(id, "getJobCount", [page |-> page, act |-> 0])
  PROVE  IsAsk(c) /\ c.op = "getJobCount" /\ c.arg.act = 0
BY NewAsk

LEMMA FeedRefreshes ==
  ASSUME FeedInv, NEW u, FeedShape(u), FeedMarks(u), u.acting = ui.acting,
    u.cancelling = ui.cancelling,
         NEW page, refresh(u, [page |-> page, act |-> 0], asks)
  PROVE  FeedInv'
<1>1. PICK c : c = Ask(FreeId(asks), "getJobCount", [page |-> page, act |-> 0])
  OBVIOUS
<1>2. asks' = asks \cup {c} /\ ui' = [u EXCEPT !.fetching = TRUE]
  BY <1>1 DEF refresh, Goes
<1>3. FeedShape(ui') /\ FeedMarks(ui') /\ ui'.acting = ui.acting /\ ui'.cancelling = ui.cancelling
  BY <1>2 DEF FeedShape, FeedMarks
<1>4. IsAsk(c) /\ c.op = "getJobCount" /\ c.arg.act = 0
  BY <1>1, NewRefresh
<1>5. FeedChain' \subseteq FeedChain /\ \A b \in asks' : IsAsk(b)
  BY <1>2, <1>4 DEF FeedChain, FeedInv
<1> QED
  BY <1>3, <1>5, FeedAside

LEMMA FeedAnswered ==
  ASSUME FeedInv, NEW a \in asks, NEW answer, NEW seen, Says(a, answer, seen), ui' = ui
  PROVE  FeedInv'
<1>1. PICK b : asks' = (asks \ {a}) \cup {b} /\ IsAsk(b) /\ b.op = a.op /\ b.arg = a.arg
  BY SaidAsk DEF FeedInv
<1>2. \A c \in asks' : IsAsk(c)
  BY <1>1 DEF FeedInv
<1>3. CASE a \in FeedChain
  <2>1. FeedChain' \subseteq (FeedChain \ {a}) \cup {b}
    BY <1>1 DEF FeedChain
  <2>2. Single(FeedChain')
    BY <1>3, <2>1, SingleGoesOn DEF FeedInv
  <2> QED
    BY <1>2, <1>3, <2>2 DEF FeedInv
<1>4. CASE a \notin FeedChain
  <2>1. FeedChain' \subseteq FeedChain
    BY <1>1, <1>4 DEF FeedChain
  <2> QED
    BY <1>2, <2>1, FeedAside DEF FeedInv
<1> QED
  BY <1>3, <1>4

LEMMA FeedStops ==
  ASSUME FeedInv, NEW a \in asks, NEW u, FeedShape(u), FeedMarks(u), u.acting = ui.acting,
         u.cancelling = ui.cancelling, NEW act, ui' = Refreshed(u, act), act # 0 => a \in FeedChain,
         asks' = asks \ {a}
  PROVE  FeedInv'
<1>1. PICK none : none = {}
  OBVIOUS
<1>2. asks' = (asks \ {a}) \cup none /\ FeedExtra(none)
  BY <1>1 DEF FeedExtra
<1> QED
  BY <1>2, FeedEnds

LEMMA FeedCountedKept == ASSUME FeedInv, NEW a \in asks, FeedCounted(a)  PROVE FeedInv'
<1> DEFINE safePage == Fewer(a.arg.page, PagesFor(Count))
           p == IF safePage # a.arg.page THEN safePage ELSE ui.page
           u == [ui EXCEPT !.page = IF safePage # a.arg.page THEN safePage ELSE @]
           again(as) == IF safePage # a.arg.page
                        THEN as \cup {Ask(FreeId(as), "getJobCount",
                                          [page |-> safePage, act |-> 0])} ELSE as
<1>0. a.arg.act # 0 => a \in FeedChain
  BY DEF FeedCounted, FeedChain
<1>1. \A v : v = [ui EXCEPT !.page = p] => FeedShape(v) /\ FeedMarks(v) /\ v.acting = ui.acting
             /\ v.cancelling = ui.cancelling
  BY DEF FeedInv, FeedShape, FeedMarks
<1>2. ASSUME NEW as  PROVE \E more : /\ again(as) = as \cup more
                                     /\ FeedExtra(more)
  <2>1. CASE safePage = a.arg.page
    <3>1. PICK none : none = {}
      OBVIOUS
    <3>2. again(as) = as \cup none /\ FeedExtra(none)
      BY <2>1, <3>1 DEF FeedExtra
    <3> QED
      BY <3>2
  <2>2. CASE safePage # a.arg.page
    <3>1. PICK c : c = Ask(FreeId(as), "getJobCount", [page |-> safePage, act |-> 0])
      OBVIOUS
    <3>2. again(as) = as \cup {c}
      BY <2>2, <3>1
    <3>3. FeedExtra({c})
      BY <3>1, NewRefresh DEF FeedExtra
    <3> QED
      BY <3>2, <3>3
  <2> QED
    BY <2>1, <2>2
<1>3. CASE Failed(a) /\ Goes(Refreshed(ui, a.arg.act), Settled(a))
  <2>1. ui' = Refreshed(ui, a.arg.act) /\ asks' = asks \ {a}
    BY <1>3 DEF Goes, Settled
  <2> QED
    BY <1>0, <2>1, FeedStops DEF FeedInv
<1>4. CASE Goes(Refreshed([u EXCEPT !.list = store.cache.list], a.arg.act), again(Settled(a)))
  <2>1. PICK v : v = [u EXCEPT !.list = store.cache.list]
    OBVIOUS
  <2>2. FeedShape(v) /\ FeedMarks(v) /\ v.acting = ui.acting /\ v.cancelling = ui.cancelling
    BY <2>1 DEF FeedInv, FeedShape, FeedMarks
  <2>3. PICK more : /\ again(Settled(a)) = Settled(a) \cup more
                    /\ FeedExtra(more)
    BY <1>2
  <2>4. ui' = Refreshed(v, a.arg.act) /\ asks' = (asks \ {a}) \cup more
    BY <1>4, <2>1, <2>3 DEF Goes, Settled
  <2> QED
    BY <1>0, <2>2, <2>3, <2>4, FeedEnds
<1>5. CASE Goes(u, again(Awaits(a, "getJobs", a.arg)))
  <2>1. PICK b : b = Ask(a.id, "getJobs", a.arg)
    OBVIOUS
  <2>2. IsAsk(b) /\ b.op = "getJobs" /\ b.arg = a.arg
    BY <2>1, NewAsk
  <2>3. PICK more : /\ again(Awaits(a, "getJobs", a.arg)) = Awaits(a, "getJobs", a.arg) \cup more
                    /\ FeedExtra(more)
    BY <1>2
  <2>4. ui' = u /\ asks' = ((asks \ {a}) \cup {b}) \cup more
    BY <1>5, <2>1, <2>3 DEF Goes, Awaits
  <2>5. FeedShape(ui') /\ FeedMarks(ui') /\ ui'.acting = ui.acting /\ ui'.cancelling = ui.cancelling
    BY <2>4 DEF FeedInv, FeedShape, FeedMarks
  <2>6. a \in FeedChain \/ (b.op \notin {"acceptJob", "cancelJob"} /\ b.arg.act = 0)
    BY <1>0, <2>2
  <2> QED
    BY <2>2, <2>3, <2>4, <2>5, <2>6, FeedGoesOn
<1> QED
  BY <1>3, <1>4, <1>5 DEF FeedCounted

LEMMA FeedFetchedKept == ASSUME FeedInv, NEW a \in asks, FeedFetched(a)  PROVE FeedInv'
<1>1. PICK list : ui' = Refreshed([ui EXCEPT !.list = list], a.arg.act)
  BY DEF FeedFetched
<1>2. PICK v : v = [ui EXCEPT !.list = list]
  OBVIOUS
<1>3. FeedShape(v) /\ FeedMarks(v) /\ v.acting = ui.acting /\ v.cancelling = ui.cancelling
  BY <1>2 DEF FeedInv, FeedShape, FeedMarks
<1>4. ui' = Refreshed(v, a.arg.act) /\ asks' = asks \ {a}
  BY <1>1, <1>2 DEF FeedFetched, Settled
<1>5. a.arg.act # 0 => a \in FeedChain
  BY DEF FeedFetched, FeedChain
<1> QED
  BY <1>3, <1>4, <1>5, FeedStops

LEMMA FeedActedKept == ASSUME FeedInv, NEW a \in asks, FeedActed(a)  PROVE FeedInv'
<1>0. a \in FeedChain
  BY DEF FeedActed, FeedChain
<1>1. CASE Failed(a) /\ Goes(Refreshed(ui, a.arg.job), Settled(a))
  <2>1. ui' = Refreshed(ui, a.arg.job) /\ asks' = asks \ {a}
    BY <1>1 DEF Goes, Settled
  <2> QED
    BY <1>0, <2>1, FeedStops DEF FeedInv
<1>2. CASE ~Failed(a)
  <2>1. PICK b : b = Ask(a.id, "getJobCount", [page |-> ui.page, act |-> a.arg.job])
    OBVIOUS
  <2>2. IsAsk(b)
    BY <2>1, NewAsk
  <2>3. ui' = [ui EXCEPT !.fetching = TRUE]
    BY <1>2 DEF FeedActed, Goes
  <2>4. FeedShape(ui') /\ FeedMarks(ui') /\ ui'.acting = ui.acting /\ ui'.cancelling = ui.cancelling
    BY <2>3 DEF FeedInv, FeedShape, FeedMarks
  <2>5. CASE asks' = Awaits(a, "getJobCount", [page |-> ui.page, act |-> a.arg.job])
    <3>1. PICK none : none = {}
      OBVIOUS
    <3>2. asks' = ((asks \ {a}) \cup {b}) \cup none /\ FeedExtra(none)
      BY <2>1, <2>5, <3>1 DEF Awaits, FeedExtra
    <3> QED
      BY <1>0, <2>2, <2>4, <3>2, FeedGoesOn
  <2>6. CASE asks' = Awaits(a, "getJobCount", [page |-> ui.page, act |-> a.arg.job])
                      \cup {Ask(FreeId(asks), "getJobCount", [page |-> ui.page, act |-> 0])}
    <3>1. PICK c : c = Ask(FreeId(asks), "getJobCount", [page |-> ui.page, act |-> 0])
      OBVIOUS
    <3>2. FeedExtra({c})
      BY <3>1, NewRefresh DEF FeedExtra
    <3>3. asks' = ((asks \ {a}) \cup {b}) \cup {c}
      BY <2>1, <2>6, <3>1 DEF Awaits
    <3> QED
      BY <1>0, <2>2, <2>4, <3>2, <3>3, FeedGoesOn
  <2> QED
    BY <1>2, <2>5, <2>6 DEF FeedActed, Goes
<1> QED
  BY <1>1, <1>2 DEF FeedActed

LEMMA FeedKept == ASSUME FeedInv, FeedNext  PROVE FeedInv'
<1>1. CASE FeedMounted \/ FeedRefreshed
  BY <1>1, FeedRefreshes DEF FeedMounted, FeedRefreshed, FeedInv
<1>2. ASSUME NEW p, FeedPaged(p)  PROVE FeedInv'
  <2>1. PICK u : u = [ui EXCEPT !.page = p]
    OBVIOUS
  <2>2. FeedShape(u) /\ FeedMarks(u) /\ u.acting = ui.acting /\ u.cancelling = ui.cancelling
    BY <2>1 DEF FeedInv, FeedShape, FeedMarks
  <2>3. refresh(u, [page |-> p, act |-> 0], asks)
    BY <1>2, <2>1 DEF FeedPaged
  <2> QED
    BY <2>2, <2>3, FeedRefreshes
<1>3. CASE FeedCacheExpires
  BY <1>3 DEF FeedCacheExpires, Keeps, FeedInv, FeedChain
<1>4. CASE CancelClosed
  <2>1. asks' = asks /\ ui' = [ui EXCEPT !.target = 0] /\ ~ui.cancelling
    BY <1>4 DEF CancelClosed, Sets
  <2>2. FeedShape(ui') /\ FeedMarks(ui') /\ ui'.acting = ui.acting /\ ui'.cancelling = ui.cancelling
    BY <2>1 DEF FeedInv, FeedShape, FeedMarks
  <2> QED
    BY <2>1, <2>2, FeedAside DEF FeedInv, FeedChain
<1>5. CASE handleConfirmCancelJob
  <2>1. /\ ui.target # 0 /\ ~ui.cancelling /\ ui' = [ui EXCEPT !.cancelling = TRUE]
        /\ asks' = asks \cup {Ask(FreeId(asks), "cancelJob", [job |-> ui.target, as |-> wallet])}
    BY <1>5 DEF handleConfirmCancelJob, Goes, Asking
  <2>2. FeedShape(ui') /\ FeedMarks(ui') /\ ui'.cancelling /\ ui.acting = 0
    BY <2>1 DEF FeedInv, FeedShape, FeedMarks
  <2> QED
    BY <2>1, <2>2, FeedCalls
<1>6. ASSUME NEW j \in JobIds, handleAcceptJob(j)  PROVE FeedInv'
  <2>0. j # 0
    BY BrowserConstants
  <2>1. /\ ui.target = 0 /\ ui.acting = 0 /\ ui' = [ui EXCEPT !.acting = j]
        /\ asks' = asks \cup {Ask(FreeId(asks), "acceptJob", [job |-> j, as |-> wallet])}
    BY <1>6 DEF handleAcceptJob, MayAct, Goes, Asking
  <2>2. FeedShape(ui') /\ FeedMarks(ui') /\ ui'.acting # 0 /\ ~ui.cancelling
    BY <2>0, <2>1 DEF FeedInv, FeedShape, FeedMarks
  <2> QED
    BY <2>1, <2>2, FeedCalls
<1>7. ASSUME NEW j \in JobIds, CancelAsked(j)  PROVE FeedInv'
  <2>1. asks' = asks /\ ui' = [ui EXCEPT !.target = j] /\ ~ui.cancelling /\ ui.acting = 0
    BY <1>7 DEF CancelAsked, Sets
  <2>2. FeedShape(ui') /\ FeedMarks(ui') /\ ui'.acting = ui.acting /\ ui'.cancelling = ui.cancelling
    BY <2>1 DEF FeedInv, FeedShape, FeedMarks
  <2> QED
    BY <2>1, <2>2, FeedAside DEF FeedInv, FeedChain
<1>8. ASSUME NEW a \in asks, AnswerPlain(a) \/ AnswerRead(a)
        \/ AnswerWrite(a, a.op, a.arg.as, a.arg.job)
      PROVE  FeedInv'
  <2>1. ui' = ui /\ \E answer, seen : Says(a, answer, seen)
    BY <1>8 DEF AnswerRead, AnswerWrite, AnswerPlain
  <2> QED
    BY <2>1, FeedAnswered
<1>9. ASSUME NEW who, WalletChanges(who, ui)  PROVE FeedInv'
  BY <1>9 DEF WalletChanges, FeedInv, FeedChain
<1> QED
  BY <1>1, <1>2, <1>3, <1>4, <1>5, <1>6, <1>7, <1>8, <1>9, FeedCountedKept, FeedFetchedKept, FeedActedKept
  DEF FeedNext

LEMMA OneFeedAction ==
  ClientSpec => [](On("feed") => Cardinality({a \in asks : a.op \in {"acceptJob", "cancelJob"}}) <= 1)
<1> DEFINE Inv == On("feed") => FeedInv
<1>1. ClientInit => Inv
  <2>1. ASSUME NEW page, asks = {}, ui = FeedUi(page)  PROVE FeedInv
    BY <2>1 DEF FeedUi, FeedInv, FeedShape, FeedMarks, FeedChain, Single
  <2> QED
    BY <2>1, WritingPagesBegin DEF FeedInit
<1>2. Inv /\ [ClientNext]_clientVars => Inv'
  <2> SUFFICES ASSUME Inv, [ClientNext]_clientVars, focus' = "feed"  PROVE FeedInv'
    BY DEF On
  <2>1. CASE ClientNext
    BY <2>1, PagesApart, WritingPagesApart, FeedKept DEF On
  <2>2. CASE UNCHANGED clientVars
    BY <2>2, FeedAside DEF On, clientVars, pageVars, FeedInv, FeedChain
  <2> QED
    BY <2>1, <2>2
<1>3. Inv => (On("feed") => Cardinality({a \in asks : a.op \in {"acceptJob", "cancelJob"}}) <= 1)
  <2> SUFFICES ASSUME FeedInv
               PROVE  Cardinality({a \in asks : a.op \in {"acceptJob", "cancelJob"}}) <= 1
    OBVIOUS
  <2>1. {a \in asks : a.op \in {"acceptJob", "cancelJob"}} \subseteq FeedChain
    BY DEF FeedChain
  <2> QED
    BY <2>1, SingleCounts DEF FeedInv
<1> QED
  BY <1>1, <1>2, <1>3, PTL DEF ClientSpec

-----------------------------------------------------------------------------
(***************************************************************************)
(* Cancelling several jobs: one call at a time.  While a run is under way  *)
(* its total is not 0, which keeps its button disabled, and its dialog     *)
(* closed.                                                                 *)
(***************************************************************************)
BulkShape(u) ==
  /\ u = [list |-> u.list, fetching |-> u.fetching, acting |-> u.acting, selected |-> u.selected,
          chosen |-> u.chosen, modal |-> u.modal, batching |-> u.batching, cancelJob |-> u.cancelJob,
          extendDeadline |-> u.extendDeadline]
  /\ u.selected \subseteq JobIds

BulkRequest(a) ==
  /\ IsAsk(a) /\ a.arg = [as |-> a.arg.as, act |-> a.arg.act]
  /\ a.op \in {"fetchJobs", "aborted", "counts"} => a.arg.act = NoAct

BulkRequests(reqs) == \A a \in reqs : BulkRequest(a)
BulkChain(reqs)    == {a \in reqs : a.op = "cancelJob"}
BulkRuns(u)      == u.cancelJob.total # 0 /\ u.modal # "cancelJob"

BulkInv ==
  /\ BulkShape(ui) /\ BulkRequests(asks)
  /\ Single(BulkChain(asks))
  /\ BulkChain(asks) # {} => BulkRuns(ui)

LEMMA NewBulkRequest ==
  ASSUME NEW id, NEW op, NEW who, NEW act, op \in {"fetchJobs", "aborted", "counts"} => act = NoAct,
         NEW b, b = Ask(id, op, [as |-> who, act |-> act])
  PROVE  BulkRequest(b) /\ b.op = op
BY NewAsk DEF BulkRequest

\* Fetches are aborted, calls are not.
LEMMA AbortingKeeps ==
  ASSUME NEW reqs, BulkRequests(reqs)
  PROVE  BulkRequests(Aborting(reqs)) /\ BulkChain(Aborting(reqs)) \subseteq BulkChain(reqs)
<1>1. ASSUME NEW a \in reqs, NEW b, b = [a EXCEPT !.op = IF @ = "fetchJobs" THEN "aborted" ELSE @]
      PROVE  BulkRequest(b) /\ (b.op = "cancelJob" => b = a)
  <2>1. BulkRequest(a)
    BY DEF BulkRequests
  <2>2. /\ b.id = a.id /\ b.arg = a.arg /\ b.answer = a.answer /\ b.seen = a.seen
        /\ b.op = IF a.op = "fetchJobs" THEN "aborted" ELSE a.op
        /\ b = [id |-> b.id, op |-> b.op, arg |-> b.arg, answer |-> b.answer, seen |-> b.seen]
    BY <1>1, <2>1 DEF BulkRequest, IsAsk
  <2>3. BulkRequest(b)
    BY <2>1, <2>2 DEF BulkRequest, IsAsk
  <2>4. b.op = "cancelJob" => b = a
    BY <2>1, <2>2 DEF BulkRequest, IsAsk
  <2> QED
    BY <2>3, <2>4
<1>2. \A b \in Aborting(reqs) : \E a \in reqs : b =
        [a EXCEPT !.op = IF @ = "fetchJobs" THEN "aborted" ELSE @]
  BY DEF Aborting
<1> QED
  BY <1>1, <1>2 DEF BulkRequests, BulkChain

LEMMA RefreshesKeep ==
  ASSUME NEW reqs, BulkRequests(reqs), NEW who
  PROVE  BulkRequests(Refreshes(reqs, who))
    /\ BulkChain(Refreshes(reqs, who)) \subseteq BulkChain(reqs)
<1> DEFINE b == Ask(FreeId(reqs), "fetchJobs", [as |-> who, act |-> NoAct])
<1>2. BulkRequest(b) /\ b.op = "fetchJobs"
  BY NewBulkRequest
<1>3. Refreshes(reqs, who) \in {reqs, Aborting(reqs) \cup {b}}
  BY DEF Refreshes
<1>4. BulkRequests(Aborting(reqs)) /\ BulkChain(Aborting(reqs)) \subseteq BulkChain(reqs)
  BY AbortingKeeps
<1> QED
  BY <1>2, <1>3, <1>4 DEF BulkRequests, BulkChain

LEMMA FetchesNextKeeps ==
  ASSUME BulkRequests(asks), NEW a \in asks, NEW arg, arg = [as |-> a.arg.as, act |-> NoAct]
  PROVE  /\ BulkRequests(FetchesNext(a, arg))
         /\ BulkChain(FetchesNext(a, arg)) \subseteq BulkChain(asks) \ {a}
<1>0. PICK who : who = a.arg.as
  OBVIOUS
<1>1. PICK b : b = Ask(a.id, "fetchJobs", arg)
  OBVIOUS
<1>2. BulkRequest(b) /\ b.op = "fetchJobs"
  <2>1. b = Ask(a.id, "fetchJobs", [as |-> who, act |-> NoAct])
    BY <1>0, <1>1
  <2> QED
    BY <2>1, NewBulkRequest
<1>3. PICK reqs : reqs = asks \ {a}
  OBVIOUS
<1>4. BulkRequests(reqs)
  BY <1>3 DEF BulkRequests
<1>5. BulkRequests(Aborting(reqs)) /\ BulkChain(Aborting(reqs)) \subseteq BulkChain(reqs)
  BY <1>4, AbortingKeeps
<1>6. FetchesNext(a, arg) = Aborting(reqs) \cup {b}
  BY <1>1, <1>3 DEF FetchesNext
<1> QED
  BY <1>2, <1>3, <1>5, <1>6 DEF BulkRequests, BulkChain

\* What the page does beside a run.
LEMMA BulkAside ==
  ASSUME BulkInv, BulkShape(ui'), BulkRequests(asks'), BulkChain(asks') \subseteq BulkChain(asks),
         BulkRuns(ui) => BulkRuns(ui')
  PROVE  BulkInv'
<1>1. Single(BulkChain(asks'))
  BY DEF BulkInv, Single
<1> QED
  BY <1>1 DEF BulkInv

LEMMA BulkSets ==
  ASSUME BulkInv, NEW u, Sets(u), BulkShape(u), BulkRuns(ui) => BulkRuns(u)  PROVE BulkInv'
BY BulkAside DEF Sets, BulkInv

LEMMA BulkFetches == ASSUME BulkInv, fetchJobs \/ \E who \in {NoOne, Client} : DashboardWallet(who)
                     PROVE  BulkInv'
<1>1. PICK who : asks' = Refreshes(asks, who)
  BY DEF fetchJobs, DashboardWallet, Goes
<1>2. BulkRequests(asks') /\ BulkChain(asks') \subseteq BulkChain(asks)
  BY <1>1, RefreshesKeep DEF BulkInv
<1>3. \E f \in BOOLEAN : ui' = [ui EXCEPT !.list = Nothing, !.fetching = f] \/ ui' =
        [ui EXCEPT !.fetching = f]
  BY DEF fetchJobs, DashboardWallet, Goes
<1>4. BulkShape(ui') /\ (BulkRuns(ui) => BulkRuns(ui'))
  BY <1>3 DEF BulkInv, BulkShape, BulkRuns
<1> QED
  BY <1>2, <1>4, BulkAside

LEMMA BulkChooses == ASSUME BulkInv, handleSelectAllOpen \/ \E j \in JobIds : handleToggleSelect(j)
                     PROVE  BulkInv'
<1>1. \E s \in SUBSET JobIds : Sets([ui EXCEPT !.selected = s]) \/ \E c :
        Sets([ui EXCEPT !.chosen = c])
  <2>1. openClientJobs \subseteq JobIds /\ ui.selected \subseteq JobIds
    BY DEF openClientJobs, postedJobs, BulkInv, BulkShape
  <2>2. CASE handleSelectAllOpen
    BY <2>1, <2>2 DEF handleSelectAllOpen
  <2>3. ASSUME NEW j \in JobIds, handleToggleSelect(j)
        PROVE \E s \in SUBSET JobIds : Sets([ui EXCEPT !.selected = s]) \/ \E c :
          Sets([ui EXCEPT !.chosen = c])
    <3>1. CASE Sets([ui EXCEPT !.selected = IF j \in @ THEN @ \ {j} ELSE @ \cup {j}])
      <4>1. PICK s : s = IF j \in ui.selected THEN ui.selected \ {j} ELSE ui.selected \cup {j}
        OBVIOUS
      <4>2. s \in SUBSET JobIds /\ Sets([ui EXCEPT !.selected = s])
        BY <2>1, <3>1, <4>1
      <4> QED
        BY <4>2
    <3>2. CASE Sets([ui EXCEPT !.chosen = IF j \in @ THEN @ \ {j} ELSE @ \cup {j}])
      <4>1. PICK c : c = IF j \in ui.chosen THEN ui.chosen \ {j} ELSE ui.chosen \cup {j}
        OBVIOUS
      <4>2. {} \in SUBSET JobIds /\ Sets([ui EXCEPT !.chosen = c])
        BY <3>2, <4>1
      <4> QED
        BY <4>2
    <3> QED
      BY <2>3, <3>1, <3>2 DEF handleToggleSelect
  <2> QED
    BY <2>2, <2>3
<1>2. PICK u : Sets(u) /\ \E s \in SUBSET JobIds : u = [ui EXCEPT !.selected = s] \/ \E c : u =
        [ui EXCEPT !.chosen = c]
  BY <1>1
<1>3. BulkShape(u) /\ (BulkRuns(ui) => BulkRuns(u))
  BY <1>2 DEF BulkInv, BulkShape, BulkRuns
<1> QED
  BY <1>2, <1>3, BulkSets

LEMMA BulkOpens == ASSUME BulkInv, NEW op \in BulkOps, OpenBulk(op)  PROVE BulkInv'
<1>1. PICK u : u = [ui EXCEPT !.modal = op]
  OBVIOUS
<1>2. Sets(u) /\ BulkShape(u)
  BY <1>1 DEF OpenBulk, BulkInv, BulkShape
<1>3. ui.cancelJob # NoRun => op = "extendDeadline"
  BY DEF OpenBulk, CanOpenBulk, BulkOps
<1>4. ui.cancelJob.total # 0 => ui.cancelJob # NoRun
  BY DEF NoRun
<1>5. BulkRuns(ui) => BulkRuns(u)
  BY <1>1, <1>3, <1>4 DEF BulkRuns, BulkInv, BulkShape
<1> QED
  BY <1>2, <1>5, BulkSets

LEMMA BulkBegins == ASSUME BulkInv, NEW op \in BulkOps, handleBulk(op)  PROVE BulkInv'
<1>1. PICK ids : ids = SetToSortSeq(ui.selected, <)
  OBVIOUS
<1>2. PICK run : run = [left |-> ids, done |-> 0, total |-> Cardinality(ui.selected), failed |-> 0]
  OBVIOUS
<1>3. run.total # 0
  BY <1>2, FS_Subset, FS_EmptySet, BrowserConstants DEF handleBulk, BulkInv, BulkShape
<1>4. PICK b : b = Ask(FreeId(asks), op, By(Act(op, Head(ids), FALSE)))
  OBVIOUS
<1>5. BulkRequest(b) /\ b.op = op
  BY <1>4, NewBulkRequest DEF By, BulkOps
<1>6. ui.modal = op /\ ui' = [ui EXCEPT !.modal = "none", ![op] = run] /\ asks' = asks \cup {b}
  BY <1>1, <1>2, <1>4 DEF handleBulk, Goes, BulkAsks
<1>7. BulkRequests(asks')
  BY <1>5, <1>6 DEF BulkInv, BulkRequests
<1>8. CASE op = "cancelJob"
  <2>1. ui' = [ui EXCEPT !.modal = "none", !.cancelJob = run]
    BY <1>6, <1>8
  <2>2. BulkShape(ui') /\ BulkRuns(ui')
    BY <1>3, <2>1 DEF BulkInv, BulkShape, BulkRuns
  <2>3. BulkChain(asks) = {}
    BY <1>6, <1>8 DEF BulkInv, BulkRuns
  <2>4. BulkChain(asks') \subseteq {b}
    BY <1>6, <2>3 DEF BulkChain
  <2> QED
    BY <1>7, <2>2, <2>4 DEF BulkInv, Single
<1>9. CASE op = "extendDeadline"
  <2>1. ui' = [ui EXCEPT !.modal = "none", !.extendDeadline = run]
    BY <1>6, <1>9
  <2>2. BulkShape(ui') /\ (BulkRuns(ui) => BulkRuns(ui'))
    BY <2>1 DEF BulkInv, BulkShape, BulkRuns
  <2>3. BulkChain(asks') \subseteq BulkChain(asks)
    BY <1>5, <1>6, <1>9 DEF BulkChain
  <2> QED
    BY <1>7, <2>2, <2>3, BulkAside
<1> QED
  BY <1>8, <1>9 DEF BulkOps

LEMMA BulkUserKept == ASSUME BulkInv, BulkUser  PROVE BulkInv'
<1>1. CASE CloseBulk
  <2>1. PICK u : u = [ui EXCEPT !.modal = "none"]
    OBVIOUS
  <2>2. Sets(u) /\ BulkShape(u) /\ (BulkRuns(ui) => BulkRuns(u))
    BY <1>1, <2>1 DEF CloseBulk, BulkInv, BulkShape, BulkRuns
  <2> QED
    BY <2>2, BulkSets
<1>2. CASE handleBatchApprove
  <2>1. PICK b : b = Ask(FreeId(asks), "batchApproveJobs", By(NoAct))
    OBVIOUS
  <2>2. BulkRequest(b) /\ b.op = "batchApproveJobs"
    BY <2>1, NewBulkRequest DEF By
  <2>3. ui' = [ui EXCEPT !.batching = TRUE] /\ asks' = asks \cup {b}
    BY <1>2, <2>1 DEF handleBatchApprove, Goes
  <2>4. BulkShape(ui') /\ (BulkRuns(ui) => BulkRuns(ui'))
    BY <2>3 DEF BulkInv, BulkShape, BulkRuns
  <2>5. BulkRequests(asks') /\ BulkChain(asks') \subseteq BulkChain(asks)
    BY <2>2, <2>3 DEF BulkInv, BulkRequests, BulkChain
  <2> QED
    BY <2>4, <2>5, BulkAside
<1> QED
  BY <1>1, <1>2, BulkFetches, BulkChooses, BulkOpens, BulkBegins DEF BulkUser

LEMMA BulkAnswered == ASSUME BulkInv, NEW a \in asks, BulkAnswer(a)  PROVE BulkInv'
<1>0. BulkRequest(a)
  BY DEF BulkInv, BulkRequests
<1>1. ui' = ui /\ \E answer, seen : Says(a, answer, seen)
  BY DEF BulkAnswer, AnswerRead, AnswerWrite
<1>2. PICK b : asks' = (asks \ {a}) \cup {b} /\ IsAsk(b) /\ b.op = a.op /\ b.arg = a.arg
  BY <1>0, <1>1, SaidAsk DEF BulkRequest
<1>3. BulkRequests(asks')
  BY <1>0, <1>2 DEF BulkInv, BulkRequests, BulkRequest
<1>4. CASE a \in BulkChain(asks)
  <2>1. BulkChain(asks') \subseteq (BulkChain(asks) \ {a}) \cup {b}
    BY <1>2 DEF BulkChain
  <2>2. Single(BulkChain(asks'))
    BY <1>4, <2>1, SingleGoesOn DEF BulkInv
  <2> QED
    BY <1>1, <1>3, <1>4, <2>2 DEF BulkInv
<1>5. CASE a \notin BulkChain(asks)
  <2>1. BulkChain(asks') \subseteq BulkChain(asks)
    BY <1>2, <1>5 DEF BulkChain
  <2> QED
    BY <1>1, <1>3, <2>1, BulkAside DEF BulkInv
<1> QED
  BY <1>4, <1>5

\* A request of the page ends, or is followed by the two counts.
LEMMA BulkPageStepKept == ASSUME BulkInv, NEW a \in asks, JobsFetched(a) \/ Counted(a)
  \/ BatchApproved(a)
                          PROVE  BulkInv'
<1>0. BulkRequest(a) /\ a.op # "cancelJob"
  BY DEF BulkInv, BulkRequests, JobsFetched, Counted, BatchApproved
<1>1. a.op # "batchApproveJobs" => a.arg = [as |-> a.arg.as, act |-> NoAct]
  BY <1>0 DEF BulkRequest, JobsFetched, Counted, BatchApproved
<1>2. PICK b : b = Ask(a.id, "counts", a.arg)
  OBVIOUS
<1>3. a.op # "batchApproveJobs" => BulkRequest(b) /\ b.op = "counts"
  <2> SUFFICES ASSUME a.op # "batchApproveJobs"  PROVE BulkRequest(b) /\ b.op = "counts"
    OBVIOUS
  <2>1. b = Ask(a.id, "counts", [as |-> a.arg.as, act |-> NoAct])
    BY <1>1, <1>2
  <2> QED
    BY <2>1, NewBulkRequest
<1>4. \/ asks' = asks \ {a}
      \/ a.op # "batchApproveJobs" /\ asks' = (asks \ {a}) \cup {b}
  BY <1>2 DEF JobsFetched, Counted, BatchApproved, Goes, Settled, Awaits
<1>5. BulkRequests(asks') /\ BulkChain(asks') \subseteq BulkChain(asks)
  BY <1>3, <1>4 DEF BulkInv, BulkRequests, BulkChain
<1>6. \/ \E l : ui' = [ui EXCEPT !.list = l]
      \/ ui' = [ui EXCEPT !.fetching = FALSE] \/ ui' = [ui EXCEPT !.batching = FALSE]
  <2>1. CASE BatchApproved(a)
    BY <2>1 DEF BatchApproved, Goes
  <2>2. CASE JobsFetched(a) \/ Counted(a)
    <3>1. a.arg.act = NoAct
      BY <1>1, <2>2 DEF JobsFetched, Counted
    <3> QED
      BY <2>2, <3>1 DEF JobsFetched, Counted, Goes, ActionOver
  <2> QED
    BY <2>1, <2>2
<1>7. BulkShape(ui') /\ (BulkRuns(ui) => BulkRuns(ui'))
  BY <1>6 DEF BulkInv, BulkShape, BulkRuns
<1> QED
  BY <1>5, <1>7, BulkAside

LEMMA BulkStepKept == ASSUME BulkInv, NEW a \in asks, BulkStep(a)  PROVE BulkInv'
<1> DEFINE run  == [left |-> Tail(ui[a.op].left), done |-> ui[a.op].done + 1,
                    total |-> ui[a.op].total,
                    failed |-> ui[a.op].failed + IF Failed(a) THEN 1 ELSE 0]
           last == run.left = <<>>
           told == ~Failed(a) /\ a.op = "cancelJob"
<1>0. BulkRequest(a)
  BY DEF BulkInv, BulkRequests
<1>1. PICK next : /\ asks' = (IF told THEN Refreshes(next, wallet) ELSE next)
                  /\ next = IF last THEN FetchesNext(a, [a.arg EXCEPT !.act = NoAct])
                            ELSE Awaits(a, a.op, [a.arg EXCEPT !.act = Act(a.op, Head(run.left),
                                                                           FALSE)])
  BY DEF BulkStep, Goes
<1>2. PICK r, s, f : /\ ui' = [ui EXCEPT ![a.op] = r, !.selected = s, !.fetching = f]
                     /\ r = IF last THEN NoRun ELSE run
                     /\ s = IF last THEN {} ELSE ui.selected
  BY DEF BulkStep, Goes
<1>3. run.total = ui[a.op].total
  OBVIOUS
<1> HIDE DEF run
<1>4. BulkShape(ui')
  <2>1. CASE a.op = "cancelJob"
    BY <1>2, <2>1 DEF BulkInv, BulkShape
  <2>2. CASE a.op = "extendDeadline"
    BY <1>2, <2>2 DEF BulkInv, BulkShape
  <2> QED
    BY <2>1, <2>2 DEF BulkStep, BulkOps
<1>5. /\ BulkRequests(next)
      /\ \/ last /\ BulkChain(next) \subseteq BulkChain(asks) \ {a}
         \/ /\ ~last
            /\ \E b : BulkChain(next) \subseteq (BulkChain(asks) \ {a}) \cup {b}
                      /\ (a.op = "extendDeadline" => BulkChain(next) \subseteq BulkChain(asks))
  <2>1. CASE last
    <3>1. PICK arg : arg = [a.arg EXCEPT !.act = NoAct]
      OBVIOUS
    <3>2. arg = [as |-> a.arg.as, act |-> NoAct]
      BY <1>0, <3>1 DEF BulkRequest
    <3>3. next = FetchesNext(a, arg)
      BY <1>1, <2>1, <3>1
    <3> QED
      BY <2>1, <3>2, <3>3, FetchesNextKeeps DEF BulkInv
  <2>2. CASE ~last
    <3>1. PICK act : act = Act(a.op, Head(run.left), FALSE)
      OBVIOUS
    <3>2. PICK b : b = Ask(a.id, a.op, [a.arg EXCEPT !.act = act])
      OBVIOUS
    <3>3. b = Ask(a.id, a.op, [as |-> a.arg.as, act |-> act])
      BY <1>0, <3>2 DEF BulkRequest
    <3>4. BulkRequest(b) /\ b.op = a.op
      <4>1. PICK who, op : who = a.arg.as /\ op = a.op
        OBVIOUS
      <4>2. b = Ask(a.id, op, [as |-> who, act |-> act])
              /\ op \notin {"fetchJobs", "aborted", "counts"}
        BY <3>3, <4>1 DEF BulkStep, BulkOps
      <4> QED
        BY <4>1, <4>2, NewBulkRequest
    <3>5. next = (asks \ {a}) \cup {b}
      BY <1>1, <2>2, <3>1, <3>2 DEF Awaits
    <3> QED
      BY <2>2, <3>4, <3>5 DEF BulkInv, BulkRequests, BulkChain
  <2> QED
    BY <2>1, <2>2
<1>6. BulkRequests(asks') /\ BulkChain(asks') \subseteq BulkChain(next)
  BY <1>1, <1>5, RefreshesKeep
<1>7. CASE a.op = "extendDeadline"
  <2>1. BulkRuns(ui) => BulkRuns(ui')
    BY <1>2, <1>7 DEF BulkInv, BulkShape, BulkRuns
  <2> QED
    BY <1>4, <1>5, <1>6, <1>7, <2>1, BulkAside
<1>8. CASE a.op = "cancelJob"
  <2>0. a \in BulkChain(asks)
    BY <1>8 DEF BulkChain
  <2>1. CASE last
    <3>1. BulkChain(asks') = {}
      BY <1>5, <1>6, <2>0, <2>1, SingleEnds DEF BulkInv
    <3> QED
      BY <1>4, <1>6, <3>1 DEF BulkInv, Single
  <2>2. CASE ~last
    <3>1. PICK b : BulkChain(next) \subseteq (BulkChain(asks) \ {a}) \cup {b}
      BY <1>5, <2>2
    <3>2. BulkChain(asks') \subseteq (BulkChain(asks) \ {a}) \cup {b}
      BY <1>6, <3>1
    <3>3. Single(BulkChain(asks'))
      BY <2>0, <3>2, SingleGoesOn DEF BulkInv
    <3>4. ui' = [ui EXCEPT !.cancelJob = run, !.selected = s, !.fetching = f]
      BY <1>2, <1>8, <2>2
    <3>5. BulkRuns(ui')
      BY <1>3, <1>8, <2>0, <3>4 DEF BulkInv, BulkShape, BulkRuns
    <3> QED
      BY <1>4, <1>6, <3>3, <3>5 DEF BulkInv
  <2> QED
    BY <2>1, <2>2
<1> QED
  BY <1>7, <1>8 DEF BulkStep, BulkOps

LEMMA OneBulkCancellation ==
  ClientSpec => [](On("bulk") => Cardinality({a \in asks : a.op \in {"cancelJob"}}) <= 1)
<1> DEFINE Inv == On("bulk") => BulkInv
<1>1. ClientInit => Inv
  <2>1. asks = {} /\ ui = BulkUi => BulkInv
    BY DEF BulkUi, BulkInv, BulkShape, BulkRequests, BulkChain, Single
  <2> QED
    BY <2>1, WritingPagesBegin DEF BulkInit
<1>2. Inv /\ [ClientNext]_clientVars => Inv'
  <2> SUFFICES ASSUME Inv, [ClientNext]_clientVars, focus' = "bulk"  PROVE BulkInv'
    BY DEF On
  <2>1. CASE ClientNext
    <3>1. BulkInv /\ focus = "bulk"
      BY <2>1, PagesApart DEF On
    <3>2. ASSUME NEW a \in asks, DashboardStep(a)  PROVE JobsFetched(a) \/ Counted(a)
      BY <3>1, <3>2 DEF DashboardStep, ActionDone
    <3> QED
      BY <2>1, <3>1, <3>2, WritingPagesApart, BulkUserKept, BulkAnswered, BulkPageStepKept,
         BulkStepKept
      DEF On, BulkPageStep
  <2>2. CASE UNCHANGED clientVars
    BY <2>2, BulkAside DEF On, clientVars, pageVars, BulkInv
  <2> QED
    BY <2>1, <2>2
<1>3. Inv => (On("bulk") => Cardinality({a \in asks : a.op \in {"cancelJob"}}) <= 1)
  <2> SUFFICES ASSUME BulkInv  PROVE Cardinality({a \in asks : a.op \in {"cancelJob"}}) <= 1
    OBVIOUS
  <2>1. {a \in asks : a.op \in {"cancelJob"}} \subseteq BulkChain(asks)
    BY DEF BulkChain
  <2> QED
    BY <2>1, SingleCounts DEF BulkInv
<1> QED
  BY <1>1, <1>2, <1>3, PTL DEF ClientSpec

-----------------------------------------------------------------------------
(***************************************************************************)
(* Posting a job: while the description is uploaded, the job posted or the *)
(* balance read, the form is being submitted.                              *)
(***************************************************************************)
PostOps   == {"uploadToIpfs", "postJob", "getNativeBalance"}
PostChain == {a \in asks : a.op \in PostOps}

PostShape(u) ==
  u = [form |-> u.form, errors |-> u.errors, terms |-> u.terms, timer |-> u.timer, draft |-> u.draft,
       estimate |-> u.estimate, estimating |-> u.estimating, submitting |-> u.submitting,
         success |-> u.success]

PostInv ==
  /\ PostShape(ui)
  /\ \A a \in asks : IsAsk(a)
  /\ Single(PostChain)
  /\ PostChain # {} => ui.submitting

LEMMA PostAside ==
  ASSUME PostInv, PostShape(ui'), ui'.submitting = ui.submitting, \A a \in asks' : IsAsk(a),
         PostChain' \subseteq PostChain
  PROVE  PostInv'
BY DEF PostInv, Single

LEMMA PostQuiet ==
  ASSUME PostInv, PostShape(ui'), ui'.submitting = ui.submitting, asks' = asks  PROVE PostInv'
BY PostAside DEF PostInv, PostChain

\* A request goes on as another one, of the same chain if it was in the chain.
LEMMA PostGoesOn ==
  ASSUME PostInv, NEW a \in asks, NEW b, IsAsk(b), b.op \in PostOps => a.op \in PostOps,
         asks' = (asks \ {a}) \cup {b}, ui' = ui
  PROVE  PostInv'
<1>1. \A c \in asks' : IsAsk(c)
  BY DEF PostInv
<1>2. CASE a \in PostChain
  <2>1. PostChain' \subseteq (PostChain \ {a}) \cup {b}
    BY DEF PostChain
  <2>2. Single(PostChain')
    BY <1>2, <2>1, SingleGoesOn DEF PostInv
  <2> QED
    BY <1>1, <1>2, <2>2 DEF PostInv
<1>3. CASE a \notin PostChain
  <2>1. PostChain' \subseteq PostChain
    BY <1>3 DEF PostChain
  <2> QED
    BY <1>1, <2>1, PostAside DEF PostInv
<1> QED
  BY <1>2, <1>3

LEMMA PostEnds ==
  ASSUME PostInv, NEW a \in asks, a.op \in PostOps, PostShape(ui'), asks' = asks \ {a}  PROVE PostInv'
<1>1. PostChain' \subseteq PostChain \ {a} /\ a \in PostChain
  BY DEF PostChain
<1>2. PostChain' = {}
  BY <1>1, SingleEnds DEF PostInv
<1> QED
  BY <1>2 DEF PostInv, Single

LEMMA PostForm ==
  ASSUME PostInv, FormEdited \/ DraftTimer \/ handleClearDraft \/ NetworkSwitched \/ EstimateDropped
           \/ OtherTabPosts \/ HourPasses \/ Sets([ui EXCEPT !.terms = ~@])
           \/ \E who \in Wallets : PostWallet(who)
  PROVE  PostInv'
<1>0. asks' = asks
  BY DEF FormEdited, DraftTimer, handleClearDraft, NetworkSwitched, EstimateDropped, OtherTabPosts,
     HourPasses,
    Sets, Keeps, PostWallet, WalletChanges
<1>1. CASE FormEdited
  <2>1. PICK f, e, t : ui' = [ui EXCEPT !.form = f, !.errors = e, !.timer = t]
    BY <1>1 DEF FormEdited, Sets
  <2> QED
    BY <1>0, <2>1, PostQuiet DEF PostInv, PostShape
<1>2. CASE DraftTimer
  <2>1. ui' = [ui EXCEPT !.timer = FALSE, !.draft = TRUE]
    BY <1>2 DEF DraftTimer
  <2> QED
    BY <1>0, <2>1, PostQuiet DEF PostInv, PostShape
<1>8. CASE handleClearDraft
  <2>1. PICK f : ui' = [ui EXCEPT !.form = f, !.draft = FALSE, !.timer = FALSE, !.errors = {}]
    BY <1>8 DEF handleClearDraft
  <2> QED
    BY <1>0, <2>1, PostQuiet DEF PostInv, PostShape
<1>3. CASE NetworkSwitched
  <2>1. PICK f : ui' = [ui EXCEPT !.form = f]
    BY <1>3 DEF NetworkSwitched, Sets
  <2> QED
    BY <1>0, <2>1, PostQuiet DEF PostInv, PostShape
<1>4. CASE EstimateDropped
  <2>1. ui' = [ui EXCEPT !.estimate = "none"]
    BY <1>4 DEF EstimateDropped, Sets
  <2> QED
    BY <1>0, <2>1, PostQuiet DEF PostInv, PostShape
<1>5. CASE OtherTabPosts \/ HourPasses
  BY <1>0, <1>5, PostQuiet DEF OtherTabPosts, HourPasses, Keeps, PostInv
<1>6. CASE Sets([ui EXCEPT !.terms = ~@])
  <2>1. PICK t : ui' = [ui EXCEPT !.terms = t]
    BY <1>6 DEF Sets
  <2> QED
    BY <1>0, <2>1, PostQuiet DEF PostInv, PostShape
<1>7. ASSUME NEW who \in Wallets, PostWallet(who)  PROVE PostInv'
  <2>1. PICK f, d, t : \E u : /\ u = [ui EXCEPT !.form = f, !.draft = d, !.timer = t]
                              /\ ui' \in {u, [u EXCEPT !.estimate = "none", !.estimating = FALSE,
                                              !.success = FALSE]}
    BY <1>7 DEF PostWallet, WalletChanges
  <2> QED
    BY <1>0, <2>1, PostQuiet DEF PostInv, PostShape
<1> QED
  BY <1>1, <1>2, <1>3, <1>4, <1>5, <1>6, <1>7, <1>8

LEMMA PostSubmits == ASSUME PostInv, handleSubmit  PROVE PostInv'
<1>1. PICK u : u = [ui EXCEPT !.errors = FormErrors(ui.form), !.estimate = "none", !.success = FALSE]
  OBVIOUS
<1>2. PostShape(u) /\ u.submitting = ui.submitting
  BY <1>1 DEF PostInv, PostShape
<1>3. CASE Sets(u)
  BY <1>2, <1>3, PostQuiet DEF Sets
<1>4. CASE Goes([u EXCEPT !.estimating = TRUE], Asking("estimateTransactionFee", EstimateArgs))
  <2>1. PICK b : b = Ask(FreeId(asks), "estimateTransactionFee", EstimateArgs)
    OBVIOUS
  <2>2. IsAsk(b) /\ b.op \notin PostOps
    BY <2>1, NewAsk DEF PostOps
  <2>3. ui' = [u EXCEPT !.estimating = TRUE] /\ asks' = asks \cup {b}
    BY <1>4, <2>1 DEF Goes, Asking
  <2>4. PostShape(ui') /\ ui'.submitting = ui.submitting
    BY <1>2, <2>3 DEF PostShape
  <2>5. PostChain' \subseteq PostChain /\ \A a \in asks' : IsAsk(a)
    BY <2>2, <2>3 DEF PostChain, PostInv
  <2> QED
    BY <2>4, <2>5, PostAside
<1> QED
  BY <1>1, <1>3, <1>4 DEF handleSubmit

LEMMA PostConfirms == ASSUME PostInv, handleConfirmPost  PROVE PostInv'
<1>1. PICK u : u = [ui EXCEPT !.errors = FormErrors(ui.form), !.success = FALSE]
  OBVIOUS
<1>2. PostShape(u) /\ u.submitting = ui.submitting
  BY <1>1 DEF PostInv, PostShape
<1>3. CASE Sets([u EXCEPT !.estimate = "none"])
  BY <1>2, <1>3, PostQuiet DEF Sets, PostShape
<1>4. CASE Goes([u EXCEPT !.submitting = TRUE], Asking("uploadToIpfs", wallet))
  <2>1. PICK b : b = Ask(FreeId(asks), "uploadToIpfs", wallet)
    OBVIOUS
  <2>2. IsAsk(b)
    BY <2>1, NewAsk
  <2>3. ui' = [u EXCEPT !.submitting = TRUE] /\ asks' = asks \cup {b}
    BY <1>4, <2>1 DEF Goes, Asking
  <2>4. PostShape(ui') /\ ui'.submitting
    BY <1>2, <2>3 DEF PostShape
  <2>5. PostChain = {}
    BY DEF handleConfirmPost, CanConfirm, PostInv
  <2>6. PostChain' \subseteq {b} /\ \A a \in asks' : IsAsk(a)
    BY <2>2, <2>3, <2>5 DEF PostChain, PostInv
  <2> QED
    BY <2>4, <2>6 DEF PostInv, Single
<1> QED
  BY <1>1, <1>3, <1>4 DEF handleConfirmPost

LEMMA PostKept == ASSUME PostInv, PostNext  PROVE PostInv'
<1>1. ASSUME NEW a \in asks, PostEstimated(a)  PROVE PostInv'
  <2>1. PICK e : ui' = [ui EXCEPT !.estimating = FALSE, !.estimate = e] /\ asks' = asks \ {a}
    BY <1>1 DEF PostEstimated, Goes, Settled
  <2>2. PostShape(ui') /\ ui'.submitting = ui.submitting
    BY <2>1 DEF PostInv, PostShape
  <2>3. PostChain' \subseteq PostChain /\ \A b \in asks' : IsAsk(b)
    BY <2>1 DEF PostChain, PostInv
  <2> QED
    BY <2>2, <2>3, PostAside
<1>2. ASSUME NEW a \in asks, NEW op, a.op \in PostOps, Goes(ui, Awaits(a, op, a.arg))  PROVE PostInv'
  <2>1. PICK b : b = Ask(a.id, op, a.arg)
    OBVIOUS
  <2>2. ui' = ui /\ asks' = (asks \ {a}) \cup {b} /\ IsAsk(b)
    BY <1>2, <2>1, NewAsk DEF Goes, Awaits
  <2> QED
    BY <1>2, <2>2, PostGoesOn
<1>3. ASSUME NEW a \in asks, a.op \in PostOps, PostSucceeds(a)  PROVE PostInv'
  <2>1. PICK f : /\ ui' = [ui EXCEPT !.form = f, !.draft = FALSE, !.timer = FALSE,
                           !.estimate = "none",
                                     !.success = TRUE, !.submitting = FALSE]
                 /\ asks' = asks \ {a}
    BY <1>3 DEF PostSucceeds, Settled
  <2>2. PostShape(ui')
    BY <2>1 DEF PostInv, PostShape
  <2> QED
    BY <1>3, <2>1, <2>2, PostEnds
<1>4. ASSUME NEW a \in asks, Posting(a)  PROVE PostInv'
  <2>1. a.op \in PostOps
    BY <1>4 DEF Posting, PostOps
  <2> QED
    BY <1>2, <1>3, <1>4, <2>1 DEF Posting
<1>5. ASSUME NEW a \in asks, PostFailed(a)  PROVE PostInv'
  <2>1. ui' = [ui EXCEPT !.submitting = FALSE] /\ asks' = asks \ {a} /\ a.op \in PostOps
    BY <1>5 DEF PostFailed, Goes, Settled, PostOps
  <2>2. PostShape(ui')
    BY <2>1 DEF PostInv, PostShape
  <2> QED
    BY <2>1, <2>2, PostEnds
<1>6. ASSUME NEW a \in asks, AnswerPlain(a)  PROVE PostInv'
  <2>1. PICK b : asks' = (asks \ {a}) \cup {b} /\ IsAsk(b) /\ b.op = a.op
    BY <1>6, SaidAsk DEF AnswerPlain, PostInv
  <2> QED
    BY <1>6, <2>1, PostGoesOn DEF AnswerPlain
<1> QED
  BY <1>1, <1>4, <1>5, <1>6, PostForm, PostSubmits, PostConfirms DEF PostNext

LEMMA OnePost ==
  ClientSpec => [](On("post") => Cardinality({a \in asks : a.op \in PostOps}) <= 1)
<1> DEFINE Inv == On("post") => PostInv
<1>1. ClientInit => Inv
  <2>1. ASSUME NEW f, NEW d, asks = {}, ui = PostUi(f, d)  PROVE PostInv
    BY <2>1 DEF PostUi, PostInv, PostShape, PostChain, Single
  <2> QED
    BY <2>1, WritingPagesBegin DEF PostInit
<1>2. Inv /\ [ClientNext]_clientVars => Inv'
  <2> SUFFICES ASSUME Inv, [ClientNext]_clientVars, focus' = "post"  PROVE PostInv'
    BY DEF On
  <2>1. CASE ClientNext
    BY <2>1, PagesApart, WritingPagesApart, PostKept DEF On
  <2>2. CASE UNCHANGED clientVars
    BY <2>2, PostQuiet DEF On, clientVars, pageVars, PostInv
  <2> QED
    BY <2>1, <2>2
<1>3. Inv => (On("post") => Cardinality({a \in asks : a.op \in PostOps}) <= 1)
  <2> SUFFICES ASSUME PostInv  PROVE Cardinality({a \in asks : a.op \in PostOps}) <= 1
    OBVIOUS
  <2> QED
    BY SingleCounts DEF PostInv, PostChain
<1> QED
  BY <1>1, <1>2, <1>3, PTL DEF ClientSpec

-----------------------------------------------------------------------------
(***************************************************************************)
(* The panel of the administrator: one withdrawal, and one update of the   *)
(* access control; whatever it reads besides neither starts nor ends one.  *)
(***************************************************************************)
UpdateOps            == {"updateList", "setWhitelistMode"}
Withdrawals(reqs)    == {a \in reqs : a.op \in {"withdrawFees"}}
AccessUpdates(reqs)  == {a \in reqs : a.op \in UpdateOps}

AdminShape(u) ==
  u = [isAdmin |-> u.isAdmin, fees |-> u.fees, count |-> u.count, list |-> u.list,
       loading |-> u.loading,
       error |-> u.error, withdrawing |-> u.withdrawing, confirm |-> u.confirm,
         updating |-> u.updating]

AdminInv ==
  /\ AdminShape(ui)
  /\ \A a \in asks : IsAsk(a)
  /\ Single(Withdrawals(asks)) /\ Single(AccessUpdates(asks))
  /\ Withdrawals(asks) # {} => ui.withdrawing
  /\ AccessUpdates(asks) # {} => ui.updating

\* The panel goes on from `u` and `reqs`, which are the panel and its requests
\* as far as the two kinds of calls are concerned.
NoneAdded(u, reqs) ==
  /\ AdminShape(u) /\ u.withdrawing = ui.withdrawing /\ u.updating = ui.updating
  /\ \A a \in reqs : IsAsk(a)
  /\ Withdrawals(reqs) \subseteq Withdrawals(asks)
       /\ AccessUpdates(reqs) \subseteq AccessUpdates(asks)

LEMMA AdminAside == ASSUME AdminInv, NoneAdded(ui', asks')  PROVE AdminInv'
BY DEF AdminInv, NoneAdded, Single

LEMMA AdminQuiet ==
  ASSUME AdminInv, AdminShape(ui'), ui'.withdrawing = ui.withdrawing, ui'.updating = ui.updating,
    asks' = asks
  PROVE  AdminInv'
BY DEF AdminInv

LEMMA NewAdminRead ==
  ASSUME NEW id, NEW op, op \notin UpdateOps \cup {"withdrawFees"}, NEW arg, NEW b,
    b = Ask(id, op, arg)
  PROVE  IsAsk(b) /\ b.op \notin UpdateOps \cup {"withdrawFees"}
BY NewAsk

LEMMA LearnsKeeps ==
  ASSUME NEW u, NEW reqs, Learns(u, reqs), AdminShape(u), \A a \in reqs : IsAsk(a)
  PROVE  /\ AdminShape(ui') /\ ui'.withdrawing = u.withdrawing /\ ui'.updating = u.updating
         /\ \A a \in asks' : IsAsk(a)
         /\ Withdrawals(asks') \subseteq Withdrawals(reqs)
              /\ AccessUpdates(asks') \subseteq AccessUpdates(reqs)
<1>1. PICK left : left = {a \in reqs : a.op # "adminGetAllJobs"}
  OBVIOUS
<1>2. ui' = u \/ ui' = [u EXCEPT !.list = <<>>]
  BY DEF Learns, JobsEffect, Goes
<1>3. asks' \in {reqs, left} \/ \E id, n : asks' = left \cup {Ask(id, "adminGetAllJobs", n)}
  <2>1. CASE Goes(u, reqs)
    BY <2>1 DEF Goes
  <2>2. CASE JobsEffect(u, reqs) /\ (~(wallet # NoOne /\ u.isAdmin = "yes") \/ u.count = 0)
    BY <1>1, <2>2 DEF JobsEffect, Goes
  <2>3. CASE JobsEffect(u, reqs) /\ (wallet # NoOne /\ u.isAdmin = "yes") /\ u.count # 0
    BY <1>1, <2>3 DEF JobsEffect, Goes
  <2> QED
    BY <2>1, <2>2, <2>3 DEF Learns
<1>5. \A c \in asks' : c \in reqs \/ (IsAsk(c) /\ c.op \notin UpdateOps \cup {"withdrawFees"})
  <2>1. \A id, n : LET c == Ask(id, "adminGetAllJobs", n) IN IsAsk(c)
          /\ c.op \notin UpdateOps \cup {"withdrawFees"}
    BY NewAsk DEF UpdateOps
  <2> QED
    BY <1>1, <1>3, <2>1
<1>4. AdminShape(ui') /\ ui'.withdrawing = u.withdrawing /\ ui'.updating = u.updating
  BY <1>2 DEF AdminShape
<1> QED
  BY <1>4, <1>5 DEF Withdrawals, AccessUpdates

LEMMA AdminLearns ==
  ASSUME AdminInv, NEW u, NEW reqs, Learns(u, reqs), NoneAdded(u, reqs)  PROVE AdminInv'
BY LearnsKeeps, AdminAside DEF NoneAdded

\* An answered request ends, or goes on as one that is no call either.
LEMMA AdminReadOn ==
  ASSUME AdminInv, NEW a \in asks, a.op \notin UpdateOps \cup {"withdrawFees"}
  PROVE  /\ \A u : AdminShape(u) /\ u.withdrawing = ui.withdrawing /\ u.updating = ui.updating
                 => NoneAdded(u, Settled(a))
         /\ \A u, op : AdminShape(u) /\ u.withdrawing = ui.withdrawing /\ u.updating = ui.updating
                 /\ op \in adminReads => NoneAdded(u, Awaits(a, op, a.arg))
<1>1. ASSUME NEW op \in adminReads
      PROVE  IsAsk(Ask(a.id, op, a.arg))
        /\ Ask(a.id, op, a.arg).op \notin UpdateOps \cup {"withdrawFees"}
  BY NewAsk DEF adminReads, UpdateOps
<1> QED
  BY <1>1 DEF NoneAdded, Settled, Awaits, Withdrawals, AccessUpdates, AdminInv

LEMMA AdminReadKept == ASSUME AdminInv, NEW a \in asks, AdminRead(a)  PROVE AdminInv'
<1>0. a.op \notin UpdateOps \cup {"withdrawFees"}
  BY DEF AdminRead, adminReads, UpdateOps
<1>1. ASSUME NEW u, AdminShape(u), u.withdrawing = ui.withdrawing, u.updating = ui.updating,
        NEW op \in adminReads,
             Learns(u, Settled(a)) \/ Learns(u, Awaits(a, op, a.arg))
               \/ Goes(u, Settled(a)) \/ Goes(u, Awaits(a, op, a.arg))
      PROVE  AdminInv'
  <2>1. NoneAdded(u, Settled(a)) /\ NoneAdded(u, Awaits(a, op, a.arg))
    BY <1>0, <1>1, AdminReadOn
  <2>2. CASE Goes(u, Settled(a)) \/ Goes(u, Awaits(a, op, a.arg))
    BY <2>1, <2>2, AdminAside DEF Goes
  <2> QED
    BY <1>1, <2>1, <2>2, AdminLearns
<1>2. ASSUME NEW op, op \in {"getFees", "adminGetJobCount", "getJobStatusCounts",
                             "isWhitelistModeEnabled"}
      PROVE  op \in adminReads
  BY <1>2 DEF adminReads
<1>3. CASE Learns([ui EXCEPT !.error = TRUE, !.isAdmin = "no", !.loading = FALSE], Settled(a))
  <2>1. PICK u : u = [ui EXCEPT !.error = TRUE, !.isAdmin = "no", !.loading = FALSE]
    OBVIOUS
  <2>2. AdminShape(u) /\ u.withdrawing = ui.withdrawing /\ u.updating = ui.updating
    BY <2>1 DEF AdminInv, AdminShape
  <2> QED
    BY <1>1, <1>2, <1>3, <2>1, <2>2
<1>4. CASE Goes(ui, Awaits(a, "getFees", a.arg))
        \/ Goes(ui, Awaits(a, "isWhitelistModeEnabled", a.arg))
  BY <1>1, <1>2, <1>4 DEF AdminInv
<1>5. CASE Learns([ui EXCEPT !.fees = TRUE, !.isAdmin = "no", !.count = 0,
                   !.list = <<>>, !.loading = FALSE], Settled(a))
  <2>1. PICK u : u = [ui EXCEPT !.fees = TRUE, !.isAdmin = "no", !.count = 0,
                      !.list = <<>>, !.loading = FALSE]
    OBVIOUS
  <2>2. AdminShape(u) /\ u.withdrawing = ui.withdrawing /\ u.updating = ui.updating
    BY <2>1 DEF AdminInv, AdminShape
  <2> QED
    BY <1>1, <1>2, <1>5, <2>1, <2>2
<1>6. CASE Learns([ui EXCEPT !.fees = TRUE, !.isAdmin = "yes"], Awaits(a, "adminGetJobCount", a.arg))
  <2>1. PICK u : u = [ui EXCEPT !.fees = TRUE, !.isAdmin = "yes"]
    OBVIOUS
  <2>2. AdminShape(u) /\ u.withdrawing = ui.withdrawing /\ u.updating = ui.updating
    BY <2>1 DEF AdminInv, AdminShape
  <2> QED
    BY <1>1, <1>2, <1>6, <2>1, <2>2
<1>7. CASE Learns([ui EXCEPT !.count = Cardinality(JobIds)], Awaits(a, "getJobStatusCounts", a.arg))
  <2>1. PICK u : u = [ui EXCEPT !.count = Cardinality(JobIds)]
    OBVIOUS
  <2>2. AdminShape(u) /\ u.withdrawing = ui.withdrawing /\ u.updating = ui.updating
    BY <2>1 DEF AdminInv, AdminShape
  <2> QED
    BY <1>1, <1>2, <1>7, <2>1, <2>2
<1>8. CASE Goes([ui EXCEPT !.loading = FALSE], Settled(a))
  <2>1. PICK u : u = [ui EXCEPT !.loading = FALSE]
    OBVIOUS
  <2>2. AdminShape(u) /\ u.withdrawing = ui.withdrawing /\ u.updating = ui.updating
    BY <2>1 DEF AdminInv, AdminShape
  <2> QED
    BY <1>1, <1>2, <1>8, <2>1, <2>2
<1> QED
  BY <1>3, <1>4, <1>5, <1>6, <1>7, <1>8 DEF AdminRead

LEMMA JobsReadKept == ASSUME AdminInv, NEW a \in asks, JobsRead(a)  PROVE AdminInv'
<1>0. a.op \notin UpdateOps \cup {"withdrawFees"}
  BY DEF JobsRead, UpdateOps
<1>1. PICK l, e : ui' = [ui EXCEPT !.list = l, !.error = e] /\ asks' = Settled(a)
  <2>1. CASE Goes([ui EXCEPT !.list = <<>>, !.error = TRUE], Settled(a))
    BY <2>1 DEF Goes
  <2>2. CASE Goes([ui EXCEPT !.list = [i \in 1..a.arg |-> a.seen[i]]], Settled(a))
    <3>1. PICK l : l = [i \in 1..a.arg |-> a.seen[i]]
      OBVIOUS
    <3>2. ui' = [ui EXCEPT !.list = l] /\ asks' = Settled(a)
      BY <2>2, <3>1 DEF Goes
    <3>3. ui' = [ui EXCEPT !.list = l, !.error = ui.error]
      BY <3>2 DEF AdminInv, AdminShape
    <3> QED
      BY <3>2, <3>3
  <2> QED
    BY <2>1, <2>2 DEF JobsRead
<1>2. AdminShape(ui') /\ ui'.withdrawing = ui.withdrawing /\ ui'.updating = ui.updating
  BY <1>1 DEF AdminInv, AdminShape
<1>3. NoneAdded(ui', Settled(a))
  BY <1>0, <1>2, AdminReadOn
<1> QED
  BY <1>1, <1>3, AdminAside

LEMMA WithdrawalEnds ==
  ASSUME AdminInv, NEW a \in asks, a.op = "withdrawFees", AdminShape(ui'), ui'.updating = ui.updating,
         \A b \in asks' : IsAsk(b), Withdrawals(asks') \subseteq Withdrawals(asks) \ {a},
         AccessUpdates(asks') \subseteq AccessUpdates(asks)
  PROVE  AdminInv'
<1>1. a \in Withdrawals(asks)
  BY DEF Withdrawals
<1>2. Withdrawals(asks') = {}
  BY <1>1, SingleEnds DEF AdminInv
<1> QED
  BY <1>2 DEF AdminInv, Single

LEMMA WithdrawDoneKept == ASSUME AdminInv, NEW a \in asks, WithdrawDone(a)  PROVE AdminInv'
<1>0. a.op = "withdrawFees"
  BY DEF WithdrawDone
<1>1. PICK left : left = asks \ {a}
  OBVIOUS
<1>2. /\ \A b \in left : IsAsk(b)
      /\ Withdrawals(left) \subseteq Withdrawals(asks) \ {a}
      /\ AccessUpdates(left) \subseteq AccessUpdates(asks)
  BY <1>1 DEF AdminInv, Withdrawals, AccessUpdates
<1>3. CASE ui' = [ui EXCEPT !.withdrawing = FALSE, !.fees = FALSE] /\ asks' = Settled(a)
  <2>1. AdminShape(ui') /\ ui'.updating = ui.updating /\ asks' = left
    BY <1>1, <1>3 DEF AdminInv, AdminShape, Settled
  <2> QED
    BY <1>0, <1>2, <2>1, WithdrawalEnds
<1>4. ASSUME NEW role, Learns([ui EXCEPT !.withdrawing = FALSE, !.error = TRUE, !.isAdmin = role],
                              Settled(a))
      PROVE  AdminInv'
  <2>1. PICK u : u = [ui EXCEPT !.withdrawing = FALSE, !.error = TRUE, !.isAdmin = role]
    OBVIOUS
  <2>2. AdminShape(u) /\ u.updating = ui.updating
    BY <2>1 DEF AdminInv, AdminShape
  <2>3. Learns(u, left)
    BY <1>1, <1>4, <2>1 DEF Settled
  <2>4. /\ AdminShape(ui') /\ ui'.updating = u.updating /\ \A b \in asks' : IsAsk(b)
        /\ Withdrawals(asks') \subseteq Withdrawals(left)
             /\ AccessUpdates(asks') \subseteq AccessUpdates(left)
    BY <1>2, <2>2, <2>3, LearnsKeeps
  <2> QED
    BY <1>0, <1>2, <2>2, <2>4, WithdrawalEnds
<1> QED
  BY <1>3, <1>4 DEF WithdrawDone

LEMMA UpdateDoneKept == ASSUME AdminInv, NEW a \in asks, UpdateDone(a)  PROVE AdminInv'
<1>1. PICK e : ui' = [ui EXCEPT !.updating = FALSE, !.error = e] /\ asks' = asks \ {a}
        /\ a.op \in UpdateOps
  BY DEF UpdateDone, Goes, Settled, UpdateOps
<1>2. AdminShape(ui') /\ ui'.withdrawing = ui.withdrawing
  BY <1>1 DEF AdminInv, AdminShape
<1>3. a \in AccessUpdates(asks) /\ AccessUpdates(asks') \subseteq AccessUpdates(asks) \ {a}
  BY <1>1 DEF AccessUpdates
<1>4. AccessUpdates(asks') = {}
  BY <1>3, SingleEnds DEF AdminInv
<1>5. Withdrawals(asks') \subseteq Withdrawals(asks) /\ \A b \in asks' : IsAsk(b)
  BY <1>1 DEF Withdrawals, AdminInv
<1> QED
  BY <1>2, <1>4, <1>5 DEF AdminInv, Single

LEMMA WithdrawsKept == ASSUME AdminInv, ~ui.withdrawing, handleWithdraw  PROVE AdminInv'
<1>1. PICK b : b = Ask(FreeId(asks), "withdrawFees", wallet)
  OBVIOUS
<1>2. /\ ui' = [ui EXCEPT !.confirm = FALSE, !.withdrawing = TRUE, !.error = FALSE]
      /\ asks' = asks \cup {b}
  BY <1>1 DEF handleWithdraw, Goes, Asking
<1>3. IsAsk(b) /\ b.op = "withdrawFees"
  BY <1>1, NewAsk
<1>4. AdminShape(ui') /\ ui'.withdrawing /\ ui'.updating = ui.updating
  BY <1>2 DEF AdminInv, AdminShape
<1>5. Withdrawals(asks') \subseteq {b} /\ AccessUpdates(asks') \subseteq AccessUpdates(asks)
  BY <1>2, <1>3 DEF AdminInv, Withdrawals, AccessUpdates, UpdateOps
<1>6. \A a \in asks' : IsAsk(a)
  BY <1>2, <1>3 DEF AdminInv
<1> QED
  BY <1>4, <1>5, <1>6 DEF AdminInv, Single

LEMMA UpdatesKept == ASSUME AdminInv, NEW op \in UpdateOps, Updates(op)  PROVE AdminInv'
<1>1. PICK b : b = Ask(FreeId(asks), op, wallet)
  OBVIOUS
<1>2. ~ui.updating /\ ui' = [ui EXCEPT !.updating = TRUE, !.error = FALSE] /\ asks' = asks \cup {b}
  BY <1>1 DEF Updates, Goes, Asking
<1>3. IsAsk(b) /\ b.op \in UpdateOps
  BY <1>1, NewAsk
<1>4. AdminShape(ui') /\ ui'.withdrawing = ui.withdrawing /\ ui'.updating
  BY <1>2 DEF AdminInv, AdminShape
<1>5. Withdrawals(asks') \subseteq Withdrawals(asks) /\ AccessUpdates(asks') \subseteq {b}
  BY <1>2, <1>3 DEF AdminInv, Withdrawals, AccessUpdates, UpdateOps
<1>6. \A a \in asks' : IsAsk(a)
  BY <1>2, <1>3 DEF AdminInv
<1> QED
  BY <1>4, <1>5, <1>6 DEF AdminInv, Single

\* Data and the list of jobs are asked for, the list once more from the start.
LEMMA AdminAsksMore ==
  ASSUME AdminInv, AdminShape(ui'), ui'.withdrawing = ui.withdrawing, ui'.updating = ui.updating,
         NEW more, \A b \in more : IsAsk(b) /\ b.op \notin UpdateOps \cup {"withdrawFees"},
         asks' \subseteq asks \cup more
  PROVE  AdminInv'
<1>1. NoneAdded(ui', asks')
  BY DEF NoneAdded, AdminInv, Withdrawals, AccessUpdates
<1> QED
  BY <1>1, AdminAside

LEMMA AdminWalletKept == ASSUME AdminInv, NEW who, AdminWallet(who)  PROVE AdminInv'
<1>1. PICK more : /\ asks' \subseteq asks \cup more
                  /\ \A b \in more : \E id, op, arg : /\ b = Ask(id, op, arg)
                                                      /\ op \in {"adminGetAllJobs", "getNativeToken"}
  <2>1. CASE who = NoOne
    <3>1. PICK none : none = {}
      OBVIOUS
    <3>2. asks' \subseteq asks \cup none /\ \A b \in none : FALSE
      BY <2>1, <3>1 DEF AdminWallet
    <3> QED
      BY <3>2
  <2>2. CASE who # NoOne
    <3>1. PICK left : left = {b \in asks : b.op # "adminGetAllJobs"}
      OBVIOUS
    <3>2. CASE ui.isAdmin = "yes" /\ ui.count > 0
      <4>1. PICK id, n, token : asks' = (left \cup {Ask(id, "adminGetAllJobs", n)})
                                         \cup {Ask(token, "getNativeToken", who)}
        BY <2>2, <3>1, <3>2 DEF AdminWallet
      <4>2. PICK some : some = {Ask(id, "adminGetAllJobs", n), Ask(token, "getNativeToken", who)}
        OBVIOUS
      <4>3. asks' \subseteq asks \cup some
        BY <3>1, <4>1, <4>2
      <4> QED
        BY <4>2, <4>3
    <3>3. CASE ~(ui.isAdmin = "yes" /\ ui.count > 0)
      <4>1. PICK token : asks' = (left \cup {}) \cup {Ask(token, "getNativeToken", who)}
        BY <2>2, <3>1, <3>3 DEF AdminWallet
      <4>2. PICK some : some = {Ask(token, "getNativeToken", who)}
        OBVIOUS
      <4>3. asks' \subseteq asks \cup some
        BY <3>1, <4>1, <4>2
      <4> QED
        BY <4>2, <4>3
    <3> QED
      BY <3>2, <3>3
  <2> QED
    BY <2>1, <2>2
<1>2. \A b \in more : IsAsk(b) /\ b.op \notin UpdateOps \cup {"withdrawFees"}
  BY <1>1, NewAsk DEF UpdateOps
<1>3. AdminShape(ui') /\ ui'.withdrawing = ui.withdrawing /\ ui'.updating = ui.updating
  <2>1. CASE who = NoOne
    <3>1. ui' = [ui EXCEPT !.loading = FALSE, !.isAdmin = "unknown", !.fees = FALSE, !.list = <<>>,
                           !.count = 0, !.error = FALSE]
      BY <2>1 DEF AdminWallet
    <3> QED
      BY <3>1 DEF AdminInv, AdminShape
  <2>2. CASE who # NoOne
    <3>1. PICK l : ui' = [ui EXCEPT !.loading = TRUE, !.error = FALSE, !.list = l]
      BY <2>2 DEF AdminWallet
    <3> QED
      BY <3>1 DEF AdminInv, AdminShape
  <2> QED
    BY <2>1, <2>2
<1> QED
  BY <1>1, <1>2, <1>3, AdminAsksMore

LEMMA AdminUserKept == ASSUME AdminInv, AdminUser  PROVE AdminInv'
<1>1. ASSUME NEW c, Sets([ui EXCEPT !.confirm = c]) \/ Sets([ui EXCEPT !.error = c])  PROVE AdminInv'
  <2>1. asks' = asks /\ (ui' = [ui EXCEPT !.confirm = c] \/ ui' = [ui EXCEPT !.error = c])
    BY <1>1 DEF Sets
  <2>2. AdminShape(ui') /\ ui'.withdrawing = ui.withdrawing /\ ui'.updating = ui.updating
    BY <2>1 DEF AdminInv, AdminShape
  <2> QED
    BY <2>1, <2>2, AdminQuiet
<1>2. CASE WithdrawClicked \/ WithdrawConfirmed \/ WithdrawDropped
  BY <1>1, <1>2, WithdrawsKept DEF WithdrawClicked, WithdrawConfirmed, WithdrawDropped, CanWithdraw
<1>3. CASE AddressRefused \/ handleAccessAction \/ handleToggleWhitelistMode \/ AdminDismissed
  BY <1>1, <1>3, UpdatesKept
  DEF AddressRefused, handleAccessAction, handleToggleWhitelistMode, AdminDismissed, UpdateOps
<1>4. CASE AdminRetried
  <2>1. PICK b : b = Ask(FreeId(asks), "getNativeToken", wallet)
    OBVIOUS
  <2>2. ui' = [ui EXCEPT !.loading = TRUE, !.error = FALSE] /\ asks' = asks \cup {b}
    BY <1>4, <2>1 DEF AdminRetried, fetchAdminData, Goes
  <2>3. AdminShape(ui') /\ ui'.withdrawing = ui.withdrawing /\ ui'.updating = ui.updating
    BY <2>2 DEF AdminInv, AdminShape
  <2>4. IsAsk(b) /\ b.op \notin UpdateOps \cup {"withdrawFees"}
    BY <2>1, NewAdminRead DEF UpdateOps
  <2>5. PICK more : more = {b}
    OBVIOUS
  <2>6. (\A c \in more : IsAsk(c) /\ c.op \notin UpdateOps \cup {"withdrawFees"})
          /\ asks' \subseteq asks \cup more
    BY <2>2, <2>4, <2>5
  <2> QED
    BY <2>3, <2>6, AdminAsksMore
<1> QED
  BY <1>2, <1>3, <1>4, AdminWalletKept DEF AdminUser

LEMMA AdminAnswered == ASSUME AdminInv, NEW a \in asks, AdminAnswer(a)  PROVE AdminInv'
<1>0. ui' = ui /\ \E answer, seen : Says(a, answer, seen)
  BY DEF AdminAnswer, AnswerRead, AnswerPlain
<1>1. PICK b : asks' = (asks \ {a}) \cup {b} /\ IsAsk(b) /\ b.op = a.op
  BY <1>0, SaidAsk DEF AdminInv
<1>2. Single(Withdrawals(asks')) /\ (Withdrawals(asks') # {} => Withdrawals(asks) # {})
  <2>1. CASE a \in Withdrawals(asks)
    <3>1. Withdrawals(asks') \subseteq (Withdrawals(asks) \ {a}) \cup {b}
      BY <1>1 DEF Withdrawals
    <3> QED
      BY <2>1, <3>1, SingleGoesOn DEF AdminInv
  <2>2. CASE a \notin Withdrawals(asks)
    <3>1. Withdrawals(asks') \subseteq Withdrawals(asks)
      BY <1>1, <2>2 DEF Withdrawals
    <3> QED
      BY <3>1 DEF AdminInv, Single
  <2> QED
    BY <2>1, <2>2
<1>3. Single(AccessUpdates(asks')) /\ (AccessUpdates(asks') # {} => AccessUpdates(asks) # {})
  <2>1. CASE a \in AccessUpdates(asks)
    <3>1. AccessUpdates(asks') \subseteq (AccessUpdates(asks) \ {a}) \cup {b}
      BY <1>1 DEF AccessUpdates
    <3> QED
      BY <2>1, <3>1, SingleGoesOn DEF AdminInv
  <2>2. CASE a \notin AccessUpdates(asks)
    <3>1. AccessUpdates(asks') \subseteq AccessUpdates(asks)
      BY <1>1, <2>2 DEF AccessUpdates
    <3> QED
      BY <3>1 DEF AdminInv, Single
  <2> QED
    BY <2>1, <2>2
<1> QED
  BY <1>0, <1>1, <1>2, <1>3 DEF AdminInv

LEMMA OneAdminCall ==
  ClientSpec => [](On("admin") => /\ Cardinality({a \in asks : a.op \in {"withdrawFees"}}) <= 1
                                  /\ Cardinality({a \in asks : a.op \in UpdateOps}) <= 1)
<1> DEFINE Inv == On("admin") => AdminInv
<1>1. ClientInit => Inv
  <2>1. ui = AdminUi /\ Reading("getNativeToken", Client) => AdminInv
    <3> SUFFICES ASSUME ui = AdminUi, Reading("getNativeToken", Client)  PROVE AdminInv
      OBVIOUS
    <3>1. PICK b : b = Ask(1, "getNativeToken", Client)
      OBVIOUS
    <3>2. asks = {b} /\ IsAsk(b) /\ b.op \notin UpdateOps \cup {"withdrawFees"}
      BY <3>1, NewAdminRead DEF Reading, UpdateOps
    <3>3. AdminShape(ui)
      BY DEF AdminUi, AdminShape
    <3> QED
      BY <3>2, <3>3 DEF AdminInv, Withdrawals, AccessUpdates, Single
  <2> QED
    BY <2>1, WritingPagesBegin DEF AdminInit
<1>2. Inv /\ [ClientNext]_clientVars => Inv'
  <2> SUFFICES ASSUME Inv, [ClientNext]_clientVars, focus' = "admin"  PROVE AdminInv'
    BY DEF On
  <2>1. CASE ClientNext
    BY <2>1, PagesApart, WritingPagesApart, AdminUserKept, AdminAnswered, AdminReadKept, JobsReadKept,
      WithdrawDoneKept, UpdateDoneKept DEF On, AdminStep
  <2>2. CASE UNCHANGED clientVars
    BY <2>2, AdminQuiet DEF On, clientVars, pageVars, AdminInv
  <2> QED
    BY <2>1, <2>2
<1>3. Inv => (On("admin") => /\ Cardinality({a \in asks : a.op \in {"withdrawFees"}}) <= 1
                             /\ Cardinality({a \in asks : a.op \in UpdateOps}) <= 1)
  BY SingleCounts DEF AdminInv, Withdrawals, AccessUpdates
<1> QED
  BY <1>1, <1>2, <1>3, PTL DEF ClientSpec

-----------------------------------------------------------------------------
(***************************************************************************)
(* The wallet: the buttons share one request to connect, and a switch to   *)
(* another account is under way as long as its button waits for it.        *)
(***************************************************************************)
Connects(reqs) == {a \in reqs : a.op \in {"connect"}}
Switches(reqs) == {a \in reqs : a.op \in {"switch"}}

CallsApart ==
  /\ Single(Connects(asks)) /\ Single(Switches(asks))
  /\ Switches(asks) # {} => ui.switching

LEMMA CallsAside ==
  ASSUME CallsApart, Connects(asks') \subseteq Connects(asks),
    Switches(asks') \subseteq Switches(asks),
         ui'.switching = ui.switching
  PROVE  CallsApart'
BY DEF CallsApart, Single

LEMMA CallEnds ==
  ASSUME CallsApart, NEW a \in asks, a.op \notin {"switch"}, asks' = asks \ {a},
    ui'.switching = ui.switching
  PROVE  CallsApart'
BY CallsAside DEF Connects, Switches

LEMMA SetsSwitching ==
  ASSUME NEW who, NEW u, NEW s, SetsWallet(who, u, s), NEW v,
         u = [extension |-> u.extension, modal |-> u.modal, connecting |-> u.connecting,
              switching |-> v, left |-> u.left]
  PROVE  ui'.switching = v
BY DEF SetsWallet

LEMMA CallsUserKept == ASSUME WalletInv, CallsApart, WalletUser  PROVE CallsApart'
<1>1. CASE WalletReloaded
  <2>1. \A a \in asks' : a.op = "restore"
    BY <1>1, NewAsk DEF WalletReloaded, Mounted
  <2>2. Connects(asks') = {} /\ Switches(asks') = {}
    BY <2>1 DEF Connects, Switches
  <2> QED
    BY <2>2 DEF CallsApart, Single
<1>2. CASE ExtensionChanges \/ AttemptsForgiven \/ disconnectWallet \/ acceptLegal \/ declineLegal
  <2>1. asks' = asks /\ ui'.switching = ui.switching
    BY <1>2 DEF ExtensionChanges, AttemptsForgiven, disconnectWallet, acceptLegal, declineLegal,
       Sets, Keeps,
      WalletInv
  <2> QED
    BY <2>1, CallsAside
<1>3. CASE WatcherFires
  <2>1. asks' = asks /\ ui'.switching = ui.switching
    BY <1>3, SetsSwitching DEF WatcherFires, WalletInv
  <2> QED
    BY <2>1, CallsAside
<1>4. CASE checkAccountChange
  <2>1. ui' = ui /\ \A a \in asks' : a \in asks \/ a.op = "check"
    BY <1>4, AskedOnceShape DEF checkAccountChange, Goes, WalletInv
  <2>2. Connects(asks') \subseteq Connects(asks) /\ Switches(asks') \subseteq Switches(asks)
    BY <2>1 DEF Connects, Switches
  <2> QED
    BY <2>1, <2>2, CallsAside
<1>5. CASE handleSwitchConfirm
  <2>1. CASE Keeps(recordConnectionFailure(store))
    BY <2>1, CallsAside DEF Keeps
  <2>2. CASE Goes([ui EXCEPT !.switching = TRUE], AskedOnce("switch", wallet))
    <3>1. PICK b : b = Ask(1, "switch", wallet)
      OBVIOUS
    <3>2. asks' = asks \cup {b} /\ b.op = "switch"
      BY <2>2, <3>1, NewAsk DEF Goes, AskedOnce
    <3>3. ui'.switching
      BY <2>2 DEF Goes, WalletInv
    <3>4. Switches(asks) = {}
      BY <1>5 DEF handleSwitchConfirm, CallsApart
    <3>5. Switches(asks') \subseteq {b} /\ Connects(asks') \subseteq Connects(asks)
      BY <3>2, <3>4 DEF Switches, Connects
    <3> QED
      BY <3>3, <3>5 DEF CallsApart, Single
  <2> QED
    BY <1>5, <2>1, <2>2 DEF handleSwitchConfirm
<1>6. ASSUME NEW button \in Buttons, connectWallet(button)  PROVE CallsApart'
  <2>1. ui'.switching = ui.switching
    BY <1>6 DEF connectWallet, Goes, WalletInv
  <2>2. CASE asks' = asks
    BY <2>1, <2>2, CallsAside
  <2>3. CASE UnderWay("connect") = {} /\ asks' = AskedOnce("connect", button)
    <3>1. PICK b : b = Ask(1, "connect", button)
      OBVIOUS
    <3>2. asks' = asks \cup {b} /\ b.op = "connect"
      BY <2>3, <3>1, NewAsk DEF AskedOnce
    <3>3. Connects(asks) = {}
      BY <2>3 DEF UnderWay, Connects
    <3>4. Connects(asks') \subseteq {b} /\ Switches(asks') \subseteq Switches(asks)
      BY <3>2, <3>3 DEF Switches, Connects
    <3> QED
      BY <2>1, <3>4 DEF CallsApart, Single
  <2> QED
    BY <1>6, <2>2, <2>3 DEF connectWallet, Goes, AccessRequests
<1> QED
  BY <1>1, <1>2, <1>3, <1>4, <1>5, <1>6 DEF WalletUser

LEMMA CallsStepKept == ASSUME WalletInv, CallsApart, NEW a \in asks, WalletStep(a)  PROVE CallsApart'
<1>1. CASE AccountAnswer(a)
  <2>1. PICK b : asks' = (asks \ {a}) \cup {b} /\ b.op = a.op
    BY <1>1, SaidAsk DEF AccountAnswer, WalletInv
  <2>2. Connects(asks') \subseteq Connects(asks) /\ Switches(asks') \subseteq Switches(asks)
    BY <1>1, <2>1 DEF Connects, Switches, AccountAnswer
  <2> QED
    BY <1>1, <2>2, CallsAside DEF AccountAnswer
<1>2. CASE Restored(a)
  <2>1. asks' = asks \ {a} /\ a.op = "restore"
    BY <1>2 DEF Restored, Settled
  <2>2. ui'.switching = ui.switching
    BY <1>2, SetsSwitching DEF Restored, WalletInv
  <2> QED
    BY <2>1, <2>2, CallEnds
<1>3. CASE AccountChecked(a)
  <2>1. asks' = asks \ {a} /\ a.op = "check"
    BY <1>3 DEF AccountChecked, Settled
  <2>2. ui'.switching = ui.switching
    BY <1>3, SetsSwitching DEF AccountChecked, WalletInv
  <2> QED
    BY <2>1, <2>2, CallEnds
<1>4. CASE Connected(a)
  <2>1. asks' = asks \ {a} /\ a.op = "connect"
    BY <1>4 DEF Connected, Settled
  <2>2. CASE ui' = [ui EXCEPT !.connecting = Cold]
    BY <2>1, <2>2, CallEnds DEF WalletInv
  <2>3. ASSUME NEW who \in Users, NEW u, NEW s,
               u = [Allows(who, [ui EXCEPT !.connecting = Cold]) EXCEPT !.left = "no"],
                 SetsWallet(who, u, s)
        PROVE  CallsApart'
    <3>1. u = [extension |-> u.extension, modal |-> u.modal, connecting |-> u.connecting,
               switching |-> ui.switching, left |-> u.left]
      BY <2>3 DEF Allows, WalletInv
    <3>2. ui'.switching = ui.switching
      BY <2>3, <3>1, SetsSwitching
    <3> QED
      BY <2>1, <3>2, CallEnds
  <2> QED
    BY <1>4, <2>2, <2>3 DEF Connected
<1>5. CASE Switched(a)
  <2>1. asks' = asks \ {a} /\ a \in Switches(asks)
    BY <1>5 DEF Switched, Settled, Switches
  <2>2. Switches(asks') \subseteq Switches(asks) \ {a} /\ Connects(asks') \subseteq Connects(asks)
    BY <2>1 DEF Switches, Connects
  <2>3. Switches(asks') = {}
    BY <2>1, <2>2, SingleEnds DEF CallsApart
  <2> QED
    BY <2>2, <2>3 DEF CallsApart, Single
<1> QED
  BY <1>1, <1>2, <1>3, <1>4, <1>5 DEF WalletStep

LEMMA OneWalletCall ==
  ClientSpec => [](On("wallet") => /\ Cardinality({a \in asks : a.op \in {"connect"}}) <= 1
                                   /\ Cardinality({a \in asks : a.op \in {"switch"}}) <= 1)
<1> DEFINE Inv == On("wallet") => WalletInv /\ CallsApart
<1>1. ClientInit => Inv
  <2> SUFFICES ASSUME WalletInit  PROVE WalletInv /\ CallsApart
    BY PagesBegin
  <2>1. \A a \in asks : a.op = "restore"
    BY NewAsk DEF WalletInit, Mounted
  <2>2. Connects(asks) = {} /\ Switches(asks) = {}
    BY <2>1 DEF Connects, Switches
  <2> QED
    BY <2>2, WalletBegin DEF CallsApart, Single
<1>2. Inv /\ [ClientNext]_clientVars => Inv'
  <2> SUFFICES ASSUME Inv, [ClientNext]_clientVars, focus' = "wallet"  PROVE WalletInv' /\ CallsApart'
    BY DEF On
  <2>1. CASE ClientNext
    BY <2>1, PagesApart, WalletKept, CallsUserKept, CallsStepKept DEF On
  <2>2. CASE UNCHANGED clientVars
    <3>1. WalletInv'
      BY <2>2 DEF On, clientVars, pageVars, WalletInv, IsAsk
    <3>2. CallsApart'
      BY <2>2, CallsAside DEF On, clientVars, pageVars
    <3> QED
      BY <3>1, <3>2
  <2> QED
    BY <2>1, <2>2
<1>3. Inv => (On("wallet") => /\ Cardinality({a \in asks : a.op \in {"connect"}}) <= 1
                              /\ Cardinality({a \in asks : a.op \in {"switch"}}) <= 1)
  BY SingleCounts DEF CallsApart, Connects, Switches
<1> QED
  BY <1>1, <1>2, <1>3, PTL DEF ClientSpec

-----------------------------------------------------------------------------
\* On no page is a second call under way beside the first, however its
\* buttons, dialogs, events and late answers are interleaved: the busy flag,
\* the marked job or the run that a call begins with stays until it ends.
THEOREM OneWriteAtATime == ClientSpec => []WritesOneAtATime
<1> DEFINE AtMostOne(page, ops) == On(page) => Cardinality({a \in asks : a.op \in ops}) <= 1
<1>1. /\ AtMostOne("job", JobActions) /\ AtMostOne("feed", {"acceptJob", "cancelJob"})
      /\ AtMostOne("bulk", {"cancelJob"})
           /\ AtMostOne("post", {"uploadToIpfs", "postJob", "getNativeBalance"})
      /\ AtMostOne("admin", {"withdrawFees"})
           /\ AtMostOne("admin", {"updateList", "setWhitelistMode"})
      /\ AtMostOne("wallet", {"connect"}) /\ AtMostOne("wallet", {"switch"})
      => WritesOneAtATime
  <2> HIDE DEF AtMostOne
  <2>1. (\A group \in OneAtATime : AtMostOne(group[1], group[2])) => WritesOneAtATime
    BY DEF WritesOneAtATime, AtMostOne
  <2>2. ASSUME NEW page, NEW ops, AtMostOne(page, ops), NEW group, group = <<page, ops>>
        PROVE  AtMostOne(group[1], group[2])
    <3>1. group[1] = page /\ group[2] = ops
      BY <2>2
    <3> QED
      BY <2>2, <3>1
  <2> QED
    BY <2>1, <2>2 DEF OneAtATime
<1>2. /\ On("job") => Cardinality({a \in asks : a.op \in JobActions}) <= 1
      /\ On("feed") => Cardinality({a \in asks : a.op \in {"acceptJob", "cancelJob"}}) <= 1
      /\ On("bulk") => Cardinality({a \in asks : a.op \in {"cancelJob"}}) <= 1
      /\ On("post") => Cardinality({a \in asks : a.op \in PostOps}) <= 1
      /\ On("admin") => /\ Cardinality({a \in asks : a.op \in {"withdrawFees"}}) <= 1
                        /\ Cardinality({a \in asks : a.op \in UpdateOps}) <= 1
      /\ On("wallet") => /\ Cardinality({a \in asks : a.op \in {"connect"}}) <= 1
                         /\ Cardinality({a \in asks : a.op \in {"switch"}}) <= 1
      => WritesOneAtATime
  BY <1>1 DEF PostOps, UpdateOps
<1> QED
  BY <1>2, OneJobAction, OneFeedAction, OneBulkCancellation, OnePost, OneAdminCall, OneWalletCall, PTL
=============================================================================

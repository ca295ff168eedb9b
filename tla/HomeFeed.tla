------------------------------ MODULE HomeFeed ------------------------------
(***************************************************************************)
(* The feed of the home page (components/home/HomeFeed.tsx): the jobs of   *)
(* one page, their cache, and the calls made from the cards.  Filters and  *)
(* gestures are in HomeWidgets.                                            *)
(***************************************************************************)
EXTENDS Browser

CONSTANTS
  PageSize,    \* jobs on a page of the feed
  FeedWallets  \* wallets that may be changed to while the feed is shown

Fewer(a, b) == IF a < b THEN a ELSE b
More(a, b)  == IF a < b THEN b ELSE a

-----------------------------------------------------------------------------
(***************************************************************************)
(* The feed.  Its list holds the jobs of one page only, found from the     *)
(* number of jobs; what is shown is a page's slice of that list again.     *)
(***************************************************************************)
NoJobs    == <<>>
NoFetch   == [page |-> 1, act |-> 0]
NoCached  == [count |-> 0, list |-> NoJobs]
Count     == Cardinality(JobIds)
PagesFor(count) == More(1, (count + PageSize - 1) \div PageSize)

FeedUi(page) ==
  [list |-> NoJobs, page |-> page, fetching |-> TRUE, acting |-> 0, target |-> 0, cancelling |-> FALSE]

\* The window of a page, newest job first.
getJobWindowBounds(count, page) ==
  LET endId == More(1, count - (page - 1) * PageSize)
  IN  [startId |-> More(1, endId - PageSize + 1), endId |-> endId]

getRecentJobIds(bounds) ==
  [i \in 1..(bounds.endId - bounds.startId + 1) |-> bounds.endId - i + 1]

\* visibleJobs, as HomeJobGrid cuts it.
VisibleJobs ==
  SubSeq(ui.list, (ui.page - 1) * PageSize + 1, Fewer(ui.page * PageSize, Len(ui.list)))

ShownIds == {VisibleJobs[i].id : i \in DOMAIN VisibleJobs}

\* A refresh of the page its closure was made for; nothing orders two of them.
refresh(u, arg, as) ==
  /\ Cardinality(as) < MaxAsks
  /\ Goes([u EXCEPT !.fetching = TRUE], as \cup {Ask(FreeId(as), "getJobCount", arg)})

FeedMounted == focus = "feed" /\ ui.fetching /\ asks = {} /\ refresh(ui, [page |-> ui.page, act |-> 0], asks)

\* The button waits for the last refresh to end, a pull of the page and the event
\* of a switched account do not.
FeedRefreshed == focus = "feed" /\ refresh(ui, [page |-> ui.page, act |-> 0], asks)

\* Another page, or another sort order: a new closure, which refreshes at once.
FeedPaged(p) ==
  /\ focus = "feed" /\ ~ui.fetching /\ p # ui.page /\ p \in 1..PagesFor(Count)
  /\ refresh([ui EXCEPT !.page = p], [page |-> p, act |-> 0], asks)

Refreshed(u, act) ==
  [u EXCEPT !.fetching = FALSE,
            !.acting = IF act # 0 /\ act = u.acting THEN 0 ELSE @,
            !.target = IF act # 0 /\ u.cancelling THEN 0 ELSE @,
            !.cancelling = @ /\ act = 0]

(***************************************************************************)
(* With as many jobs as the cache was made for, the cache is taken while   *)
(* it is less than thirty seconds old, whatever page and statuses it was   *)
(* made for.  A page beyond the last is corrected, and refreshes again.    *)
(***************************************************************************)
FeedCounted(a) ==
  /\ a.op = "getJobCount" /\ Answered(a)
  /\ LET safePage == Fewer(a.arg.page, PagesFor(Count))
         u        == [ui EXCEPT !.page = IF safePage # a.arg.page THEN safePage ELSE @]
         again(as) == IF safePage # a.arg.page
                      THEN as \cup {Ask(FreeId(as), "getJobCount", [page |-> safePage, act |-> 0])} ELSE as
     IN  \/ /\ Failed(a) /\ Goes(Refreshed(ui, a.arg.act), Settled(a))
         \/ /\ ~Failed(a) /\ store.cache.count = Count
            /\ Goes(Refreshed([u EXCEPT !.list = store.cache.list], a.arg.act),
                    again(Settled(a)))
         \/ /\ ~Failed(a) /\ store.cache.count # Count
            /\ safePage # a.arg.page => Room
            /\ Goes(u, again(Awaits(a, "getJobs", a.arg)))

\* Jobs that cannot be read are left out, and the rest is cached all the same.
FeedFetched(a) ==
  /\ a.op = "getJobs" /\ Answered(a)
  /\ LET ids == getRecentJobIds(getJobWindowBounds(Count, a.arg.page))
     IN  \E unread \in IF Failed(a) THEN (SUBSET {ids[i] : i \in DOMAIN ids}) \ {{}} ELSE {{}} :
           LET kept == SelectSeq(ids, LAMBDA id : id \notin unread)
               list == [i \in DOMAIN kept |-> [id |-> kept[i], status |-> a.seen[kept[i]]]]
           IN  /\ ui' = Refreshed([ui EXCEPT !.list = list], a.arg.act)
               /\ store' = [store EXCEPT !.cache = [count |-> Count, list |-> list]]
  /\ asks' = Settled(a)
  /\ UNCHANGED <<focus, wallet, jobs>>

\* Thirty seconds have passed.
FeedCacheExpires == focus = "feed" /\ Keeps([store EXCEPT !.cache = NoCached])

(***************************************************************************)
(* Every card of somebody else's job offers to accept it, an open one or   *)
(* not; a swipe on one's own open job opens the dialog to cancel it.       *)
(***************************************************************************)
MayAct == wallet # NoOne /\ ui.acting = 0

handleAcceptJob(j) ==
  /\ focus = "feed" /\ j \in ShownIds /\ wallet # Client /\ ui.target = 0 /\ MayAct /\ Room
  /\ Goes([ui EXCEPT !.acting = j], Asking("acceptJob", [job |-> j, as |-> wallet]))

CancelAsked(j) ==
  /\ focus = "feed" /\ wallet = Client /\ ui.acting = 0 /\ ~ui.cancelling /\ ui.target = 0
  /\ \E i \in DOMAIN VisibleJobs : VisibleJobs[i] = [id |-> j, status |-> "Open"]
  /\ Sets([ui EXCEPT !.target = j])

CancelClosed == focus = "feed" /\ ui.target # 0 /\ ~ui.cancelling /\ Sets([ui EXCEPT !.target = 0])

handleConfirmCancelJob ==
  /\ focus = "feed" /\ wallet # NoOne /\ ui.target # 0 /\ ~ui.cancelling /\ Room
  /\ Goes([ui EXCEPT !.cancelling = TRUE], Asking("cancelJob", [job |-> ui.target, as |-> wallet]))

\* An action that returned refreshes, with the page of its own closure, after
\* the refresh that the event of a cancellation starts.
FeedActed(a) ==
  /\ focus = "feed" /\ a.op \in {"acceptJob", "cancelJob"} /\ Answered(a)
  /\ \/ /\ Failed(a) /\ Goes(Refreshed(ui, a.arg.job), Settled(a))
     \/ /\ ~Failed(a)
        /\ LET mine == Awaits(a, "getJobCount", [page |-> ui.page, act |-> a.arg.job])
           IN  Goes([ui EXCEPT !.fetching = TRUE],
                    IF a.op = "cancelJob" /\ Room
                    THEN mine \cup {Ask(FreeId(asks), "getJobCount", [page |-> ui.page, act |-> 0])} ELSE mine)

FeedInit ==
  /\ focus = "feed" /\ store = [cache |-> NoCached]
  /\ \E page \in {1, Count + 1} : ui = FeedUi(page)

FeedNext ==
  /\ focus = "feed"
  /\ \/ FeedMounted \/ FeedRefreshed \/ FeedCacheExpires \/ CancelClosed \/ handleConfirmCancelJob
     \/ \E who \in FeedWallets : WalletChanges(who, ui)
     \/ \E p \in 1..Count : FeedPaged(p)
     \/ \E j \in JobIds : handleAcceptJob(j) \/ CancelAsked(j)
     \/ \E a \in asks : FeedCounted(a) \/ FeedFetched(a) \/ FeedActed(a)
     \/ \E a \in asks :
          \/ a.op = "getJobCount" /\ AnswerPlain(a)
          \/ a.op = "getJobs" /\ AnswerRead(a)
          \/ a.op \in {"acceptJob", "cancelJob"} /\ AnswerWrite(a, a.op, a.arg.as, a.arg.job)
=============================================================================

----------------------------- MODULE HomeWidgets -----------------------------
(***************************************************************************)
(* What surrounds the feed of the home page: its filters and its search    *)
(* (components/JobFilterPanel.tsx, lib/recent-searches.ts), bookmarks and   *)
(* the comparison of jobs, swiping a card (components/SwipeableJobCard.tsx, *)
(* lib/swipe-actions.ts), pulling the page to refresh it                   *)
(* (lib/use-pull-to-refresh.ts), and the fetching of descriptions          *)
(* (lib/job-descriptions.ts).  Each is a focus of its own.                 *)
(***************************************************************************)
EXTENDS Browser

CONSTANTS
  Terms,          \* what is searched for
  MaxRecent,      \* recent searches kept (MAX_RECENT_SEARCHES)
  MaxCompare,     \* jobs compared at the same time (MAX_COMPARE_JOBS)
  Hashes,         \* descriptions to fetch
  FetchLimit      \* descriptions fetched at the same time

ASSUME HomeWidgetsConstants == FetchLimit \in Nat \ {0}

-----------------------------------------------------------------------------
(***************************************************************************)
(* Filters.  An amount is passed on 300 ms after the last keystroke, with  *)
(* the other filters as they were at that keystroke.                       *)
(***************************************************************************)
AnyFilter == [minAmount |-> "", maxAmount |-> "", dateRange |-> "all", freelancerStatus |-> "all", language |-> "all"]
Filtering == [minAmount |-> {"", "5"}, maxAmount |-> {"", "9"}, dateRange |-> {"all", "24h"},
              freelancerStatus |-> {"all", "assigned"}, language |-> {"all", "fr"}]
NoTimer   == <<>>

isDefaultFilters(f) == f = AnyFilter
ActiveFilters       == {x \in DOMAIN ui.filters : ui.filters[x] \notin {"", "all"}}

handleAmountChange(field, value) ==
  /\ ui.expanded
  /\ Sets([ui EXCEPT !.timer = <<[ui.filters EXCEPT ![field] = value]>>])

AmountTimer ==
  /\ ui.timer # NoTimer
  /\ Sets([ui EXCEPT !.filters = Head(ui.timer), !.timer = NoTimer, !.page = 1])

\* A drop-down of the open panel passes its choice on at once.
SelectChanged(field, value) ==
  /\ ui.expanded /\ field \in {"dateRange", "freelancerStatus", "language"}
  /\ Sets([ui EXCEPT !.filters[field] = value, !.page = 1])

\* The chip of an active filter takes it back.
ChipRemoved(field) ==
  /\ field \in ActiveFilters
  /\ Sets([ui EXCEPT !.filters[field] = AnyFilter[field], !.page = 1])

clearAll ==
  /\ ~isDefaultFilters(ui.filters)
  /\ Sets([ui EXCEPT !.filters = AnyFilter, !.timer = NoTimer, !.page = 1])

FiltersInit ==
  /\ focus = "filters" /\ store = <<>>
  /\ ui = [filters |-> AnyFilter, timer |-> NoTimer, expanded |-> FALSE, page |-> 2]

FiltersNext ==
  /\ focus = "filters"
  /\ \/ AmountTimer \/ clearAll \/ Sets([ui EXCEPT !.expanded = ~@])
     \/ \E x \in DOMAIN Filtering :
          \/ ChipRemoved(x)
          \/ \E v \in Filtering[x] : \/ SelectChanged(x, v)
                                     \/ x \in {"minAmount", "maxAmount"} /\ handleAmountChange(x, v)

-----------------------------------------------------------------------------
(***************************************************************************)
(* Search.  Recent searches are loaded once and saved whenever they change; *)
(* the term takes effect 350 ms after the last keystroke.                  *)
(***************************************************************************)
Shortened(s) == SubSeq(s, 1, IF Len(s) < MaxRecent THEN Len(s) ELSE MaxRecent)

updateRecentSearches(searches, term) ==
  Shortened(<<term>> \o SelectSeq(searches, LAMBDA t : t # term))
removeRecentSearch(searches, term) == SelectSeq(searches, LAMBDA t : t # term)

SearchSets(u, recent) ==
  /\ ui' = [u EXCEPT !.recent = recent] /\ ui' # ui
  /\ store' = [store EXCEPT !.recent = recent]
  /\ UNCHANGED <<focus, wallet, jobs, asks>>

loadRecentSearches ==
  /\ ~ui.loaded
  /\ SearchSets([ui EXCEPT !.loaded = TRUE], Shortened(store.recent))

SearchTyped(t) == Sets([ui EXCEPT !.term = t, !.waits = TRUE])
SearchTimer    == ui.waits /\ Sets([ui EXCEPT !.debounced = ui.term, !.waits = FALSE])

\* The term goes on the list, whether typed and submitted or picked from it.
handleSearchSubmit ==
  /\ ui.loaded /\ ui.term \in Terms
  /\ SearchSets([ui EXCEPT !.open = FALSE, !.page = 1], updateRecentSearches(ui.recent, ui.term))

handleRecentSearchSelect(t) ==
  /\ ui.open /\ ui.loaded /\ t \in ToSet(ui.recent)
  /\ SearchSets([ui EXCEPT !.open = FALSE, !.page = 1, !.term = t, !.waits = TRUE],
                updateRecentSearches(ui.recent, t))

handleRemoveRecentSearch(t) ==
  ui.open /\ ui.loaded /\ SearchSets(ui, removeRecentSearch(ui.recent, t))
handleClearSearchHistory == ui.open /\ ui.loaded /\ SearchSets([ui EXCEPT !.open = FALSE], <<>>)
handleClearSearch        == Sets([ui EXCEPT !.term = "", !.waits = TRUE, !.page = 1])

SearchInit ==
  /\ focus = "search" /\ \E t \in Terms : store \in {[recent |-> <<>>], [recent |-> <<t>>]}
  /\ ui = [term |-> "", debounced |-> "", waits |-> FALSE, recent |-> <<>>, loaded |-> FALSE, open |-> FALSE, page |-> 2]

SearchNext ==
  /\ focus = "search"
  /\ \/ loadRecentSearches \/ SearchTimer \/ handleSearchSubmit \/ handleClearSearchHistory \/ handleClearSearch
     \/ Sets([ui EXCEPT !.open = ~@])
     \/ \E t \in Terms : SearchTyped(t) \/ handleRecentSearchSelect(t) \/ handleRemoveRecentSearch(t)

-----------------------------------------------------------------------------
(***************************************************************************)
(* Bookmarks and the comparison.  Each tab keeps its own list of bookmarks *)
(* and writes all of it whenever it changes; the selection to compare is   *)
(* kept in the address of the page.                                        *)
(***************************************************************************)
toggleBookmark(j) ==
  LET ids == IF j \in ui.bookmarks THEN ui.bookmarks \ {j} ELSE ui.bookmarks \cup {j}
  IN  /\ ui.loaded
      /\ ui' = [ui EXCEPT !.bookmarks = ids] /\ store' = [store EXCEPT !.bookmarks = ids]
      /\ UNCHANGED <<focus, wallet, jobs, asks>>

\* The first effects read the list and, before it is shown, write it once more.
BookmarksLoaded == ~ui.loaded /\ Sets([ui EXCEPT !.loaded = TRUE, !.bookmarks = store.bookmarks])

OtherTabBookmarks(j) == Keeps([store EXCEPT !.bookmarks = @ \cup {j}])

HomeReset ==
  /\ ui.loaded
  /\ ui' = [ui EXCEPT !.bookmarks = {}] /\ store' = [store EXCEPT !.bookmarks = {}]
  /\ UNCHANGED <<focus, wallet, jobs, asks>>

toggled(ids, j) ==
  IF j \in ToSet(ids) THEN SelectSeq(ids, LAMBDA i : i # j)
  ELSE IF Len(ids) >= MaxCompare THEN ids
  ELSE Append(ids, j)

toggleCompare(j) ==
  /\ ui.at = "home"
  /\ ui' = [ui EXCEPT !.compare = toggled(@, j)] /\ ui' # ui
  /\ store' = [store EXCEPT !.url = toggled(ui.compare, j)]
  /\ UNCHANGED <<focus, wallet, jobs, asks>>

CompareCleared ==
  /\ ui.at = "home" /\ ui.compare # <<>>
  /\ ui' = [ui EXCEPT !.compare = <<>>] /\ store' = [store EXCEPT !.url = <<>>]
  /\ UNCHANGED <<focus, wallet, jobs, asks>>

\* The link of the bar, with two jobs at least; the page reads them together.
CompareOpened ==
  /\ ui.at = "home" /\ Len(ui.compare) >= 2 /\ Room
  /\ Goes([ui EXCEPT !.at = "compare", !.shown = <<>>, !.loading = TRUE], Asking("getJobs", ToSet(ui.compare)))

\* One job that cannot be read fails them all.
Compared(a) ==
  /\ a.op = "getJobs" /\ Answered(a)
  /\ Goes([ui EXCEPT !.loading = FALSE,
                     !.shown = IF Failed(a) THEN <<>>
                               ELSE [i \in 1..Len(ui.compare) |->
                                       [id |-> ui.compare[i], status |-> a.seen[ui.compare[i]]]]],
          Settled(a))

CompareLeft == ui.at = "compare" /\ asks = {} /\ Sets([ui EXCEPT !.at = "home", !.shown = <<>>, !.loading = FALSE])

PrefsInit ==
  /\ focus = "prefs" /\ \E b \in SUBSET JobIds : store = [bookmarks |-> b, url |-> <<>>]
  /\ ui = [bookmarks |-> {}, loaded |-> FALSE, compare |-> <<>>, at |-> "home", shown |-> <<>>, loading |-> FALSE]

PrefsNext ==
  /\ focus = "prefs"
  /\ \/ BookmarksLoaded \/ HomeReset \/ CompareCleared \/ CompareOpened \/ CompareLeft
     \/ \E j \in JobIds : toggleBookmark(j) \/ OtherTabBookmarks(j) \/ toggleCompare(j)
     \/ \E a \in asks : Compared(a) \/ (a.op = "getJobs" /\ AnswerRead(a))

-----------------------------------------------------------------------------
(***************************************************************************)
(* Swiping a card: offsets in pixels, what they reveal and what releasing  *)
(* the card does.  The job may be taken while the finger is on the card.   *)
(***************************************************************************)
RevealPx  == 50
FullPx    == 150
PinnedPx  == 96
MaxDragPx == 195
FlickPx   == 100    \* how far a fast flick is projected
Drags     == {-300, -160, -60, 60, 160, 300}

rubberband(over, dim) == (over * dim * 55) \div (100 * dim + 55 * over)

Beyond(px, limit, dim) == IF px <= limit THEN px ELSE limit + rubberband(px - limit, dim)

clampSwipeOffset(px, can) ==
  IF px > 0 THEN IF can.accept THEN Beyond(px, MaxDragPx, 60) ELSE Beyond(px, (RevealPx * 6) \div 10, 20)
  ELSE -Beyond(-px, IF can.cancel THEN MaxDragPx ELSE FullPx + 24, 60)

getRevealedSwipeAction(px, can) ==
  IF px >= RevealPx THEN IF can.accept THEN "accept" ELSE "none"
  ELSE IF px <= -FullPx /\ can.cancel THEN "cancel"
  ELSE IF px <= -RevealPx THEN "bookmark" ELSE "none"

Outcome(action, mode) == [action |-> action, mode |-> mode]

Fault_resolveSwipeOutcome_anyones_job(px, can) ==
  IF px <= -FullPx THEN Outcome("cancel", "trigger") ELSE Outcome("none", "close")

resolveSwipeOutcome(px, can) ==
  IF px >= RevealPx
  THEN IF can.accept THEN Outcome("accept", IF px >= FullPx THEN "trigger" ELSE "reveal")
       ELSE Outcome("none", "close")
  ELSE IF px <= -FullPx THEN Outcome(IF can.cancel THEN "cancel" ELSE "bookmark", "trigger")
  ELSE IF px <= -RevealPx THEN Outcome("bookmark", "reveal") ELSE Outcome("none", "close")

Quiet     == [ui EXCEPT !.did = "none"]
Closed(u) == [u EXCEPT !.pinned = "none", !.offset = 0]
SwipeExecutes(action) == [Closed(Quiet) EXCEPT !.menu = FALSE, !.did = action]

\* A drag starts where the card rests, and ends a wait for the menu.
Dragged(px) ==
  /\ ~ui.disabled
  /\ Sets([Quiet EXCEPT !.offset = clampSwipeOffset(ui.offset + px, ui.can), !.hold = FALSE])

Released(flick) ==
  /\ ~ui.disabled
  /\ LET outcome == resolveSwipeOutcome(ui.offset + flick, ui.can)
     IN  \/ outcome.mode = "trigger" /\ Sets(SwipeExecutes(outcome.action))
         \/ /\ outcome.mode = "reveal"
            /\ Sets([Quiet EXCEPT !.pinned = IF outcome.action = "accept" THEN "right" ELSE "left",
                                  !.offset = IF outcome.action = "accept" THEN PinnedPx ELSE -PinnedPx])
         \/ outcome.mode = "close" /\ Sets(Closed(Quiet))

Tapped == ui.pinned # "none" /\ ~ui.disabled /\ Sets(Closed(Quiet))

\* The button under a pinned card, the keyboard's toolbar and the menu.
LeftAction == IF ui.offset <= -FullPx /\ ui.can.cancel THEN "cancel" ELSE "bookmark"
ActionsOffered == {"bookmark"} \cup {x \in {"accept", "cancel"} : ui.can[x]}

UnderlayPressed ==
  /\ ui.pinned # "none"
  /\ \/ ui.can.accept /\ Sets(SwipeExecutes("accept"))
     \/ Sets(SwipeExecutes(LeftAction))

ActionChosen == \E x \in ActionsOffered : Sets(SwipeExecutes(x))

\* The menu opens after 550 ms without moving ten pixels, or on a right click.
handleHoldStart  == ~ui.disabled /\ Sets([Quiet EXCEPT !.hold = TRUE])
HoldTimer        == ui.hold /\ Sets([Quiet EXCEPT !.hold = FALSE, !.menu = TRUE])
HoldEnded        == ui.hold /\ Sets([Quiet EXCEPT !.hold = FALSE])
MenuToggled      == Sets([Quiet EXCEPT !.menu = ~@])
EscapePressed    == Sets([(IF ui.pinned # "none" THEN Closed(Quiet) ELSE Quiet) EXCEPT !.menu = FALSE])

\* The feed refreshes under the finger, or an action of the page is under way.
CardChanges ==
  \E disabled, accept, cancel \in BOOLEAN :
     Sets([Quiet EXCEPT !.disabled = disabled,
                        !.can = [accept |-> accept /\ ~disabled, cancel |-> cancel /\ ~disabled]])

SwipeInit ==
  /\ focus = "swipe" /\ store = <<>>
  /\ ui = [offset |-> 0, pinned |-> "none", menu |-> FALSE, hold |-> FALSE, disabled |-> FALSE, did |-> "none",
           can |-> [accept |-> TRUE, cancel |-> FALSE]]

SwipeNext ==
  /\ focus = "swipe"
  /\ \/ \E px \in Drags : Dragged(px)
     \/ \E flick \in {-FlickPx, 0, FlickPx} : Released(flick)
     \/ Tapped \/ UnderlayPressed \/ ActionChosen \/ handleHoldStart \/ HoldTimer \/ HoldEnded \/ MenuToggled
     \/ EscapePressed \/ CardChanges

-----------------------------------------------------------------------------
(***************************************************************************)
(* Pulling the page down refreshes it, once in 1.5 s; the keyboard has a   *)
(* button for the same.                                                    *)
(***************************************************************************)
runRefresh(u) ==
  \/ u.phase = "refreshing" /\ Sets(u)
  \/ u.phase # "refreshing" /\ u.recent /\ Sets([u EXCEPT !.phase = "idle"])
  \/ /\ u.phase # "refreshing" /\ ~u.recent /\ Room
     /\ Goes([u EXCEPT !.phase = "refreshing", !.recent = TRUE, !.timer = FALSE], Asking("refresh", 0))

TouchStart == ui.phase # "refreshing" /\ ~ui.touch /\ Sets([ui EXCEPT !.touch = TRUE, !.armed = FALSE])

LetGo(u) == IF u.phase \in {"pulling", "ready"} THEN [u EXCEPT !.phase = "idle"] ELSE u

TouchMove ==
  /\ ui.touch
  /\ \/ \E ready \in BOOLEAN : Sets([ui EXCEPT !.armed = ready, !.phase = IF ready THEN "ready" ELSE "pulling"])
     \/ Sets([LetGo(ui) EXCEPT !.touch = FALSE])

TouchEnd ==
  /\ ui.touch
  /\ \/ ui.armed  /\ runRefresh([ui EXCEPT !.touch = FALSE, !.armed = FALSE])
     \/ ~ui.armed /\ Sets([LetGo(ui) EXCEPT !.touch = FALSE])

PullDone(a) ==
  a.op = "refresh" /\ Answered(a) /\ Goes([ui EXCEPT !.phase = "done", !.timer = TRUE], Settled(a))

PullTimer == ui.timer /\ Sets([ui EXCEPT !.timer = FALSE, !.phase = IF @ = "done" THEN "idle" ELSE @])
PullAgain == Sets([ui EXCEPT !.recent = FALSE])

PullInit ==
  /\ focus = "pull" /\ store = <<>>
  /\ ui = [phase |-> "idle", touch |-> FALSE, armed |-> FALSE, recent |-> FALSE, timer |-> FALSE]

PullNext ==
  /\ focus = "pull"
  /\ \/ TouchStart \/ TouchMove \/ TouchEnd \/ PullTimer \/ PullAgain
     \/ ui.phase # "refreshing" /\ runRefresh(ui)
     \/ \E a \in asks : PullDone(a) \/ (a.op = "refresh" /\ AnswerPlain(a))

-----------------------------------------------------------------------------
(***************************************************************************)
(* Descriptions: one fetch per hash at a time, FetchLimit at once, the     *)
(* rest in a queue; a cached text that does not match its hash is dropped. *)
(***************************************************************************)
Started(u, h)  == [u EXCEPT !.active = @ \cup {h}]

resolveJobDescription(h) ==
  /\ h \notin ui.inFlight
  /\ Sets(IF Cardinality(ui.active) < FetchLimit
          THEN [Started(ui, h) EXCEPT !.inFlight = @ \cup {h}]
          ELSE [ui EXCEPT !.queue = Append(@, h), !.inFlight = @ \cup {h}])

\* A task ended: the next one of the queue starts.
Fault_Finished_queue_forgotten(u, h) == [u EXCEPT !.active = @ \ {h}, !.inFlight = @ \ {h}]

Finished(u, h) ==
  LET freed == [u EXCEPT !.active = @ \ {h}, !.inFlight = @ \ {h}]
  IN  IF u.queue = <<>> THEN freed ELSE [Started(freed, Head(u.queue)) EXCEPT !.queue = Tail(@)]

Asked(h) == {a \in asks : a.arg = h}

CacheRead(h) ==
  /\ h \in ui.active /\ Asked(h) = {}
  /\ \/ store.cache[h] = "good" /\ Sets([Finished(ui, h) EXCEPT !.text[h] = "good"])
     \/ /\ store.cache[h] # "good" /\ Room
        /\ store' = [store EXCEPT !.cache[h] = "none"]
        /\ asks' = Asking("getDescriptionCid", h)
        /\ UNCHANGED <<focus, ui, wallet, jobs>>

CidRead(a) ==
  /\ a.op = "getDescriptionCid" /\ Answered(a)
  /\ \/ Goes(Finished(ui, a.arg), Settled(a))
     \/ ~Failed(a) /\ Goes(ui, Awaits(a, "fetchFromIpfs", a.arg))

IpfsRead(a) ==
  /\ a.op = "fetchFromIpfs" /\ Answered(a)
  /\ \/ Goes(Finished(ui, a.arg), Settled(a))
     \/ /\ ~Failed(a)
        /\ ui' = [Finished(ui, a.arg) EXCEPT !.text[a.arg] = "good"]
        /\ store' = [store EXCEPT !.cache[a.arg] = "good"]
        /\ asks' = Settled(a) /\ UNCHANGED <<focus, wallet, jobs>>

DescriptionsInit ==
  /\ focus = "descriptions" /\ \E c \in [Hashes -> {"none", "stale", "good"}] : store = [cache |-> c]
  /\ ui = [active |-> {}, queue |-> <<>>, inFlight |-> {}, text |-> [h \in Hashes |-> "none"]]

DescriptionsNext ==
  /\ focus = "descriptions"
  /\ \/ \E h \in Hashes : (ui.text[h] = "none" /\ resolveJobDescription(h)) \/ CacheRead(h)
     \/ \E a \in asks : CidRead(a) \/ IpfsRead(a) \/ AnswerPlain(a)
=============================================================================

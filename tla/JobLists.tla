------------------------------ MODULE JobLists -------------------------------
(***************************************************************************)
(* Lists a dashboard is made of: the batched read of all jobs              *)
(* (lib/hooks/useBatchJobs.ts), the order its owner gives them             *)
(* (lib/hooks/useJobOrder.ts), its widgets (components/DashboardWidgets.tsx) *)
(* and the latest contract calls (lib/recent-contract-interactions.ts).    *)
(***************************************************************************)
EXTENDS Browser

CONSTANTS
  BatchCount,      \* jobs on the contract
  BatchPageSize,   \* jobs asked for in one batch (BATCH_PAGE_SIZE)
  MaxConcurrent,   \* batches at the same time (MAX_CONCURRENT_BATCHES)
  WidgetIds,       \* the widgets, in their default order
  Hidden,          \* those hidden at first
  TxHashes,        \* transactions
  MaxInteractions  \* contract calls kept (MAX_RECENT)

Least(a, b) == IF a < b THEN a ELSE b

-----------------------------------------------------------------------------
(***************************************************************************)
(* All jobs in batches.  A group of batches runs together; the next group  *)
(* waits for all of them.  A batch that hits the rate limit asks again for *)
(* half as many jobs, from the same id.                                    *)
(***************************************************************************)
Pages == [i \in 1..((BatchCount + BatchPageSize - 1) \div BatchPageSize) |->
            LET start == (i - 1) * BatchPageSize + 1
            IN  [page |-> i, start |-> start, limit |-> Least(BatchPageSize, BatchCount - start + 1)]]

BatchIdle == [phase |-> "idle", group |-> 0, loaded |-> 0, result |-> <<>>, got |-> <<>>, aborted |-> FALSE]

Groups   == (Len(Pages) + MaxConcurrent - 1) \div MaxConcurrent
InGroup(g) == {i \in DOMAIN Pages : (i - 1) \div MaxConcurrent = g - 1}

fetchAllMatching ==
  /\ ui.phase = "idle" /\ asks = {}
  /\ Goes([BatchIdle EXCEPT !.phase = "counting"], {Ask(1, "getJobCount", 0)})

\* Another fetch, or the page, aborts this one.
BatchAborted == ui.phase \in {"counting", "reading"} /\ Sets([ui EXCEPT !.aborted = TRUE])

GroupAsks(g) == {Ask(i, "getJobsBatch", Pages[i]) : i \in InGroup(g)}

BatchCounted(a) ==
  /\ a.op = "getJobCount" /\ Answered(a)
  /\ \/ Failed(a) /\ Goes([ui EXCEPT !.phase = "rejected"], {})
     \/ ~Failed(a) /\ ui.aborted /\ Goes([ui EXCEPT !.phase = "resolved"], {})
     \/ ~Failed(a) /\ ~ui.aborted /\ Goes([ui EXCEPT !.phase = "reading", !.group = 1], GroupAsks(1))

\* A batch of an aborted fetch is worth nothing; one error rejects the fetch.
BatchIds(a) == IF ui.aborted THEN <<>> ELSE [k \in 1..a.arg.limit |-> a.arg.start + k - 1]

BatchRead(a) ==
  /\ a.op = "getJobsBatch" /\ Answered(a) /\ ui.phase = "reading"
  /\ \/ (~Failed(a) \/ ui.aborted) /\ Goes([ui EXCEPT !.got = Append(@, [page |-> a.arg.page, ids |-> BatchIds(a)])], Settled(a))
     \/ /\ Failed(a) /\ ~ui.aborted
        /\ Goes(ui, Awaits(a, "getJobsBatch", [a.arg EXCEPT !.limit = IF @ \div 2 < 1 THEN 1 ELSE @ \div 2]))
     \/ Failed(a) /\ ~ui.aborted /\ Goes([ui EXCEPT !.phase = "rejected"], {})

\* The group's matches in the order of its pages.
Merged == FoldLeft(LAMBDA acc, g : acc \o g.ids, <<>>, SortSeq(ui.got, LAMBDA x, y : x.page < y.page))

BatchGroupDone ==
  /\ ui.phase = "reading" /\ asks = {}
  /\ LET asked == FoldSet(LAMBDA i, n : n + Pages[i].limit, 0, InGroup(ui.group))
         u     == [ui EXCEPT !.result = @ \o Merged, !.got = <<>>, !.loaded = Least(@ + asked, BatchCount)]
     IN  IF ui.group = Groups \/ ui.aborted
         THEN Goes([u EXCEPT !.phase = "resolved"], {})
         ELSE Goes([u EXCEPT !.group = @ + 1], GroupAsks(ui.group + 1))

BatchInit == focus = "batch" /\ store = <<>> /\ ui = BatchIdle

BatchNext ==
  /\ focus = "batch"
  /\ \/ fetchAllMatching \/ BatchAborted \/ BatchGroupDone
     \/ \E a \in asks : BatchCounted(a) \/ BatchRead(a) \/ AnswerPlain(a)

-----------------------------------------------------------------------------
(***************************************************************************)
(* The order of the cards.  The saved order is loaded whenever the list    *)
(* changes; a changed length saves the list it is cut down or filled to.   *)
(***************************************************************************)
NoOrder == <<0>>
Lists   == {s \in UNION {[1..n -> JobIds] : n \in 0..Cardinality(JobIds)} : IsInjective(s)}

Synced(order, list) ==
  SelectSeq(order, LAMBDA j : j \in ToSet(list)) \o SelectSeq(list, LAMBDA j : j \notin ToSet(order))

\* The two effects after a render with this list.
OrderEffects(list, saved) ==
  LET order == IF saved = NoOrder THEN list ELSE saved
      next  == Synced(order, list)
  IN  IF Len(next) = Len(order) THEN [order |-> order, saved |-> saved] ELSE [order |-> next, saved |-> next]

\* A list arrives, or a filter of the dashboard changes it.
ListChanges(list) ==
  LET e == OrderEffects(list, store.order)
  IN  /\ list # ui.list
      /\ ui' = [list |-> list, order |-> e.order] /\ store' = [order |-> e.saved]
      /\ UNCHANGED <<focus, wallet, jobs, asks>>

\* What is dragged are the ordered jobs, those of the order that are listed.
orderedJobs == SelectSeq(ui.order, LAMBDA j : j \in ToSet(ui.list))

setNewOrder(i, j) ==
  LET order == [orderedJobs EXCEPT ![i] = orderedJobs[j], ![j] = orderedJobs[i]]
  IN  /\ i # j
      /\ ui' = [ui EXCEPT !.order = order] /\ store' = [order |-> order]
      /\ UNCHANGED <<focus, wallet, jobs, asks>>

resetOrder ==
  /\ store.order # NoOrder
  /\ ui' = [ui EXCEPT !.order = ui.list] /\ store' = [order |-> NoOrder]
  /\ UNCHANGED <<focus, wallet, jobs, asks>>

OrderInit == focus = "order" /\ store = [order |-> NoOrder] /\ ui = [list |-> <<>>, order |-> <<>>]

OrderNext ==
  /\ focus = "order"
  /\ \/ \E list \in Lists : ListChanges(list)
     \/ \E i, j \in DOMAIN orderedJobs : setNewOrder(i, j)
     \/ resetOrder

-----------------------------------------------------------------------------
(***************************************************************************)
(* Widgets, kept per wallet.  What a drag does is saved when it ends.      *)
(***************************************************************************)
DEFAULT_WIDGETS == [i \in DOMAIN WidgetIds |-> [id |-> WidgetIds[i], visible |-> WidgetIds[i] \notin Hidden]]
NoneStored      == <<>>

loadWidgets(who) == IF store.widgets[who] = NoneStored THEN DEFAULT_WIDGETS ELSE store.widgets[who]

persist(u, widgets) ==
  /\ ui' = [u EXCEPT !.widgets = widgets]
  /\ store' = [store EXCEPT !.widgets[wallet] = widgets]
  /\ UNCHANGED <<focus, wallet, jobs, asks>>

toggleVisibility(id) ==
  /\ ui.picker /\ \E i \in DOMAIN ui.widgets : ui.widgets[i] = [id |-> id, visible |-> FALSE]
  /\ persist([ui EXCEPT !.picker = FALSE],
             [i \in DOMAIN ui.widgets |-> [ui.widgets[i] EXCEPT !.visible = IF ui.widgets[i].id = id THEN ~@ ELSE @]])

removeWidget(id) ==
  /\ ui.edit
  /\ persist(ui, [i \in DOMAIN ui.widgets |-> [ui.widgets[i] EXCEPT !.visible = @ /\ ui.widgets[i].id # id]])

resetLayout == ui.edit /\ persist(ui, DEFAULT_WIDGETS)

handleDragStart(id) ==
  /\ ui.edit /\ ui.dragged = "none" /\ \E i \in DOMAIN ui.widgets : ui.widgets[i] = [id |-> id, visible |-> TRUE]
  /\ Sets([ui EXCEPT !.dragged = id])

\* The dragged widget takes the place of the one it is over.
Moved(widgets, from, to) ==
  LET rest == RemoveAt(widgets, from) IN SubSeq(rest, 1, to - 1) \o <<widgets[from]>> \o SubSeq(rest, to, Len(rest))

handleDragOver(to) ==
  /\ ui.dragged # "none"
  /\ \E from \in DOMAIN ui.widgets :
       ui.widgets[from].id = ui.dragged /\ from # to /\ Sets([ui EXCEPT !.widgets = Moved(@, from, to)])

handleDragEnd == ui.dragged # "none" /\ persist([ui EXCEPT !.dragged = "none"], ui.widgets)

\* Another wallet: its own widgets are loaded while rendering.
WidgetsWallet(who) == WalletChanges(who, [ui EXCEPT !.widgets = loadWidgets(who)])

WidgetsInit ==
  /\ focus = "widgets" /\ store = [widgets |-> [w \in Users |-> NoneStored]]
  /\ ui = [widgets |-> DEFAULT_WIDGETS, edit |-> FALSE, picker |-> FALSE, dragged |-> "none"]

WidgetsNext ==
  /\ focus = "widgets"
  /\ \/ Sets([ui EXCEPT !.edit = ~@]) \/ (ui.edit /\ Sets([ui EXCEPT !.picker = ~@]))
     \/ resetLayout \/ handleDragEnd
     \/ \E i \in DOMAIN WidgetIds :
          toggleVisibility(WidgetIds[i]) \/ removeWidget(WidgetIds[i]) \/ handleDragStart(WidgetIds[i]) \/ handleDragOver(i)
     \/ \E who \in Users : WidgetsWallet(who)

-----------------------------------------------------------------------------
(***************************************************************************)
(* The latest contract calls.  A call is recorded when it was sent and     *)
(* again when its result is known; the widget reads the list on the event  *)
(* of either, and on a storage event of another tab.                       *)
(***************************************************************************)
Recorded(list, hash, status) ==
  LET next == <<[hash |-> hash, status |-> status]>> \o SelectSeq(list, LAMBDA e : e.hash # hash)
  IN  SubSeq(next, 1, Least(Len(next), MaxInteractions))

recordRecentContractInteraction(hash, status) ==
  LET list == Recorded(store.recent, hash, status)
  IN  /\ store' = [store EXCEPT !.recent = list]
      /\ ui' = IF ui.mounted THEN [ui EXCEPT !.items = list] ELSE ui
      /\ UNCHANGED <<focus, wallet, jobs, asks>>

RecentMounted == ~ui.mounted /\ Sets([ui EXCEPT !.mounted = TRUE, !.items = store.recent])
RecentLeft    == ui.mounted /\ Sets([ui EXCEPT !.mounted = FALSE])

RecentInit == focus = "recent" /\ store = [recent |-> <<>>] /\ ui = [items |-> <<>>, mounted |-> FALSE]

RecentNext ==
  /\ focus = "recent"
  /\ \/ RecentMounted \/ RecentLeft
     \/ \E h \in TxHashes, s \in {"SUCCESS", "ERROR", "PENDING"} : recordRecentContractInteraction(h, s)
=============================================================================

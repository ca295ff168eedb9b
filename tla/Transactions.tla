----------------------------- MODULE Transactions -----------------------------
(***************************************************************************)
(* The transaction history page: what the jobs of the wallet mean in money *)
(* (tab "platform"), what the Stellar ledger recorded for it, page by page *)
(* (tab "wallet"), and the export of the latter to a file.                 *)
(*                                                                         *)
(* A ledger transaction is its paging token; tokens grow, and the two      *)
(* wallets own the odd and the even ones.  New ones arrive all the time.   *)
(***************************************************************************)
EXTENDS Browser, Lists

CONSTANTS
  MaxTokens,     \* transactions of the ledger at most
  PageLimit,     \* transactions the page fetches at a time (20)
  ExportLimit,   \* transactions the export fetches at a time (200)
  ExportCap      \* the export stops fetching with so many (1000)

ASSUME TransactionConstants == {MaxTokens, PageLimit, ExportLimit, ExportCap} \subseteq Nat \ {0}

NoCursor  == 0
Owned(who) == {t \in 1..MaxTokens : who = IF t % 2 = 1 THEN Client ELSE Worker}

\* Tokens grow with time: the transactions of a set from the newest down.
NewestFirst(tokens) ==
  LET places == 1..Cardinality(tokens)
  IN  CHOOSE list \in [places -> tokens] : \A k, l \in places : k < l => list[k] > list[l]

\* Mutant: the next page is asked for with the first token of the last one.
Fault_fetchWalletTransactions_nextCursor_first(who, cursor, limit, n) ==
  LET older   == NewestFirst({t \in Owned(who) : t <= n /\ (cursor # NoCursor => t < cursor)})
      records == SubSeq(older, 1, IF limit < Len(older) THEN limit ELSE Len(older))
  IN  [records |-> records,
       nextCursor |-> IF Len(records) >= limit THEN Head(records) ELSE NoCursor]

\* A ledger of n transactions answers: the newest `limit` ones of the wallet
\* that are older than the cursor; a full page says where the next one starts.
fetchWalletTransactions(who, cursor, limit, n) ==
  LET older   == NewestFirst({t \in Owned(who) : t <= n /\ (cursor # NoCursor => t < cursor)})
      records == SubSeq(older, 1, IF limit < Len(older) THEN limit ELSE Len(older))
  IN  [records |-> records,
       nextCursor |-> IF Len(records) >= limit THEN Last(records) ELSE NoCursor]

\* A request for a page is answered from the ledger as it was at some moment
\* since it was made; `for` is what it is wanted for.
PageAsk(id, op, who, cursor, for) ==
  Ask(id, op, [who |-> who, cursor |-> cursor, since |-> store.newest, for |-> for])
PagesOf(a, limit) ==
  {fetchWalletTransactions(a.arg.who, a.arg.cursor, limit, n) : n \in a.arg.since..store.newest}

TransactionLands ==
  /\ store.newest < MaxTokens
  /\ Keeps([store EXCEPT !.newest = @ + 1])

-----------------------------------------------------------------------------
\* The events one job stands for, seen by one of its parties.
deriveTransactions(j, status, who) ==
  {<<j, type>> : type \in
     (IF who = Client THEN {"job_posted"} ELSE {})
       \cup (IF who = Worker /\ status = "Completed" THEN {"payment_received", "fee_deducted"} ELSE {})
       \cup (IF who = Client /\ status = "Cancelled" THEN {"refund_received"} ELSE {})
       \cup (IF status = "Disputed" THEN {"dispute_resolved"} ELSE {})}

buildTransactionList ==
  IF wallet = NoOne THEN {}
  ELSE UNION {deriveTransactions(j, ui.all[j], wallet) : j \in {k \in JobIds : ui.all[k] # "none"}}

Unmounted == [list |-> <<>>, cursor |-> NoCursor, loading |-> FALSE, more |-> FALSE, failed |-> FALSE]
HistoryOps == {"fetchInitial", "loadMore"}

TransactionsInit ==
  /\ focus = "transactions"
  /\ ui = [tab |-> "platform", all |-> Nothing, loading |-> TRUE, failed |-> FALSE, hist |-> Unmounted]
  /\ store = [newest |-> MaxTokens - 1]
  /\ wallet = Client
  /\ asks = {Ask(1, "fetchJobs", Client)}

\* fetchInitial empties the list, then asks for its first page.
Emptied(u) ==
  [u EXCEPT !.hist.loading = TRUE, !.hist.failed = FALSE, !.hist.list = <<>>, !.hist.cursor = NoCursor]
FetchesJobs(u) == [u EXCEPT !.loading = TRUE, !.failed = FALSE]

\* The component of the wallet tab is there, and runs fetchInitial again
\* whenever the wallet or the platform's list is a new one.
OnWalletTab(u, who) == u.tab = "wallet" /\ who # NoOne

setActiveTab(tab) ==
  /\ wallet # NoOne /\ ui.tab # tab
  /\ LET u == [ui EXCEPT !.tab = tab, !.hist = Unmounted]
     IN  IF tab = "wallet"
         THEN Room /\ Goes(Emptied(u), asks \cup {PageAsk(FreeId(asks), "fetchInitial", wallet, NoCursor, "list")})
         ELSE Goes(u, {a \in asks : a.op \notin HistoryOps})

RefreshTransactions ==
  /\ wallet # NoOne /\ Room
  /\ Goes(FetchesJobs(ui), Asking("fetchJobs", wallet))

loadMore ==
  /\ OnWalletTab(ui, wallet) /\ Room
  /\ ~ui.hist.loading /\ ~ui.hist.failed /\ ~ui.hist.more /\ ui.hist.cursor # NoCursor
  /\ Goes([ui EXCEPT !.hist.more = TRUE],
          asks \cup {PageAsk(FreeId(asks), "loadMore", wallet, ui.hist.cursor, "list")})

\* The error banner of the tab: try again, or close it.
HistoryBanner ==
  /\ ui.hist.failed /\ ~ui.hist.loading
  /\ \/ Sets([ui EXCEPT !.hist.failed = FALSE])
     \/ /\ Room
        /\ Goes(Emptied(ui), asks \cup {PageAsk(FreeId(asks), "fetchInitial", wallet, NoCursor, "list")})

\* Another wallet: the page fetches its jobs, the tab its first page.  Without
\* one the tab is gone and the page forgets the jobs.
TransactionsWallet(who) ==
  /\ wallet # who /\ wallet' = who
  /\ UNCHANGED <<focus, store, jobs>>
  /\ IF who = NoOne
     THEN /\ ui' = [ui EXCEPT !.all = Nothing, !.loading = FALSE, !.failed = FALSE, !.hist = Unmounted]
          /\ asks' = {a \in asks : a.op \notin HistoryOps}
     ELSE /\ Room
          /\ ui' = IF OnWalletTab(ui, who) THEN Emptied(FetchesJobs(ui)) ELSE FetchesJobs(ui)
          /\ LET as == Asking("fetchJobs", who)
             IN  asks' = IF OnWalletTab(ui, who)
                         THEN as \cup {PageAsk(FreeId(as), "fetchInitial", who, NoCursor, "list")} ELSE as

TransactionsUser ==
  /\ focus = "transactions"
  /\ \/ \E tab \in {"platform", "wallet"} : setActiveTab(tab)
     \/ RefreshTransactions \/ loadMore \/ HistoryBanner
     \/ ui.failed /\ Sets([ui EXCEPT !.failed = FALSE])
     \/ \E who \in Users \cup {NoOne} : TransactionsWallet(who)

\* The jobs have been read, or not; a new list makes the tab start over.
JobsArrived(a) ==
  /\ a.op = "fetchJobs"
  /\ \/ Goes([ui EXCEPT !.loading = FALSE, !.failed = TRUE], Settled(a))
     \/ LET u == [ui EXCEPT !.loading = FALSE, !.all = ListFor(a.arg, jobs)]
        IN  IF OnWalletTab(u, wallet)
            THEN Goes(Emptied(u), Settled(a) \cup {PageAsk(a.id, "fetchInitial", wallet, NoCursor, "list")})
            ELSE Goes(u, Settled(a))

InitialFetched(a) ==
  /\ a.op = "fetchInitial"
  /\ \/ Goes([ui EXCEPT !.hist.loading = FALSE, !.hist.failed = TRUE], Settled(a))
     \/ \E page \in PagesOf(a, PageLimit) :
          Goes([ui EXCEPT !.hist.loading = FALSE, !.hist.list = page.records,
                          !.hist.cursor = page.nextCursor], Settled(a))

MoreFetched(a) ==
  /\ a.op = "loadMore"
  /\ \/ Goes([ui EXCEPT !.hist.more = FALSE, !.hist.failed = TRUE], Settled(a))
     \/ \E page \in PagesOf(a, PageLimit) :
          Goes([ui EXCEPT !.hist.more = FALSE, !.hist.list = @ \o page.records,
                          !.hist.cursor = page.nextCursor], Settled(a))

TransactionsStep(a) ==
  focus = "transactions" /\ (JobsArrived(a) \/ InitialFetched(a) \/ MoreFetched(a))

-----------------------------------------------------------------------------
\* The export: the dialog, the days chosen in it, and the file of the last
\* export of ledger transactions; `began` is the ledger when it began.
ExportInit ==
  /\ focus = "export"
  /\ ui = [open |-> FALSE, days |-> 1..MaxTokens, running |-> FALSE, rows |-> <<>>, file |-> <<>>]
  /\ \E n \in 0..MaxTokens : store = [newest |-> n]
  /\ wallet = Client /\ asks = {}

exportWindow ==
  \/ Sets([ui EXCEPT !.open = ~@])
  \/ ui.open /\ \E from \in 1..2 : Sets([ui EXCEPT !.days = from..MaxTokens])

handleExport ==
  /\ ui.open /\ ~ui.running
  /\ \/ Sets([ui EXCEPT !.open = FALSE])   \* the platform's list, at hand
     \/ Goes([ui EXCEPT !.running = TRUE, !.rows = <<>>, !.file = <<>>],
             {PageAsk(1, "export", wallet, NoCursor, [days |-> ui.days, began |-> store.newest])})

\* One page of the export has arrived, or an alert ends it.
ExportPage(a) ==
  /\ focus = "export"
  /\ \/ Goes([ui EXCEPT !.running = FALSE, !.open = FALSE, !.rows = <<>>], {})
     \/ \E page \in PagesOf(a, ExportLimit) :
          LET rows == ui.rows \o Without(page.records, Owned(a.arg.who) \ a.arg.for.days)
          IN  IF page.nextCursor # NoCursor /\ Len(rows) < ExportCap
              THEN Goes([ui EXCEPT !.rows = rows],
                        {PageAsk(1, "export", a.arg.who, page.nextCursor, a.arg.for)})
              ELSE Goes([ui EXCEPT !.running = FALSE, !.open = FALSE, !.rows = <<>>,
                                   !.file = <<[rows |-> rows, days |-> a.arg.for.days,
                                               began |-> a.arg.for.began]>>], {})

ExportUser == focus = "export" /\ (exportWindow \/ handleExport)

LedgerGrows == focus \in {"transactions", "export"} /\ TransactionLands
=============================================================================

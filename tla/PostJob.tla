------------------------------- MODULE PostJob -------------------------------
(***************************************************************************)
(* Posting a job (app/post-job/page.tsx): the form with its draft and its  *)
(* limit of posts in an hour (lib/rate-limiter.ts), the estimate of the    *)
(* fee before it is sent (lib/fee-estimator.ts, TransactionPreview), and   *)
(* the editor of the description (components/RichTextEditor.tsx).          *)
(***************************************************************************)
EXTENDS Browser

CONSTANTS
  FormEdits,        \* what is typed: pairs of a field and a kind of value
  MaxPostsPerHour   \* MAX_POSTS_PER_HOUR

-----------------------------------------------------------------------------
(***************************************************************************)
(* The form.  A field holds a kind of value; the kinds in FieldOk pass.    *)
(* A token address is an account, "G", or a contract, "C"; the form takes  *)
(* accounts only.                                                          *)
(***************************************************************************)
BlankForm == [amount |-> "", bonus |-> "", description |-> "", deadline |-> "", token |-> "G", title |-> ""]
SavedForm == [amount |-> "ok", bonus |-> "", description |-> "ok", deadline |-> "", token |-> "G", title |-> "ok"]
NoDraft   == [BlankForm EXCEPT !.token = "none"]

validateTokenAddress(token) == token = "G"

FieldOk(field, kind) ==
  CASE field = "amount"      -> kind = "ok"            \* "dust" is below the minimum
    [] field = "bonus"       -> kind \in {"", "ok"}
    [] field = "description" -> kind = "ok"            \* "long" is above the contract's limit
    [] field = "deadline"    -> kind \in {"", "ok"}    \* "past", or more than a year ahead
    [] field = "token"       -> validateTokenAddress(kind)
    [] field = "title"       -> kind = "ok"

FormErrors(form) == {f \in DOMAIN form : ~FieldOk(f, form[f])}
IsEmpty(form)    == form.amount = "" /\ form.description = "" /\ form.deadline = ""

(***************************************************************************)
(* The arguments of post_job, by position.  The estimate passes all nine;  *)
(* the submission passes eight, without the bonus, so that from the third  *)
(* on each stands in the place of the one before it and the encoding of    *)
(* the first misplaced one throws.                                         *)
(***************************************************************************)
PostJobTypes == <<"address", "i128", "i128", "bytes", "u32", "u64", "address", "bytes", "symbol">>

EstimateArgs == PostJobTypes
SubmitArgs   == <<"address", "i128", "bytes", "u32", "u64", "address", "bytes", "symbol">>

Encodable(args) == Len(args) = Len(PostJobTypes) /\ \A i \in DOMAIN args : args[i] = PostJobTypes[i]

-----------------------------------------------------------------------------
\* The page: drafts per wallet (also without one), the times of the last posts.
PostUi(form, draft) ==
  [form |-> form, errors |-> {}, terms |-> FALSE, timer |-> FALSE, draft |-> draft, estimate |-> "none",
   estimating |-> FALSE, submitting |-> FALSE, success |-> FALSE]

Wallets    == Users \cup {NoOne}
HasDraft(w) == store.draft[w] # NoDraft
isLimited  == store.posts >= MaxPostsPerHour

\* Typing arms the draft's timer again, with this form and this wallet.
FormEdited ==
  \E e \in FormEdits :
    Sets([ui EXCEPT !.form[e[1]] = e[2], !.errors = @ \ {e[1]},
                    !.timer = ~IsEmpty([ui.form EXCEPT ![e[1]] = e[2]])])

DraftTimer ==
  /\ ui.timer
  /\ ui' = [ui EXCEPT !.timer = FALSE, !.draft = TRUE]
  /\ store' = [store EXCEPT !.draft[wallet] = [ui.form EXCEPT !.bonus = ""]]
  /\ UNCHANGED <<focus, wallet, jobs, asks>>

handleClearDraft ==
  /\ ui.draft
  /\ ui' = [ui EXCEPT !.form = [BlankForm EXCEPT !.bonus = ui.form.bonus], !.draft = FALSE, !.timer = FALSE, !.errors = {}]
  /\ store' = [store EXCEPT !.draft[wallet] = NoDraft]
  /\ UNCHANGED <<focus, wallet, jobs, asks>>

\* Another wallet: its draft, or a blank form; the bonus stays.  Without a
\* wallet the messages and the estimate go as well.
PostWallet(who) ==
  LET form == [(IF HasDraft(who) THEN store.draft[who] ELSE BlankForm) EXCEPT !.bonus = ui.form.bonus]
      u    == [ui EXCEPT !.form = form, !.draft = HasDraft(who), !.timer = ~IsEmpty(form)]
  IN  WalletChanges(who, IF who = NoOne
                         THEN [u EXCEPT !.estimate = "none", !.estimating = FALSE, !.success = FALSE] ELSE u)

\* Token addresses differ between networks.
NetworkSwitched == Sets([ui EXCEPT !.form.token = "G"])

CanSubmit == ui.terms /\ ~ui.submitting /\ ~ui.estimating /\ ~isLimited

\* Phase 1: validation, then an estimate.
handleSubmit ==
  /\ CanSubmit /\ wallet # NoOne
  /\ LET u == [ui EXCEPT !.errors = FormErrors(ui.form), !.estimate = "none", !.success = FALSE]
     IN  IF u.errors # {} THEN Sets(u)
         ELSE Room /\ Goes([u EXCEPT !.estimating = TRUE], Asking("estimateTransactionFee", EstimateArgs))

\* Estimation never blocks posting.
PostEstimated(a) ==
  /\ a.op = "estimateTransactionFee" /\ Answered(a)
  /\ Goes([ui EXCEPT !.estimating = FALSE, !.estimate = IF Failed(a) THEN "failed" ELSE "done"], Settled(a))

EstimateDropped == ui.estimate # "none" /\ ~ui.submitting /\ ~ui.estimating /\ Sets([ui EXCEPT !.estimate = "none"])

CanConfirm == ui.estimate # "none" /\ ~ui.submitting /\ ~ui.estimating /\ wallet # NoOne

\* Phase 2: validated again, from the form as it is now.
handleConfirmPost ==
  /\ CanConfirm /\ ~isLimited
  /\ LET u == [ui EXCEPT !.errors = FormErrors(ui.form), !.success = FALSE]
     IN  IF u.errors # {} THEN Sets([u EXCEPT !.estimate = "none"])
         ELSE Room /\ Goes([u EXCEPT !.submitting = TRUE], Asking("uploadToIpfs", wallet))

\* A post for the wallet the page had when it was confirmed; the form cleared
\* is the one of the wallet connected now.
PostSucceeds(a) ==
  /\ ui' = [ui EXCEPT !.form = [BlankForm EXCEPT !.bonus = ui.form.bonus, !.token = ui.form.token], !.draft = FALSE,
                      !.timer = FALSE, !.estimate = "none", !.success = TRUE, !.submitting = FALSE]
  /\ store' = [store EXCEPT !.draft[a.arg] = NoDraft, !.posts = @ + 1]
  /\ asks' = Settled(a) /\ UNCHANGED <<focus, wallet, jobs>>

\* The description first, then the job; a failure ends with a look at the balance.
\* With SubmitArgs as they are no post gets as far as PostSucceeds.
Posting(a) ==
  /\ a.op \in {"uploadToIpfs", "postJob"} /\ Answered(a)
  /\ IF Failed(a) \/ ~Encodable(SubmitArgs) THEN Goes(ui, Awaits(a, "getNativeBalance", a.arg))
     ELSE IF a.op = "uploadToIpfs"          THEN Goes(ui, Awaits(a, "postJob", a.arg))
     ELSE PostSucceeds(a)

\* The error names the balance, if it could be read.
PostFailed(a) == a.op = "getNativeBalance" /\ Answered(a) /\ Goes([ui EXCEPT !.submitting = FALSE], Settled(a))

OtherTabPosts == store.posts < MaxPostsPerHour /\ Keeps([store EXCEPT !.posts = @ + 1])
HourPasses    == store.posts > 0 /\ Keeps([store EXCEPT !.posts = @ - 1])

PostInit ==
  /\ focus = "post"
  /\ store = [draft |-> [w \in Wallets |-> IF w = Client THEN SavedForm ELSE NoDraft], posts |-> 0]
  /\ ui = IF HasDraft(wallet) THEN PostUi(SavedForm, TRUE) ELSE PostUi(BlankForm, FALSE)

PostNext ==
  /\ focus = "post"
  /\ \/ FormEdited \/ DraftTimer \/ handleClearDraft \/ NetworkSwitched \/ handleSubmit \/ EstimateDropped
     \/ handleConfirmPost \/ OtherTabPosts \/ HourPasses \/ Sets([ui EXCEPT !.terms = ~@])
     \/ \E who \in Wallets : PostWallet(who)
     \/ \E a \in asks : PostEstimated(a) \/ Posting(a) \/ PostFailed(a) \/ AnswerPlain(a)

-----------------------------------------------------------------------------
(***************************************************************************)
(* An estimate: the account, the simulation, then what is best effort, the *)
(* price in fiat and the comparison with the last fees.                    *)
(***************************************************************************)
SumOf(s) == FoldLeft(LAMBDA x, y : x + y, 0, s)

HighFeeRatio       == 2
AbsoluteHighFee    == 500000
ClassicFee         == 100
NoComparison       == <<>>

computeFeeBreakdown(classic, resource) ==
  LET base == IF classic >= 0 THEN classic ELSE 0
      res  == IF resource >= 0 THEN resource ELSE 0
  IN  [base |-> base, resource |-> res, total |-> base + res]

computeRecentFeeComparison(history) ==
  LET fees == SortSeq(SelectSeq(history, LAMBDA x : x >= 0), LAMBDA x, y : x < y)
      n    == Len(fees)
      mid  == n \div 2 + 1
  IN  IF n = 0 THEN NoComparison
      ELSE <<[count |-> n, average |-> SumOf(fees) \div n,
              median |-> IF n % 2 = 1 THEN fees[mid] ELSE (fees[mid - 1] + fees[mid]) \div 2]>>

\* Against the last fees if there are any worth comparing with.
getHighFeeWarning(total, comparison) ==
  IF comparison # NoComparison /\ comparison[1].average > 0
  THEN total > HighFeeRatio * comparison[1].average
  ELSE total > AbsoluteHighFee

PreviewSections(e) ==
  {"operation", "details", "scope", "fee", "breakdown"}
    \cup (IF e.usd THEN {"fiat"} ELSE {})
    \cup (IF e.recent # NoComparison THEN {"comparison"} ELSE {})
    \cup (IF e.warning THEN {"warning"} ELSE {})

Histories == {<<>>, <<0>>, <<300, 100>>}
Resources == {0, 900, 600000}
NoResult  == "none"

FeeUi(h, r) ==
  [history |-> h, resource |-> r, simulated |-> FALSE, usd |-> FALSE, recent |-> NoComparison, result |-> NoResult,
   shown |-> {}, stale |-> FALSE, raw |-> FALSE]

estimateTransactionFee == ui.result = NoResult /\ asks = {} /\ Goes(ui, Asking("getAccount", 0))

\* An account that cannot be read is simulated with sequence number zero.
AccountRead(a) == a.op = "getAccount" /\ Answered(a) /\ Goes(ui, Awaits(a, "simulateTransaction", 0))

Simulated(a) ==
  /\ a.op = "simulateTransaction" /\ Answered(a)
  /\ \/ Failed(a)  /\ Goes([ui EXCEPT !.result = "rejected"], Settled(a))
     \/ ~Failed(a) /\ Goes([ui EXCEPT !.simulated = TRUE], Awaits(a, "fetchXlmFiatRates", 0))

RatesRead(a) ==
  a.op = "fetchXlmFiatRates" /\ Answered(a) /\ Goes([ui EXCEPT !.usd = ~Failed(a)], Awaits(a, "fetchWalletTransactions", 0))

HistoryRead(a) ==
  /\ a.op = "fetchWalletTransactions" /\ Answered(a)
  /\ LET recent == IF Failed(a) THEN NoComparison ELSE computeRecentFeeComparison(ui.history)
         total  == computeFeeBreakdown(ClassicFee, ui.resource).total
     IN  Goes([ui EXCEPT !.result = "done", !.recent = recent,
                         !.shown = PreviewSections([usd |-> ui.usd, recent |-> recent,
                                                    warning |-> getHighFeeWarning(total, recent)])],
              Settled(a))

\* Half a minute later it is stale; what it was made of can be unfolded.
PreviewAges == ui.result = "done" /\ Sets([ui EXCEPT !.stale = TRUE])
PreviewRaw  == ui.result = "done" /\ Sets([ui EXCEPT !.raw = ~@])

FeeInit == focus = "fee" /\ store = <<>> /\ \E h \in Histories, r \in Resources : ui = FeeUi(h, r)

FeeNext ==
  /\ focus = "fee"
  /\ \/ estimateTransactionFee \/ PreviewAges \/ PreviewRaw
     \/ \E a \in asks : AccountRead(a) \/ Simulated(a) \/ RatesRead(a) \/ HistoryRead(a) \/ AnswerPlain(a)

-----------------------------------------------------------------------------
(***************************************************************************)
(* The editor: a toolbar with one button in the tab order, marks, and a    *)
(* dialog for links, which must point to the web.                          *)
(***************************************************************************)
ToolbarButtons == 6
Marks          == {"heading", "bold", "italic"}
ListKinds      == {"none", "bullet", "ordered"}

handleToolbarKeyDown ==
  \E i \in {(ui.index + 1) % ToolbarButtons, (ui.index - 1 + ToolbarButtons) % ToolbarButtons, 0, ToolbarButtons - 1} :
     Sets([ui EXCEPT !.index = i])

MarkToggled(m)  == Sets([ui EXCEPT !.marks = IF m \in @ THEN @ \ {m} ELSE @ \cup {m}])
ListToggled(k)  == k # "none" /\ Sets([ui EXCEPT !.list = IF @ = k THEN "none" ELSE k])

openLinkDialog  == Sets([ui EXCEPT !.dialog = TRUE, !.url = IF ui.link = "none" THEN "scheme" ELSE ui.link, !.bad = FALSE])
LinkTyped(url)  == ui.dialog /\ Sets([ui EXCEPT !.url = url, !.bad = FALSE])
LinkCancelled   == ui.dialog /\ Sets([ui EXCEPT !.dialog = FALSE])
unlink      == ui.dialog /\ ui.link # "none" /\ Sets([ui EXCEPT !.link = "none", !.dialog = FALSE])

applyLink ==
  /\ ui.dialog
  /\ \/ ui.url = ""                     /\ Sets([ui EXCEPT !.link = "none", !.dialog = FALSE])
     \/ ui.url = "file"          /\ Sets([ui EXCEPT !.bad = TRUE])
     \/ ui.url \in {"web", "scheme"} /\ Sets([ui EXCEPT !.link = ui.url, !.dialog = FALSE])

EditorReset == Sets([ui EXCEPT !.marks = {}, !.list = "none", !.link = "none"])

EditorInit ==
  /\ focus = "editor" /\ store = <<>>
  /\ ui = [index |-> 0, marks |-> {}, list |-> "none", link |-> "none", dialog |-> FALSE, url |-> "", bad |-> FALSE]

EditorNext ==
  /\ focus = "editor"
  /\ \/ handleToolbarKeyDown \/ openLinkDialog \/ LinkCancelled \/ unlink \/ applyLink \/ EditorReset
     \/ \E m \in Marks : MarkToggled(m)
     \/ \E k \in ListKinds : ListToggled(k)
     \/ \E url \in {"", "file", "web"} : LinkTyped(url)
=============================================================================

--------------------------- MODULE ClientProperties ---------------------------
(***************************************************************************)
(* What the pages and widgets of the web client must keep to, whatever     *)
(* order their requests are answered in, and what the layer below them     *)
(* must get done.  RpcClient states what that layer must never do.         *)
(***************************************************************************)
EXTENDS Client

On(page) == focus = page

(***************************************************************************)
(* What a visitor clicks once is asked for once.  Wherever a page shuts    *)
(* its buttons while a write is under way, a second one never starts: not  *)
(* by way of a confirmation dialog that stayed open, after a change of the *)
(* wallet, or while the answer of the first is still being handled.  (The  *)
(* dashboard's own buttons do not belong here: it remembers one job only.) *)
(***************************************************************************)
OneAtATime ==
  {<<"job", JobActions>>, <<"feed", {"acceptJob", "cancelJob"}>>, <<"bulk", {"cancelJob"}>>,
   <<"post", {"uploadToIpfs", "postJob", "getNativeBalance"}>>, <<"admin", {"withdrawFees"}>>,
   <<"admin", {"updateList", "setWhitelistMode"}>>, <<"wallet", {"connect"}>>, <<"wallet", {"switch"}>>}

WritesOneAtATime ==
  \A group \in OneAtATime :
    On(group[1]) => Cardinality({a \in asks : a.op \in group[2]}) <= 1

\* A page that watches its job and has left the "disconnected" state always
\* has a source of news: the event stream, or polling until it is back.
NeverBlind ==
  On("subscription") => (ui.mounted /\ ui.status # "disconnected" => ui.stream \/ ui.polling)

\* Once the section of similar jobs has stopped loading it shows the results
\* of the job, wallet and criterion chosen last, not of a slower search before.
SimilarMatchesChoice ==
  On("similar") => (~ui.busy => ui.shownFor = ui.key)

\* A swipe acts only if the card offered that action at the moment it acted,
\* though the gesture began earlier and a menu or a long press may intervene.
SwipeWasOffered ==
  On("swipe") => (ui.did \in {"accept", "cancel"} => ui.can[ui.did])

(***************************************************************************)
(* The fetcher of descriptions never exceeds its limit, never idles while  *)
(* hashes are waiting, and forgets none: what is marked as in flight is    *)
(* being fetched or queued.                                                *)
(***************************************************************************)
DescriptionsPumped ==
  On("descriptions") =>
    /\ Cardinality(ui.active) <= FetchLimit
    /\ ui.queue # <<>> => Cardinality(ui.active) = FetchLimit
    /\ ui.inFlight = ui.active \cup ToSet(ui.queue)

\* What a page shows of a stored list or setting is what is stored, once it
\* has read it: the network, the recent calls, the resume and notifications.
StoredIsShown ==
  /\ On("recent")  => (ui.mounted => ui.items = store.recent)
  /\ On("builder") => (ui.loaded => store = ui.resume)
  /\ On("notices") => (ui.loaded => store.list = ui.list /\ store.prefs = ui.prefs)
  /\ On("network") => (ui.hydrated /\ ~ui.behind => ui.network = getPersistedNetwork(store.network))

\* Only work the contract shows as completed can be highlighted in a profile,
\* and a profile without any is never called complete.
HighlightsEarned ==
  On("profile") =>
    \A p \in {ui.portfolio, ui.draft, store.portfolio} :
      /\ \A j \in p.highlighted : jobs[j] = "Completed"
      /\ isProfileComplete(p) => \E j \in JobIds : jobs[j] = "Completed"

\* The number of unread messages of a conversation is zero exactly if all the
\* other party wrote has been read, though it is counted and not derived.
UnreadAgrees ==
  On("messages") =>
    \A me, peer \in Users :
      (Unread(store, me, peer) = 0)
        <=> \A i \in DOMAIN store.thread[me][peer] :
              store.thread[me][peer][i].from = peer => store.thread[me][peer][i].read

\* No hour belongs to two confirmed meetings, in the stored list or that of
\* any tab, whichever tab's list was written last.
HoursOf(meeting) ==
  IF meeting.status = "confirmed" THEN meeting.selected[1]..(meeting.selected[2] - 1) ELSE {}

MeetingsDisjoint ==
  On("meetings") =>
    \A list \in {store} \cup {ui.list[t] : t \in Tabs} :
      \A i, k \in DOMAIN list : i # k => HoursOf(list[i]) \cap HoursOf(list[k]) = {}

\* While a wallet is connected and its owner has not accepted the terms, the
\* dialog that asks for it is there, however the wallet got connected.
ConsentAsked ==
  On("wallet") => (wallet # NoOne /\ ~store.legal => ui.modal)

\* Who disconnects stays disconnected after a reload, whatever session was
\* stored before; only connecting again changes that.
StaysDisconnected ==
  On("wallet") => (ui.left = "reloaded" => wallet = NoOne)

(***************************************************************************)
(* The file of an export has the newest transactions first, none of them   *)
(* twice, and all there were in the chosen days when it began -- or, if it *)
(* stopped at its limit, all down to its last row -- though new ones move  *)
(* the pages under it.                                                     *)
(***************************************************************************)
ExportComplete ==
  On("export") =>
    \A i \in DOMAIN ui.file :
      LET file == ui.file[i]
      IN  /\ \A k, l \in DOMAIN file.rows : k < l => file.rows[k] > file.rows[l]
          /\ \A t \in Owned(Client) \cap file.days \cap 1..file.began :
               t \in ToSet(file.rows) \/ (Len(file.rows) >= ExportCap /\ t < Last(file.rows))

-----------------------------------------------------------------------------
\* Liveness of the layer below the pages, under CallLayerGoesOn.
Busy == On("rpc") /\ \E c \in CallId : calls[c].phase \in Running

\* Calls come to an end: no retry, backoff or poll keeps one going for ever.
\* (Calls are bounded, so new ones cannot keep the layer busy either.)
CallsEnd == Busy ~> ~Busy

\* An open circuit closes again, unless the breaker is switched off meanwhile:
\* nobody has to call, the banner looks once a second.
CircuitRecovers == (On("rpc") /\ circuit.open) ~> (~circuit.open \/ ~config.breaker)
=============================================================================

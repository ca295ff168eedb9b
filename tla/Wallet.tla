------------------------------- MODULE Wallet -------------------------------
(***************************************************************************)
(* The connected wallet (lib/wallet-context.tsx) with its menu, the limit  *)
(* on attempts to connect, the terms of service and the choice of network. *)
(* The extension, which keeps an account, a permission and a network of    *)
(* its own, is the part `extension` of `ui`.                               *)
(***************************************************************************)
EXTENDS Browser

CONSTANTS
  CaptchaAfter,  \* failed attempts after which a captcha is asked for
  MaxFailures,   \* bound on the failures that are counted
  Networks       \* networks of the app and of the extension, "mainnet" among them

ASSUME WalletConstants ==
  /\ CaptchaAfter \in Nat /\ MaxFailures \in Nat /\ CaptchaAfter <= MaxFailures
  /\ "mainnet" \in Networks /\ Networks \cap {"unset", "none"} = {}

\* There is one request of a kind, except for what the two buttons ask for.
AskedOnce(op, arg) == asks \cup {Ask(1, op, arg)}

Buttons == {"menu", "drawer"}
Cold    == [b \in Buttons |-> FALSE]
NoData  == NoOne

-----------------------------------------------------------------------------
\* What survives a reload: the session, consent, and (per tab) the attempts.
clearWalletData(s)                == [s EXCEPT !.data = NoData]
persistLastAccount(s, who)        == [s EXCEPT !.last = who]
setAutoReconnectPreference(s, on) == [s EXCEPT !.auto = on]

Fault_clearPersistedWalletSession_last_only(s) == persistLastAccount(s, NoOne)

clearPersistedWalletSession(s) == setAutoReconnectPreference(persistLastAccount(s, NoOne), "false")

\* Sessions from before the preference existed stored only an address.
getAutoReconnectPreference(s) == s.auto = "true" \/ (s.auto = "unset" /\ s.last # NoOne)

recordConnectionSuccess(s) == [s EXCEPT !.failures = 0, !.wait = FALSE]
recordConnectionFailure(s) ==
  [s EXCEPT !.failures = IF @ < MaxFailures THEN @ + 1 ELSE @, !.wait = TRUE]

\* checkConnectionRateLimit: a captcha may be solved or not.
MayPass  == ~store.wait
MayBlock == store.wait \/ store.failures >= CaptchaAfter

hasAcceptedLegal == store.legal

\* setWallet, with the effect that asks a new wallet for consent.  The pages
\* keep things about it, next to those of another wallet that are still there.
SetsWallet(who, u, s) ==
  /\ wallet' = who /\ store' = [s EXCEPT !.data = IF @ = NoData THEN who ELSE @]
  /\ ui' = [u EXCEPT !.modal = @ \/ (who \notin {wallet, NoOne} /\ ~hasAcceptedLegal)]

-----------------------------------------------------------------------------
Fresh(s, extension, left) ==
  [extension |-> extension, modal |-> FALSE, connecting |-> Cold,
   switching |-> FALSE, left |-> left]

\* The session is restored when the visitor opted in.
Mounted(s) == IF getAutoReconnectPreference(s) THEN {Ask(1, "restore", NoOne)} ELSE {}

WalletInit ==
  /\ focus = "wallet" /\ wallet = NoOne
  /\ \E last \in {NoOne, Client}, auto \in {"true", "unset"}, who \in Users :
       /\ store = [last |-> last, auto |-> auto, data |-> NoData, legal |-> FALSE, failures |-> 0, wait |-> FALSE]
       /\ ui = Fresh(store, [account |-> who, allowed |-> last # NoOne], "no")
       /\ asks = Mounted(store)

WalletReloaded ==
  /\ focus = "wallet"
  /\ wallet' = NoOne /\ asks' = Mounted(store)
  /\ ui' = Fresh(store, ui.extension, IF ui.left = "no" THEN "no" ELSE "reloaded")
  /\ UNCHANGED <<focus, store, jobs>>

\* getPublicKey answers with the account of the extension, if it may.  A check
\* that fails is ignored, as one without an account is.
AccountAnswer(a) ==
  /\ a.op \in {"restore", "check"} /\ ~Answered(a)
  /\ Says(a, IF ui.extension.allowed THEN ui.extension.account ELSE NoOne, Nothing)
  /\ UNCHANGED <<focus, ui, store, wallet, jobs>>

\* The user changes the account in the extension, or revokes the permission.
ExtensionChanges ==
  /\ focus = "wallet"
  /\ \E who \in Users, allowed \in BOOLEAN : Sets([ui EXCEPT !.extension = [account |-> who, allowed |-> allowed]])

Restored(a) ==
  /\ a.op = "restore" /\ Answered(a)
  /\ \/ /\ a.answer # NoOne
        /\ SetsWallet(a.answer, ui, persistLastAccount(store, a.answer))
     \/ /\ a.answer = NoOne
        /\ store' = clearPersistedWalletSession(store) /\ UNCHANGED <<ui, wallet>>
  /\ asks' = Settled(a) /\ UNCHANGED <<focus, jobs>>

\* The watcher of the network takes over a new account too, and keeps the data.
WatcherFires ==
  /\ focus = "wallet" /\ wallet # NoOne /\ ui.extension.allowed /\ ui.extension.account # wallet
  /\ SetsWallet(ui.extension.account, ui, persistLastAccount(store, ui.extension.account))
  /\ UNCHANGED <<focus, jobs, asks>>

\* Every two seconds, and when the window gets the focus.  The answer is
\* compared with the wallet the check was started for.
checkAccountChange ==
  /\ focus = "wallet" /\ wallet # NoOne /\ Room /\ UnderWay("check") = {}
  /\ Goes(ui, AskedOnce("check", wallet))

AccountChecked(a) ==
  /\ a.op = "check" /\ Answered(a)
  /\ \/ /\ a.answer \notin {NoOne, a.arg}
        /\ SetsWallet(a.answer, ui, persistLastAccount(clearWalletData(store), a.answer))
     \/ /\ a.answer \in {NoOne, a.arg}
        /\ UNCHANGED <<ui, store, wallet>>
  /\ asks' = Settled(a) /\ UNCHANGED <<focus, jobs>>

-----------------------------------------------------------------------------
(***************************************************************************)
(* Two buttons connect, each with a flag of its own, and share one request *)
(* of access.  Whoever waits for it takes the answer, whatever happened.   *)
(***************************************************************************)
AccessRequests(b) == IF UnderWay("connect") = {} THEN AskedOnce("connect", b) ELSE asks

connectWallet(b) ==
  /\ focus = "wallet" /\ wallet = NoOne /\ ~ui.connecting[b] /\ MayPass
  /\ Room \/ UnderWay("connect") # {}
  /\ Goes([ui EXCEPT !.connecting[b] = TRUE], AccessRequests(b))

\* requestAccess: the user picks an account in the extension, or declines.
Allows(who, u) == [u EXCEPT !.extension = [account |-> who, allowed |-> TRUE]]

Connected(a) ==
  LET u == [ui EXCEPT !.connecting = Cold]
  IN  /\ a.op = "connect"
      /\ \/ store' = recordConnectionFailure(store) /\ ui' = u /\ UNCHANGED wallet
         \/ \E who \in Users :
              SetsWallet(who, [Allows(who, u) EXCEPT !.left = "no"],
                setAutoReconnectPreference(
                  persistLastAccount(recordConnectionSuccess(store), who), "true"))
      /\ asks' = Settled(a) /\ UNCHANGED <<focus, jobs>>

AttemptsForgiven == focus = "wallet" /\ Keeps([store EXCEPT !.wait = FALSE])

\* Being limited counts as one more failure here.
handleSwitchConfirm ==
  /\ focus = "wallet" /\ wallet # NoOne /\ ~ui.switching
  /\ \/ /\ MayPass /\ Room
        /\ Goes([ui EXCEPT !.switching = TRUE], AskedOnce("switch", wallet))
     \/ /\ MayBlock
        /\ Keeps(recordConnectionFailure(store))

\* Only an account other than the one switched from makes a difference.
Switched(a) ==
  LET u == [ui EXCEPT !.switching = FALSE]
  IN  /\ a.op = "switch"
      /\ \/ store' = recordConnectionFailure(store) /\ ui' = u /\ UNCHANGED wallet
         \/ /\ store' = recordConnectionSuccess(store)
            /\ ui' = Allows(a.arg, u) /\ UNCHANGED wallet
         \/ \E who \in Users \ {a.arg} :
              SetsWallet(who, [Allows(who, u) EXCEPT !.left = "no"],
                setAutoReconnectPreference(persistLastAccount(
                  clearWalletData(recordConnectionSuccess(store)), who), "true"))
      /\ asks' = Settled(a) /\ UNCHANGED <<focus, jobs>>

\* `left` remembers, for the properties, that the visitor disconnected.
disconnectWallet ==
  /\ focus = "wallet" /\ wallet # NoOne
  /\ wallet' = NoOne
  /\ ui' = [ui EXCEPT !.left = "left"]
  /\ store' = clearPersistedWalletSession(clearWalletData(store))
  /\ UNCHANGED <<focus, jobs, asks>>

-----------------------------------------------------------------------------
\* The terms of service: accepting is remembered, declining disconnects and
\* leaves the stored session alone.
acceptLegal ==
  /\ focus = "wallet" /\ ui.modal
  /\ store' = [store EXCEPT !.legal = TRUE] /\ ui' = [ui EXCEPT !.modal = FALSE]
  /\ UNCHANGED <<focus, wallet, jobs, asks>>

Fault_declineLegal_stays == focus = "wallet" /\ ui.modal /\ Sets([ui EXCEPT !.modal = FALSE])

declineLegal ==
  /\ focus = "wallet" /\ ui.modal
  /\ wallet' = NoOne /\ ui' = [ui EXCEPT !.modal = FALSE]
  /\ UNCHANGED <<focus, store, jobs, asks>>

WalletUser ==
  /\ focus = "wallet"
  /\ \/ WalletReloaded \/ ExtensionChanges \/ WatcherFires \/ checkAccountChange \/ AttemptsForgiven
     \/ handleSwitchConfirm \/ disconnectWallet \/ acceptLegal \/ declineLegal
     \/ \E b \in Buttons : connectWallet(b)

WalletStep(a) ==
  focus = "wallet" /\ (AccountAnswer(a) \/ Restored(a) \/ AccountChecked(a) \/ Connected(a) \/ Switched(a))

-----------------------------------------------------------------------------
(***************************************************************************)
(* The network.  Every call reads the stored one, the pages show the one   *)
(* of their provider, and the tab is reloaded when it is changed.          *)
(***************************************************************************)
getDefaultNetwork         == "testnet"
getPersistedNetwork(kept) == IF kept = "unset" THEN getDefaultNetwork ELSE kept

Fault_persistNetwork_not(n) == store.network
persistNetwork(n)           == n

NetworkUi(extension) ==
  [network |-> getDefaultNetwork, hydrated |-> FALSE, picker |-> "closed",
   walletNetwork |-> "none", extension |-> extension, behind |-> FALSE]

NetworkInit ==
  /\ focus = "network"
  /\ \E kept \in Networks \cup {"unset"}, n \in Networks : store = [network |-> kept] /\ ui = NetworkUi(n)

Hydrated ==
  Sets([ui EXCEPT !.network = getPersistedNetwork(store.network), !.hydrated = TRUE, !.behind = FALSE])

\* setNetwork of the provider stores too, once it has read what was stored.
setNetwork(n) == [ui EXCEPT !.network = IF ui.hydrated THEN n ELSE @]
Kept(n)       == IF ui.hydrated THEN persistNetwork(n) ELSE store.network

\* What is under way when the window is told to reload may still be seen.
Picks(n) ==
  /\ ui' = [setNetwork(n) EXCEPT !.picker = "reloading"]
  /\ store' = [network |-> persistNetwork(n)]
  /\ UNCHANGED <<focus, wallet, jobs, asks>>

NetworkReloads == ui.picker = "reloading" /\ Sets(NetworkUi(ui.extension))

PickerClicked == \/ ui.picker = "closed" /\ Sets([ui EXCEPT !.picker = "open"])
                 \/ ui.picker \in {"open", "confirm"} /\ Sets([ui EXCEPT !.picker = "closed"])

handleSelect(n) ==
  /\ ui.picker = "open"
  /\ \/ n = ui.network /\ Sets([ui EXCEPT !.picker = "closed"])
     \/ n # ui.network /\ n = "mainnet" /\ Sets([ui EXCEPT !.picker = "confirm"])
     \/ n \notin {ui.network, "mainnet"} /\ Picks(n)

handleConfirmMainnet == ui.picker = "confirm" /\ Picks("mainnet")

ExtensionNetwork(n) == Sets([ui EXCEPT !.extension = n])
NetworkReported     == Sets([ui EXCEPT !.walletNetwork = ui.extension])

\* The warning about two networks takes over the wallet's without a question.
ShowsMismatch == ui.walletNetwork \notin {"none", ui.network}

handleSwitch ==
  /\ ShowsMismatch /\ ui.picker # "reloading"
  /\ ui' = [setNetwork(ui.walletNetwork) EXCEPT !.picker = "reloading"]
  /\ store' = [network |-> Kept(ui.walletNetwork)]
  /\ UNCHANGED <<focus, wallet, jobs, asks>>

OtherTabPicks(n) ==
  /\ store.network # n
  /\ store' = [network |-> n] /\ ui' = [ui EXCEPT !.behind = TRUE]
  /\ UNCHANGED <<focus, wallet, jobs, asks>>

NetworkNext ==
  /\ focus = "network"
  /\ \/ ~ui.hydrated /\ Hydrated
     \/ NetworkReloads \/ PickerClicked \/ handleConfirmMainnet \/ NetworkReported \/ handleSwitch
     \/ \E n \in Networks : handleSelect(n) \/ ExtensionNetwork(n) \/ OtherTabPicks(n)
=============================================================================

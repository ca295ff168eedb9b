-------------------------------- MODULE Talk --------------------------------
(***************************************************************************)
(* What two parties say to each other: messages (lib/messaging.ts and its  *)
(* pages), meetings (lib/meetings-context.tsx and its page) and the        *)
(* notifications of this browser.  All of it lives in the storage that the *)
(* tabs of one browser share; nothing is sent anywhere.                    *)
(***************************************************************************)
EXTENDS Browser

CONSTANTS
  MaxMessages,   \* messages a thread of the model holds at most
  MaxMeetings,   \* meetings proposed at most
  Slots,         \* time slots <<start, end>> of the forms
  MaxNotices,    \* notifications kept
  Events         \* what there are notifications of

ASSUME TalkConstants == Slots \subseteq Nat \X Nat

-----------------------------------------------------------------------------
(***************************************************************************)
(* Messages.  store.thread[me][peer] is the copy of the thread that `me`   *)
(* has, store.convos[me][peer] its entry in the list of conversations: the *)
(* number of unread messages, or none.                                     *)
(***************************************************************************)
NoConvo == -1
Message(from) == [from |-> from, read |-> FALSE]

MessagesUi(peer) == [peer |-> peer, inbox |-> {}, badge |-> 0, page |-> "inbox"]

MessagesInit ==
  /\ focus = "messages"
  /\ \E peer \in Users : ui = MessagesUi(peer)
  /\ store = [thread |-> [me \in Users |-> [peer \in Users |-> <<>>]],
              convos |-> [me \in Users |-> [peer \in Users |-> NoConvo]]]

upsertConversationMeta(kept, me, peer, delta) ==
  [kept EXCEPT !.convos[me][peer] = (IF @ = NoConvo THEN 0 ELSE @) + delta]

Delivered(kept, me, peer, from, delta) ==
  upsertConversationMeta([kept EXCEPT !.thread[me][peer] = Append(@, Message(from))], me, peer, delta)

\* The sender's copy, then the recipient's, which counts one more to read.
sendMessage(from, to) == Delivered(Delivered(store, from, to, from, 0), to, from, from, 1)

\* Fault: reading a thread forgets about the list of conversations.
Fault_markThreadAsRead_thread_only(kept, me, peer) ==
  [kept EXCEPT !.thread[me][peer] = [i \in DOMAIN @ |-> [@[i] EXCEPT !.read = @ \/ kept.thread[me][peer][i].from = peer]]]

markThreadAsRead(kept, me, peer) ==
  LET thread == kept.thread[me][peer]
      read   == [i \in DOMAIN thread |-> [thread[i] EXCEPT !.read = @ \/ thread[i].from = peer]]
  IN  IF read = thread THEN kept
      ELSE [kept EXCEPT !.thread[me][peer] = read,
                        !.convos[me][peer] = IF @ = NoConvo THEN @ ELSE 0]

Unread(kept, me, peer) == IF kept.convos[me][peer] = NoConvo THEN 0 ELSE kept.convos[me][peer]
countTotalUnread(kept, me) ==
  IF me = NoOne THEN 0 ELSE Unread(kept, me, Client) + Unread(kept, me, Worker)

loadConversations(kept, me) == {peer \in Users : kept.convos[me][peer] # NoConvo}

\* What loadMessages does after a change of the storage, and every 3 seconds.
\* Deleting and reporting a message flags it in one's own copy and ends here too.
ReadsThread(kept) ==
  LET after == markThreadAsRead(kept, wallet, ui.peer)
  IN  /\ store' = after
      /\ ui' = [ui EXCEPT !.badge = countTotalUnread(after, wallet)]
      /\ UNCHANGED <<focus, wallet, jobs, asks>>

RoomFor(me, peer) == Len(store.thread[me][peer]) < MaxMessages /\ Len(store.thread[peer][me]) < MaxMessages

InThread == wallet # NoOne /\ ui.page = "thread"
loadMessages == InThread /\ ReadsThread(store)

handleSend ==
  /\ InThread /\ RoomFor(wallet, ui.peer)
  /\ ReadsThread(sendMessage(wallet, ui.peer))

\* The list of conversations, which reloads when it is pulled or comes back.
ListLoads ==
  /\ wallet # NoOne /\ ui.page = "inbox"
  /\ Sets([ui EXCEPT !.inbox = loadConversations(store, wallet), !.badge = countTotalUnread(store, wallet)])

handleDelete ==
  /\ wallet # NoOne /\ ui.page = "inbox" /\ ui.peer \in ui.inbox
  /\ LET kept == [store EXCEPT !.thread[wallet][ui.peer] = <<>>, !.convos[wallet][ui.peer] = NoConvo]
     IN  /\ store' = kept
         /\ ui' = [ui EXCEPT !.inbox = loadConversations(kept, wallet), !.badge = countTotalUnread(kept, wallet)]
  /\ UNCHANGED <<focus, wallet, jobs, asks>>

PageOpened(page) ==
  /\ ui.page # page
  /\ Sets([ui EXCEPT !.page = page,
                     !.inbox = IF page = "inbox" /\ wallet # NoOne THEN loadConversations(store, wallet) ELSE {}])

refreshUnread == Sets([ui EXCEPT !.badge = countTotalUnread(store, wallet)])

\* The peer writes in another tab of this browser.
OtherTabSends ==
  /\ wallet # NoOne /\ RoomFor(wallet, ui.peer) /\ ui.peer # wallet
  /\ Keeps(sendMessage(ui.peer, wallet))

MessagesNext ==
  /\ focus = "messages"
  /\ \/ loadMessages \/ handleSend \/ ListLoads \/ handleDelete \/ refreshUnread \/ OtherTabSends
     \/ \E page \in {"inbox", "thread"} : PageOpened(page)
     \/ \E who \in Users \cup {NoOne} :
          WalletChanges(who, [ui EXCEPT !.badge = countTotalUnread(store, who), !.inbox = {}])

-----------------------------------------------------------------------------
(***************************************************************************)
(* The typing flag: written at the first key, taken back 3 seconds after   *)
(* the last one, and too old for the other tab after 4.                    *)
(***************************************************************************)
TypingInit ==
  /\ focus = "typing" /\ store = "none"
  /\ ui = [isTyping |-> FALSE, peerIsTyping |-> FALSE, open |-> TRUE]

handleBodyChange ==
  /\ ui.open /\ ui' = [ui EXCEPT !.isTyping = TRUE]
  /\ store' = IF ui.isTyping THEN store ELSE "fresh"
  /\ UNCHANGED <<focus, wallet, jobs, asks>>

TypingStops ==
  /\ ui.open /\ ui.isTyping
  /\ ui' = [ui EXCEPT !.isTyping = FALSE] /\ store' = "none"
  /\ UNCHANGED <<focus, wallet, jobs, asks>>

TypingAges == store = "fresh" /\ Keeps("old")
checkTyping == Sets([ui EXCEPT !.peerIsTyping = store = "fresh"])

clearTypingStatus ==
  /\ ui.open /\ ui' = [ui EXCEPT !.open = FALSE, !.isTyping = FALSE] /\ store' = "none"
  /\ UNCHANGED <<focus, wallet, jobs, asks>>

TypingNext ==
  focus = "typing" /\ (handleBodyChange \/ TypingStops \/ TypingAges \/ checkTyping \/ clearTypingStatus)

-----------------------------------------------------------------------------
(***************************************************************************)
(* Meetings.  Every tab reads the stored list once and keeps its own from  *)
(* then on; each change writes the whole list of the tab that made it.     *)
(***************************************************************************)
Tabs == {"this", "other"}
Meeting(slot) == [proposed |-> slot, selected |-> <<>>, status |-> "pending"]

Fault_hasConflict_unconfirmed(slot, list, i) ==
  \E k \in DOMAIN list \ {i} : list[k].status = "pending" /\ slot = list[k].proposed

hasConflict(slot, list, i) ==
  \E k \in DOMAIN list \ {i} :
    /\ list[k].status = "confirmed" /\ list[k].selected # <<>>
    /\ slot[1] < list[k].selected[2] /\ slot[2] > list[k].selected[1]

validateSlot(slot) == slot[1] < slot[2] /\ ~ui.late

MeetingsInit ==
  /\ focus = "meetings" /\ store = <<>>
  /\ ui = [list |-> [t \in Tabs |-> <<>>], late |-> FALSE]

persistList(t, list) ==
  /\ ui' = [ui EXCEPT !.list[t] = list] /\ store' = list
  /\ UNCHANGED <<focus, wallet, jobs, asks>>

\* The form of the page checks the slot; the one on a job's page does not.
\* rescheduleProposal is handed to a card that never calls it.
proposeMeeting(t, slot, checked) ==
  /\ wallet # NoOne /\ Len(ui.list[t]) < MaxMeetings
  /\ checked => validateSlot(slot)
  /\ persistList(t, Append(ui.list[t], Meeting(slot)))

confirmSlot(t, i) ==
  /\ i \in DOMAIN ui.list[t] /\ ui.list[t][i].status = "pending"
  /\ LET slot == ui.list[t][i].proposed
     IN  /\ ~hasConflict(slot, ui.list[t], i)
         /\ persistList(t, [ui.list[t] EXCEPT ![i].selected = slot, ![i].status = "confirmed"])

cancelMeeting(t, i) ==
  /\ i \in DOMAIN ui.list[t] /\ ui.list[t][i].status \in {"pending", "confirmed"}
  /\ persistList(t, [ui.list[t] EXCEPT ![i].status = "cancelled"])

completeMeeting(t, i) ==
  /\ i \in DOMAIN ui.list[t] /\ ui.list[t][i].status = "confirmed" /\ ui.late
  /\ persistList(t, [ui.list[t] EXCEPT ![i].status = "completed"])

TabReloads(t) == Sets([ui EXCEPT !.list[t] = store])
SlotsPass     == Sets([ui EXCEPT !.late = TRUE])

MeetingsNext ==
  /\ focus = "meetings"
  /\ \/ SlotsPass
     \/ \E t \in Tabs :
          \/ TabReloads(t)
          \/ \E slot \in Slots, checked \in BOOLEAN : proposeMeeting(t, slot, checked)
          \/ \E i \in 1..MaxMeetings :
               confirmSlot(t, i) \/ cancelMeeting(t, i) \/ completeMeeting(t, i)

-----------------------------------------------------------------------------
(***************************************************************************)
(* Notifications, kept by effects that run after every change.  Nothing    *)
(* registers a job to be watched, so all of them come from this browser.   *)
(***************************************************************************)
NoticesInit ==
  /\ focus = "notices"
  /\ \E old \in {<<>>, <<[event |-> CHOOSE e \in Events : TRUE, seen |-> FALSE]>>} :
       /\ store = [list |-> old, prefs |-> Events]
       /\ ui = [list |-> <<>>, prefs |-> Events, loaded |-> FALSE, open |-> FALSE, settings |-> FALSE, focused |-> 0]

NoticesChange(list, prefs) ==
  /\ ui.loaded
  /\ ui' = [ui EXCEPT !.list = list, !.prefs = prefs] /\ store' = [list |-> list, prefs |-> prefs]
  /\ UNCHANGED <<focus, wallet, jobs, asks>>

NoticesLoaded == ~ui.loaded /\ Sets([ui EXCEPT !.list = store.list, !.prefs = store.prefs, !.loaded = TRUE])

addNotification(event) ==
  /\ event \in ui.prefs
  /\ LET all == <<[event |-> event, seen |-> FALSE]>> \o ui.list
     IN  NoticesChange(SubSeq(all, 1, IF Len(all) > MaxNotices THEN MaxNotices ELSE Len(all)), ui.prefs)

markAsSeen(i)   == ui.open /\ i \in DOMAIN ui.list /\ NoticesChange([ui.list EXCEPT ![i].seen = TRUE], ui.prefs)
markAllAsSeen   == ui.open /\ NoticesChange([i \in DOMAIN ui.list |-> [ui.list[i] EXCEPT !.seen = TRUE]], ui.prefs)
clearNotifications == ui.open /\ ~ui.settings /\ NoticesChange(<<>>, ui.prefs)
setPreference(event) ==
  /\ ui.open /\ ui.settings
  /\ NoticesChange(ui.list, IF event \in ui.prefs THEN ui.prefs \ {event} ELSE ui.prefs \cup {event})

handleListKeyDown(step) ==
  /\ ui.open /\ ~ui.settings /\ ui.list # <<>>
  /\ Sets([ui EXCEPT !.focused = ((@ - 1 + step + Len(ui.list)) % Len(ui.list)) + 1])

InboxToggled ==
  \/ Sets([ui EXCEPT !.open = ~@, !.settings = @ /\ ~ui.open, !.focused = IF ui.open THEN 0 ELSE @])
  \/ ui.open /\ Sets([ui EXCEPT !.settings = ~@])

NoticesNext ==
  /\ focus = "notices"
  /\ \/ NoticesLoaded \/ markAllAsSeen \/ clearNotifications \/ InboxToggled
     \/ \E event \in Events : addNotification(event) \/ setPreference(event)
     \/ \E i \in 1..MaxNotices : markAsSeen(i)
     \/ \E step \in {-1, 1} : handleListKeyDown(step)
=============================================================================

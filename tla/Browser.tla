------------------------------- MODULE Browser -------------------------------
(***************************************************************************)
(* What the pages of the web client have in common: a connected wallet,    *)
(* the jobs of the contract, which other people move while a page is open, *)
(* and requests that are answered late, in any order, or not as hoped.     *)
(*                                                                         *)
(* The state of a mounted page or widget is the record `ui`, the part of   *)
(* localStorage and sessionStorage it uses the record `store`.  Pages and  *)
(* widgets that share nothing are explored one at a time: `focus` names    *)
(* the one at hand, and Init picks it.                                     *)
(***************************************************************************)
EXTENDS Integers, Sequences, FiniteSets, SequencesExt

CONSTANTS
  NoOne,         \* nobody is connected
  Client,        \* the address that posted the jobs
  Worker,        \* the address that takes them
  JobIds,        \* jobs of the contract, numbered from 1
  MaxAsks,       \* requests a page has under way at the same time at most
  ElsewhereOps   \* contract operations other devices make while a page is open

Users == {Client, Worker}

ASSUME BrowserConstants ==
  /\ Client # Worker /\ NoOne \notin Users
  /\ IsFiniteSet(JobIds) /\ JobIds # {} /\ JobIds \subseteq Nat \ {0}
  /\ MaxAsks \in Nat \ {0}

\* The job of a page that shows one job.
ThisJob == CHOOSE j \in JobIds : \A k \in JobIds : j <= k

VARIABLES
  focus,    \* the page or widget at hand
  ui,       \* its state
  store,    \* what it keeps in the browser's storage
  wallet,   \* the connected address
  jobs,     \* status of every job of the contract
  asks      \* requests under way

pageVars == <<focus, ui, store, wallet, jobs, asks>>

Nothing == [j \in JobIds |-> "none"]

-----------------------------------------------------------------------------
\* What a call of lib/contract.ts does to a job: who may, from where, to where.
Move(who, from, to) == [who |-> who, from |-> from, to |-> to]

acceptJob           == Move({Worker}, {"Open"}, "InProgress")
submitWork          == Move({Worker}, {"InProgress"}, "SubmittedForReview")
approveWork         == Move({Client}, {"SubmittedForReview"}, "Completed")
cancelJob           == Move({Client}, {"Open"}, "Cancelled")
freelancerCancelJob == Move({Worker}, {"InProgress"}, "Cancelled")
enforceDeadline     == Move({Client}, {"InProgress"}, "Cancelled")
raiseDispute        == Move(Users, {"InProgress", "SubmittedForReview"}, "Disputed")
resolveDispute      == Move(Users, {"Disputed"}, "Completed")

Moves ==
  [acceptJob |-> acceptJob, submitWork |-> submitWork, approveWork |-> approveWork,
   cancelJob |-> cancelJob, freelancerCancelJob |-> freelancerCancelJob,
   enforceDeadline |-> enforceDeadline, raiseDispute |-> raiseDispute, resolveDispute |-> resolveDispute]

Accepted(op, who, j) ==
  op \in DOMAIN Moves => who \in Moves[op].who /\ jobs[j] \in Moves[op].from

After(op, j) == IF op \in DOMAIN Moves THEN [jobs EXCEPT ![j] = Moves[op].to] ELSE jobs

-----------------------------------------------------------------------------
\* A request: which function was called, with what, and the answer on its way.
Ask(id, op, arg) == [id |-> id, op |-> op, arg |-> arg, answer |-> "none", seen |-> Nothing]
Answered(a)      == a.answer # "none"
Failed(a)        == a.answer = "failed"
FreeId(as)       == CHOOSE n \in 1..(2 * MaxAsks) : \A a \in as : a.id # n
Asking(op, arg)  == asks \cup {Ask(FreeId(asks), op, arg)}
Room             == Cardinality(asks) < MaxAsks
UnderWay(op)     == {a \in asks : a.op = op}

\* The function awaits another one next: its request takes the place of `a`.
Awaits(a, op, arg) == (asks \ {a}) \cup {Ask(a.id, op, arg)}
Settled(a)         == asks \ {a}

Says(a, answer, seen) == asks' = (asks \ {a}) \cup {[a EXCEPT !.answer = answer, !.seen = seen]}

\* An answer is a picture of the contract when it was given, or an error.
AnswerRead(a) ==
  /\ ~Answered(a)
  /\ Says(a, "ok", jobs) \/ Says(a, "failed", Nothing)
  /\ UNCHANGED <<focus, ui, store, wallet, jobs>>

\* A write of `who` on job j is applied or not.  Neither answer tells which: a
\* failed or unconfirmed transaction resolves the call too, and the answer of
\* an applied one may get lost (RpcClient has the details).
AnswerWrite(a, op, who, j) ==
  /\ ~Answered(a)
  /\ \/ Accepted(op, who, j) /\ jobs' = After(op, j)
     \/ jobs' = jobs
  /\ \E answer \in {"ok", "failed"} : Says(a, answer, Nothing)
  /\ UNCHANGED <<focus, ui, store, wallet>>

\* A request that involves no job: it goes well or fails.
AnswerPlain(a) ==
  /\ ~Answered(a)
  /\ \E answer \in {"ok", "failed"} : Says(a, answer, Nothing)
  /\ UNCHANGED <<focus, ui, store, wallet, jobs>>

\* Somebody moves one of the jobs a page watches, from another device.
Elsewhere(watched) ==
  /\ \E op \in ElsewhereOps \cap DOMAIN Moves, who \in Users, j \in watched :
       Accepted(op, who, j) /\ jobs' = After(op, j)
  /\ UNCHANGED <<focus, ui, store, wallet, asks>>

\* The wallet is connected, switched or disconnected from the menu bar.  The
\* effects of a page on this are its own; `wui` is its state after them.
WalletChanges(who, wui) ==
  /\ wallet # who
  /\ wallet' = who /\ ui' = wui
  /\ UNCHANGED <<focus, store, jobs, asks>>

\* The page does something that needs no answer.
Sets(new) == ui # new /\ ui' = new /\ UNCHANGED <<focus, store, wallet, jobs, asks>>

\* The page goes on with a request: to its next state and what it awaits then.
Goes(new, awaited) == ui' = new /\ asks' = awaited /\ UNCHANGED <<focus, store, wallet, jobs>>
Keeps(new)         == store # new /\ store' = new /\ UNCHANGED <<focus, ui, wallet, jobs, asks>>

\* The jobs in a list of the party `who`, as the contract showed them; the
\* worker's are those somebody has taken.
ListFor(who, seen) ==
  [j \in JobIds |-> IF who = Client \/ (who = Worker /\ seen[j] # "Open") THEN seen[j] ELSE "none"]
=============================================================================

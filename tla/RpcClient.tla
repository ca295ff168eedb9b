------------------------------ MODULE RpcClient ------------------------------
(***************************************************************************)
(* How the browser client calls the contract (frontend/lib/stellar.ts) and *)
(* survives a bad network (frontend/lib/contract-retry.ts): attempts with  *)
(* backoff, a circuit breaker and a queue of failed writes, both kept in   *)
(* localStorage, and the banner that shows them.                           *)
(*                                                                         *)
(* An intent is something a user asked for once, a method and arguments;   *)
(* a call is one run of callContract for it; an attempt is one transaction *)
(* of that call.                                                           *)
(***************************************************************************)
EXTENDS Lists, FiniteSets

CONSTANTS
  Methods,       \* methods of the contract
  Reads,         \* those that are only simulated
  Repeatable,    \* those the contract accepts a second time, arguments and all
  MaxCalls,      \* calls made at most, retries from the queue included
  MaxAtOnce,     \* calls that run at the same time at most
  Sweeps,        \* clicks on "Retry queued"
  MaxRetries,    \* maxRetries of the configuration
  Threshold,     \* circuitBreakerThreshold
  Cooldown,      \* circuitBreakerCooldownMs, in ticks
  QueueSize,     \* entries the queue keeps
  Patches        \* configurations the settings page may store

CallId == 1..MaxCalls

\* Arguments are told apart by the call that came with them first.
Intents   == Methods \X CallId
Writes    == (Methods \ Reads) \X CallId
Method(i) == i[1]

ASSUME RpcConstants ==
  /\ IsFiniteSet(Methods) /\ Reads \subseteq Methods /\ Repeatable \subseteq Methods \ Reads
  /\ MaxCalls \in Nat /\ MaxAtOnce \in Nat /\ MaxRetries \in Nat \ {0} /\ Threshold \in Nat \ {0}
  /\ Cooldown \in Nat \ {0} /\ QueueSize \in Nat \ {0}
  /\ Patches \subseteq [breaker : BOOLEAN, queueing : BOOLEAN]

VARIABLES
  config,      \* the retry configuration
  circuit,     \* consecutive failures, whether open, ticks left of the cooldown
  queue,       \* failed writes, newest first
  calls,       \* progress of every call
  sweeps,      \* entries each sweep still has to go through, and its call
  banner,      \* what the retry banner shows
  ledger,      \* fate of the transaction of each attempt of each call
  applied,     \* times each intent took effect
  unheard,     \* calls that gave up on a transaction without its verdict
  clock        \* milliseconds, as far as ids tell them apart

callVars == <<config, circuit, queue, calls, sweeps, banner>>
rpcVars  == <<callVars, ledger, applied, unheard, clock>>

Ended    == {"success", "unconfirmed", "errorResult", "failed", "exhausted", "refused", "abandoned"}
Running  == {"attempt", "submit", "polling", "backoff"}
NoCall   == [intent |-> <<"none", 0>>, phase |-> "unused", attempt |-> 0]
NoSweep  == [left |-> <<>>, call |-> 0]
ClosedCircuit == [failures |-> 0, open |-> FALSE, left |-> 0]

-----------------------------------------------------------------------------
\* The cooldown is over: whoever asks next closes the circuit.
isCircuitOpen == config.breaker /\ circuit.open /\ circuit.left > 0

Fault_CheckedCircuit_stays_open == circuit

CheckedCircuit ==
  IF config.breaker /\ circuit.open /\ circuit.left = 0 THEN ClosedCircuit ELSE circuit

\* An open circuit is opened anew, with a full cooldown.
recordCircuitFailure ==
  LET failures == IF circuit.open THEN Threshold ELSE circuit.failures + 1
  IN  IF ~config.breaker THEN circuit
      ELSE IF failures >= Threshold
           THEN [failures |-> Threshold, open |-> TRUE, left |-> Cooldown]
           ELSE [failures |-> failures, open |-> FALSE, left |-> 0]

(***************************************************************************)
(* The id of an entry is made of the millisecond and the method.  A new    *)
(* entry replaces the one of the same id, which may be another write: the  *)
(* arguments are no part of it.  The oldest falls out of a full queue.     *)
(***************************************************************************)
Id(intent) == <<clock, Method(intent)>>

WithoutId(id) == Without(queue, {q \in ToSet(queue) : q.id = id})

enqueueFailedWrite(c, intent) ==
  LET entry == [call |-> c, intent |-> intent, id |-> Id(intent)]
      all   == <<entry>> \o WithoutId(entry.id)
  IN  SubSeq(all, 1, IF Len(all) < QueueSize THEN Len(all) ELSE QueueSize)

removeQueuedWrite(entry) == WithoutId(entry.id)

-----------------------------------------------------------------------------
(***************************************************************************)
(* withContractRetry.  An error whose message names the network, a timeout *)
(* or a limit is retried after a backoff; so is a wallet on another        *)
(* network, whose message says so.  The circuit is looked at when a call   *)
(* starts and not between attempts.  Exhausted writes are queued.          *)
(***************************************************************************)
\* Calls are numbered in the order in which they begin.
NextCall(c) ==
  /\ \A b \in CallId : calls[b].phase = "unused" <=> b >= c
  /\ Cardinality({b \in CallId : calls[b].phase \in Running}) < MaxAtOnce

BeginWith(c, intent, onRefusal) ==
  /\ NextCall(c)
  /\ circuit' = CheckedCircuit
  /\ \/ /\ isCircuitOpen
        /\ calls' = [calls EXCEPT ![c] = [intent |-> intent, phase |-> onRefusal, attempt |-> 0]]
     \/ /\ ~isCircuitOpen
        /\ calls' = [calls EXCEPT ![c] = [intent |-> intent, phase |-> "attempt", attempt |-> 1]]

Begin(c, method) ==
  /\ BeginWith(c, <<method, c>>, "refused")
  /\ UNCHANGED <<config, queue, sweeps, banner, ledger, applied, unheard, clock>>

recordCircuitSuccess == ClosedCircuit

Ends(c, phase) == [calls EXCEPT ![c].phase = phase, ![c].attempt = 0]

\* The operation of the call returns.
Returns(c, phase) ==
  /\ calls' = Ends(c, phase)
  /\ circuit' = recordCircuitSuccess
  /\ UNCHANGED <<config, queue, sweeps, banner>>

\* An error that is not retryable is thrown at once, past the circuit.
Throws(c) ==
  /\ calls' = Ends(c, "failed")
  /\ UNCHANGED <<config, circuit, queue, sweeps, banner>>

Backoff(c) ==
  /\ calls[c].attempt < MaxRetries
  /\ calls' = [calls EXCEPT ![c].phase = "backoff"]
  /\ banner' = "retrying"
  /\ UNCHANGED <<config, circuit, queue, sweeps>>

Exhausted(c) ==
  LET queued == calls[c].intent \in Writes /\ config.queueing
  IN  /\ calls[c].attempt = MaxRetries
      /\ calls' = Ends(c, "exhausted")
      /\ circuit' = recordCircuitFailure
      /\ queue' = IF queued THEN enqueueFailedWrite(c, calls[c].intent) ELSE queue
      /\ banner' = "exhausted"
      /\ UNCHANGED <<config, sweeps>>

NetworkError(c) == Backoff(c) \/ Exhausted(c)

Fault_Wake_counts_one_less(c) ==
  /\ calls[c].phase = "backoff" /\ calls[c].attempt < MaxRetries - 1
  /\ calls' = [calls EXCEPT ![c] = [intent |-> @.intent, phase |-> "attempt", attempt |-> @.attempt + 1]]
  /\ UNCHANGED <<config, circuit, queue, sweeps, banner, ledger, applied, unheard, clock>>

Wake(c) ==
  /\ calls[c].phase = "backoff"
  /\ calls' = [calls EXCEPT ![c] = [intent |-> @.intent, phase |-> "attempt", attempt |-> @.attempt + 1]]
  /\ UNCHANGED <<config, circuit, queue, sweeps, banner, ledger, applied, unheard, clock>>

-----------------------------------------------------------------------------
\* simulateReadContract: a failed simulation throws, an empty one returns.
Read(c) ==
  /\ calls[c].phase = "attempt" /\ Method(calls[c].intent) \in Reads
  /\ Returns(c, "success") \/ Returns(c, "errorResult") \/ Throws(c) \/ NetworkError(c)
  /\ UNCHANGED <<ledger, applied, unheard, clock>>

\* submitWriteContract up to the signature: the guards, the account, the
\* simulation against the current state of the contract.
Prepare(c) ==
  LET intent == calls[c].intent
  IN  /\ calls[c].phase = "attempt" /\ intent \in Writes
      /\ \/ /\ Method(intent) \in Repeatable \/ applied[intent] = 0
            /\ calls' = [calls EXCEPT ![c].phase = "submit"]
            /\ UNCHANGED <<config, circuit, queue, sweeps, banner>>
         \/ Throws(c)
         \/ NetworkError(c)
      /\ UNCHANGED <<ledger, applied, unheard, clock>>

\* Signing, verifying and sending.  The network may take the transaction and
\* the answer still get lost.  Any status other than ERROR and PENDING, such
\* as TRY_AGAIN_LATER, is returned as a success.
Submit(c) ==
  LET taken == [ledger EXCEPT ![c] = Append(@, "pending")]
  IN  /\ calls[c].phase = "submit"
      /\ \/ /\ calls' = [calls EXCEPT ![c].phase = "polling"]
            /\ ledger' = taken
            /\ UNCHANGED <<config, circuit, queue, sweeps, banner, unheard>>
         \/ Throws(c) /\ UNCHANGED <<ledger, unheard>>
         \/ Returns(c, "unconfirmed") /\ UNCHANGED <<ledger, unheard>>
         \/ /\ NetworkError(c)
            /\ \/ ledger' = taken /\ unheard' = unheard \cup {c}
               \/ UNCHANGED <<ledger, unheard>>
      /\ UNCHANGED <<applied, clock>>

(***************************************************************************)
(* A failed transaction is a result.  A poll that takes too long throws,   *)
(* with the hash of the transaction in the message: a hash in which "429"  *)
(* or "503" occurs makes it pass for an error of the network, and the      *)
(* whole attempt is repeated, as it is after one.                          *)
(***************************************************************************)
Fault_Poll_trusts_status(c) ==
  /\ calls[c].phase = "polling"
  /\ Returns(c, "success") \/ Throws(c) \/ NetworkError(c)
  /\ UNCHANGED <<ledger, applied, unheard, clock>>

Fault_Poll_takes_not_found_for_failed(c) ==
  LET fate == ledger[c][Len(ledger[c])]
  IN  /\ calls[c].phase = "polling"
      /\ \/ fate = "applied" /\ Returns(c, "success") /\ UNCHANGED unheard
         \/ fate # "applied" /\ Returns(c, "errorResult") /\ UNCHANGED unheard
         \/ (Throws(c) \/ NetworkError(c)) /\ unheard' = unheard \cup {c}
      /\ UNCHANGED <<ledger, applied, clock>>

Poll(c) ==
  LET fate == ledger[c][Len(ledger[c])]
  IN  /\ calls[c].phase = "polling"
      /\ \/ fate = "applied" /\ Returns(c, "success") /\ UNCHANGED unheard
         \/ fate = "failed" /\ Returns(c, "errorResult") /\ UNCHANGED unheard
         \/ (Throws(c) \/ NetworkError(c)) /\ unheard' = unheard \cup {c}
      /\ UNCHANGED <<ledger, applied, clock>>

\* A transaction the network has taken is applied, or fails or expires.
Decide(c, k) ==
  LET intent == calls[c].intent
  IN  /\ k \in DOMAIN ledger[c] /\ ledger[c][k] = "pending"
      /\ \/ /\ Method(intent) \in Repeatable \/ applied[intent] = 0
            /\ ledger' = [ledger EXCEPT ![c][k] = "applied"]
            /\ applied' = [applied EXCEPT ![intent] = @ + 1]
         \/ /\ ledger' = [ledger EXCEPT ![c][k] = "failed"]
            /\ UNCHANGED applied
      /\ UNCHANGED <<callVars, unheard, clock>>
-----------------------------------------------------------------------------
\* retryQueuedWrites goes through the queue as it was when it was clicked.
\* Nothing stops a second click, or the same write being asked for again.
StartSweep(s) ==
  /\ sweeps[s].call = 0 /\ sweeps[s].left = <<>> /\ queue # <<>>
  /\ sweeps' = [sweeps EXCEPT ![s].left = queue]
  /\ UNCHANGED <<config, circuit, queue, calls, banner, ledger, applied, unheard, clock>>

SweepNext(s, c) ==
  /\ sweeps[s].call = 0 /\ sweeps[s].left # <<>>
  /\ BeginWith(c, Head(sweeps[s].left).intent, "refused")
  /\ sweeps' = [sweeps EXCEPT ![s].call = c]
  /\ UNCHANGED <<config, queue, banner, ledger, applied, unheard, clock>>

\* Only a call that neither threw nor returned an error leaves the queue.
Fault_Succeeded_any_result(c) == calls[c].phase \in {"success", "unconfirmed", "errorResult"}

Succeeded(c) == calls[c].phase \in {"success", "unconfirmed"}

SweepDone(s) ==
  LET c == sweeps[s].call
  IN  /\ c # 0 /\ calls[c].phase \in Ended
      /\ queue' = IF Succeeded(c) THEN removeQueuedWrite(Head(sweeps[s].left)) ELSE queue
      /\ sweeps' = [sweeps EXCEPT ![s] = [left |-> Tail(@.left), call |-> 0]]
      /\ UNCHANGED <<config, circuit, calls, banner, ledger, applied, unheard, clock>>

-----------------------------------------------------------------------------
\* useContractRetryStatus: a timer ends the countdown of the last backoff, and
\* once a second the circuit is looked at.
BackoffTimer ==
  /\ banner = "retrying"
  /\ banner' = "none"
  /\ UNCHANGED <<config, circuit, queue, calls, sweeps, ledger, applied, unheard, clock>>

refreshCircuit ==
  /\ circuit # CheckedCircuit
  /\ circuit' = CheckedCircuit
  /\ UNCHANGED <<config, queue, calls, sweeps, banner, ledger, applied, unheard, clock>>

\* What ContractRetryBanner offers: to try the last action again, and a sweep.
ShowsManualRetry == banner = "exhausted"
ShowsQueue == queue # <<>> /\ banner # "retrying"

\* The settings page stores a configuration, closes the circuit or drops the queue.
saveRetryConfig(patch) ==
  /\ patch # config
  /\ config' = patch
  /\ UNCHANGED <<circuit, queue, calls, sweeps, banner, ledger, applied, unheard, clock>>

resetCircuitBreaker ==
  /\ circuit # ClosedCircuit
  /\ circuit' = ClosedCircuit
  /\ UNCHANGED <<config, queue, calls, sweeps, banner, ledger, applied, unheard, clock>>

clearFailedWriteQueue ==
  /\ queue # <<>>
  /\ queue' = <<>>
  /\ UNCHANGED <<config, circuit, calls, sweeps, banner, ledger, applied, unheard, clock>>

\* Time passes: the cooldown runs, and new entries get other ids.
IdsInUse == {entry.id : entry \in ToSet(queue) \cup UNION {ToSet(sweeps[s].left) : s \in Sweeps}}

Tick ==
  /\ circuit.left > 0 \/ \E id \in IdsInUse : id[1] = clock
  /\ clock' = clock + 1
  /\ circuit' = [circuit EXCEPT !.left = IF @ > 0 THEN @ - 1 ELSE 0]
  /\ UNCHANGED <<config, queue, calls, sweeps, banner, ledger, applied, unheard>>

\* The tab is reloaded or crashes.  Its calls and sweeps are gone, a transaction
\* on its way may still get there, and what the network had taken is decided
\* without anybody waiting for it; configuration, circuit and queue are in
\* localStorage.
Reload ==
  LET At(phases) == {c \in CallId : calls[c].phase \in phases}
      running    == At(Running)
  IN  /\ running # {} \/ \E s \in Sweeps : sweeps[s] # NoSweep
      /\ calls' = [c \in CallId |-> IF c \in running
                                   THEN [intent |-> calls[c].intent, phase |-> "abandoned", attempt |-> 0]
                                   ELSE calls[c]]
      /\ sweeps' = [s \in Sweeps |-> NoSweep]
      /\ banner' = "none"
      /\ unheard' = unheard \cup At({"submit", "polling"})
      /\ \E sent \in SUBSET At({"submit"}) :
           ledger' = [c \in CallId |-> IF c \in sent THEN Append(ledger[c], "pending") ELSE ledger[c]]
      /\ UNCHANGED <<config, circuit, queue, applied, clock>>

-----------------------------------------------------------------------------
RpcInit ==
  /\ config = [breaker |-> TRUE, queueing |-> TRUE]
  /\ circuit \in {[ClosedCircuit EXCEPT !.failures = n] : n \in 0..(Threshold - 1)} /\ queue = <<>>
  /\ calls = [c \in CallId |-> NoCall]
  /\ sweeps = [s \in Sweeps |-> NoSweep]
  /\ banner = "none"
  /\ ledger = [c \in CallId |-> <<>>]
  /\ applied = [i \in Intents |-> 0]
  /\ unheard = {} /\ clock = 0

\* What goes on by itself once a call has begun.
CallStep(c) == Wake(c) \/ Read(c) \/ Prepare(c) \/ Submit(c) \/ Poll(c)
Ledger == \E c \in CallId : \E k \in DOMAIN ledger[c] : Decide(c, k)

UserStep ==
  \/ \E c \in CallId, m \in Methods : Begin(c, m)
  \/ \E s \in Sweeps : ShowsQueue /\ StartSweep(s)
  \/ \E p \in Patches : saveRetryConfig(p)
  \/ resetCircuitBreaker
  \/ clearFailedWriteQueue

SweepStep(s) == SweepDone(s) \/ \E c \in CallId : SweepNext(s, c)

RpcNext ==
  \/ UserStep \/ Ledger \/ BackoffTimer \/ refreshCircuit \/ Tick \/ Reload
  \/ \E c \in CallId : CallStep(c)
  \/ \E s \in Sweeps : SweepStep(s)

RpcSpec == RpcInit /\ [][RpcNext]_rpcVars

-----------------------------------------------------------------------------
(***************************************************************************)
(* What a call reports is all that came of it, unless it gave up on a      *)
(* transaction whose verdict it had not heard: nothing takes effect twice  *)
(* through one call, and nothing takes effect behind an error it reports.  *)
(* withContractRetry repeats whole attempts, and every attempt sends a     *)
(* transaction of its own; what makes that dangerous is a missing verdict  *)
(* (a lost answer, a poll out of time, a reload) and nothing else.         *)
(***************************************************************************)
ReportsAreComplete ==
  \A c \in CallId \ unheard : \A k \in DOMAIN ledger[c] :
    ledger[c][k] = "applied" =>
      /\ calls[c].phase \in {"polling", "success"}
      /\ \A l \in DOMAIN ledger[c] : ledger[c][l] = "applied" => l = k

\* A write reported as a success with its transaction confirmed was applied by
\* the last attempt, whatever attempts came before it and however they ended.
SuccessWasApplied ==
  \A c \in CallId :
    calls[c].phase = "success" /\ calls[c].intent \in Writes
      => ledger[c] # <<>> /\ ledger[c][Len(ledger[c])] = "applied"

(***************************************************************************)
(* A queued write leaves the queue because a later call for it succeeded,  *)
(* because the user emptied the queue, because the queue is full of newer  *)
(* ones, or because it shares its id with another write of the same method *)
(* that failed in the same millisecond: that one takes its place, or a     *)
(* sweep that had copied that one retries it with success.  So the only    *)
(* way to lose a write unseen is a shared id.                              *)
(***************************************************************************)
RetriedSince(entry) ==
  \E c \in CallId : c > entry.call /\ calls[c].intent = entry.intent /\ calls[c].phase \in {"success", "unconfirmed"}

Swept == {Head(sweeps[s].left) : s \in {t \in Sweeps : sweeps[t].left # <<>>}}

SharesItsId(entry) ==
  \E other \in ToSet(queue') \cup Swept : other.call # entry.call /\ other.id = entry.id

LeavesQueueForAReason(i) ==
  \/ \E k \in DOMAIN queue' : queue'[k].call = queue[i].call
  \/ queue' = <<>> /\ UNCHANGED <<calls, sweeps>>
  \/ RetriedSince(queue[i])
  \/ Len(queue') = QueueSize
  \/ SharesItsId(queue[i])

LostOnlyBySharedId == [][\A i \in DOMAIN queue : LeavesQueueForAReason(i)]_rpcVars
=============================================================================

------------------------------ MODULE RpcProofs ------------------------------
(***************************************************************************)
(* Theorems about the layer below the pages, for every number of calls,    *)
(* retries, sweeps and intents and every configuration: what repeating     *)
(* attempts may do to the ledger, and what becomes of failed writes.       *)
(***************************************************************************)
EXTENDS RpcClient, ListProofs

(***************************************************************************)
(* The inductive invariant.  Neither property is inductive.  What a call   *)
(* reports is all that came of it because a call that has heard of each    *)
(* of its transactions has sent one at most, and none at all unless it     *)
(* polls or has returned what the poll saw.  A success was applied because *)
(* who polls has sent a transaction.                                       *)
(***************************************************************************)
Fate == {"pending", "applied", "failed"}

Shape ==
  /\ calls = [c \in CallId |-> [intent |-> calls[c].intent, phase |-> calls[c].phase,
                                attempt |-> calls[c].attempt]]
  /\ ledger \in [CallId -> Seq(Fate)]

CallOK(c) ==
  /\ calls[c].phase = "unused" => ledger[c] = <<>>
  /\ calls[c].phase = "polling" => ledger[c] # <<>>
  /\ c \notin unheard =>
       /\ Len(ledger[c]) <= 1
       /\ calls[c].phase \notin {"polling", "success", "errorResult"} => ledger[c] = <<>>
       /\ calls[c].phase = "errorResult" => \A k \in DOMAIN ledger[c] : ledger[c][k] = "failed"
  /\ calls[c].phase = "success" /\ calls[c].intent \in Writes
       => ledger[c] # <<>> /\ ledger[c][Len(ledger[c])] = "applied"

CallInv == Shape /\ \A c \in CallId : CallOK(c)

-----------------------------------------------------------------------------
\* What the ways of writing a call down leave in it and in the other calls.
LEMMA Untouched ==
  ASSUME CallInv, UNCHANGED <<calls, ledger, unheard>>  PROVE CallInv'
BY DEF CallInv, Shape, CallOK

LEMMA PhaseSet ==
  ASSUME Shape, NEW c \in CallId, NEW p,
         calls' = [calls EXCEPT ![c].phase = p] \/ calls' = Ends(c, p)
  PROVE  /\ calls' = [d \in CallId |-> [intent |-> calls'[d].intent, phase |-> calls'[d].phase,
                                        attempt |-> calls'[d].attempt]]
         /\ calls'[c].intent = calls[c].intent /\ calls'[c].phase = p
         /\ \A d \in CallId \ {c} : calls'[d] = calls[d]
BY DEF Shape, Ends

LEMMA CallSet ==
  ASSUME Shape, NEW c \in CallId, NEW i, NEW p, NEW n,
         calls' = [calls EXCEPT ![c] = [intent |-> i, phase |-> p, attempt |-> n]]
  PROVE  /\ calls' = [d \in CallId |-> [intent |-> calls'[d].intent, phase |-> calls'[d].phase,
                                        attempt |-> calls'[d].attempt]]
         /\ calls'[c].intent = i /\ calls'[c].phase = p
         /\ \A d \in CallId \ {c} : calls'[d] = calls[d]
BY DEF Shape

\* It is enough to look at the call that made the step.
LEMMA OneCall ==
  ASSUME CallInv, Shape', NEW c \in CallId, unheard \subseteq unheard',
         \A d \in CallId \ {c} : calls'[d] = calls[d] /\ ledger'[d] = ledger[d],
         CallOK(c)'
  PROVE  CallInv'
<1>1. ASSUME NEW d \in CallId \ {c}  PROVE CallOK(d)'
  BY <1>1 DEF CallInv, CallOK
<1> QED
  BY <1>1 DEF CallInv

-----------------------------------------------------------------------------
\* Whoever meets a network error goes to "backoff" or "exhausted".
LEMMA AfterNetworkError ==
  ASSUME Shape, NEW c \in CallId, NetworkError(c)
  PROVE  /\ calls' = [d \in CallId |-> [intent |-> calls'[d].intent, phase |-> calls'[d].phase,
                                        attempt |-> calls'[d].attempt]]
         /\ calls'[c].intent = calls[c].intent /\ calls'[c].phase \in {"backoff", "exhausted"}
         /\ \A d \in CallId \ {c} : calls'[d] = calls[d]
<1>1. CASE Backoff(c)
  BY <1>1, PhaseSet DEF Backoff
<1>2. CASE Exhausted(c)
  BY <1>2, PhaseSet DEF Exhausted
<1> QED
  BY <1>1, <1>2 DEF NetworkError

LEMMA BeginKeeps ==
  ASSUME CallInv, NEW c \in CallId, NEW i, BeginWith(c, i, "refused"), UNCHANGED <<ledger, unheard>>
  PROVE  CallInv'
<1>1. calls[c].phase = "unused"
  BY RpcConstants DEF BeginWith, NextCall, CallId
<1>2. ledger[c] = <<>>
  BY <1>1 DEF CallInv, CallOK
<1>3. PICK p \in {"refused", "attempt"}, n \in {0, 1} :
         calls' = [calls EXCEPT ![c] = [intent |-> i, phase |-> p, attempt |-> n]]
  BY DEF BeginWith
<1>4. /\ Shape'
      /\ calls'[c].phase = p
      /\ \A d \in CallId \ {c} : calls'[d] = calls[d]
  BY <1>3, CallSet DEF CallInv, Shape
<1>5. CallOK(c)'
  BY <1>2, <1>4 DEF CallOK
<1> QED
  BY <1>4, <1>5, OneCall

LEMMA WakeKeeps ==
  ASSUME CallInv, NEW c \in CallId, Wake(c)  PROVE CallInv'
<1>1. /\ calls[c].phase = "backoff" /\ UNCHANGED <<ledger, unheard>>
      /\ calls' = [calls EXCEPT ![c] =
                   [intent |-> calls[c].intent, phase |-> "attempt",
                    attempt |-> calls[c].attempt + 1]]
  BY DEF Wake
<1>2. /\ Shape'
      /\ calls'[c].intent = calls[c].intent /\ calls'[c].phase = "attempt"
      /\ \A d \in CallId \ {c} : calls'[d] = calls[d]
  BY <1>1, CallSet DEF CallInv, Shape
<1>3. CallOK(c)'
  BY <1>1, <1>2 DEF CallOK, CallInv
<1> QED
  BY <1>1, <1>2, <1>3, OneCall

LEMMA ReadKeeps ==
  ASSUME CallInv, NEW c \in CallId, Read(c)  PROVE CallInv'
<1>1. calls[c].phase = "attempt" /\ calls[c].intent \notin Writes /\ UNCHANGED <<ledger, unheard>>
  BY DEF Read, Writes, Method
<1>2. PICK p \in {"success", "errorResult", "failed", "backoff", "exhausted"} :
         /\ Shape'
         /\ calls'[c].intent = calls[c].intent /\ calls'[c].phase = p
         /\ \A d \in CallId \ {c} : calls'[d] = calls[d]
  <2>1. CASE Returns(c, "success")
    BY <1>1, <2>1, PhaseSet DEF Returns, CallInv, Shape
  <2>2. CASE Returns(c, "errorResult")
    BY <1>1, <2>2, PhaseSet DEF Returns, CallInv, Shape
  <2>3. CASE Throws(c)
    BY <1>1, <2>3, PhaseSet DEF Throws, CallInv, Shape
  <2>4. CASE NetworkError(c)
    BY <1>1, <2>4, AfterNetworkError DEF CallInv, Shape
  <2> QED
    BY <2>1, <2>2, <2>3, <2>4 DEF Read
<1>3. CallOK(c)'
  BY <1>1, <1>2 DEF CallOK, CallInv
<1> QED
  BY <1>1, <1>2, <1>3, OneCall

LEMMA PrepareKeeps ==
  ASSUME CallInv, NEW c \in CallId, Prepare(c)  PROVE CallInv'
<1>1. calls[c].phase = "attempt" /\ UNCHANGED <<ledger, unheard>>
  BY DEF Prepare
<1>2. PICK p \in {"submit", "failed", "backoff", "exhausted"} :
         /\ Shape'
         /\ calls'[c].intent = calls[c].intent /\ calls'[c].phase = p
         /\ \A d \in CallId \ {c} : calls'[d] = calls[d]
  <2>1. CASE calls' = [calls EXCEPT ![c].phase = "submit"]
    BY <1>1, <2>1, PhaseSet DEF CallInv, Shape
  <2>2. CASE Throws(c)
    BY <1>1, <2>2, PhaseSet DEF Throws, CallInv, Shape
  <2>3. CASE NetworkError(c)
    BY <1>1, <2>3, AfterNetworkError DEF CallInv, Shape
  <2> QED
    BY <2>1, <2>2, <2>3 DEF Prepare
<1>3. CallOK(c)'
  BY <1>1, <1>2 DEF CallOK, CallInv
<1> QED
  BY <1>1, <1>2, <1>3, OneCall

\* A call that has heard of all it sent sends its first transaction.
LEMMA Taken ==
  ASSUME CallInv, NEW c \in CallId, calls[c].phase = "submit", NEW taken,
         taken = [ledger EXCEPT ![c] = Append(@, "pending")]
  PROVE  /\ taken \in [CallId -> Seq(Fate)]
         /\ taken[c] # <<>>
         /\ c \notin unheard => Len(taken[c]) <= 1
         /\ \A d \in CallId \ {c} : taken[d] = ledger[d]
<1>1. ledger \in [CallId -> Seq(Fate)] /\ ledger[c] \in Seq(Fate) /\ "pending" \in Fate
  BY DEF CallInv, Shape, Fate
<1>2. Append(ledger[c], "pending") \in Seq(Fate)
        /\ Len(Append(ledger[c], "pending")) = Len(ledger[c]) + 1
  BY <1>1, AppendProperties
<1>3. taken[c] = Append(ledger[c], "pending")
  BY <1>1
<1>4. Len(ledger[c]) \in Nat /\ (ledger[c] = <<>> => Len(ledger[c]) = 0)
  BY <1>1, EmptySeq, LenProperties
<1>5. taken[c] # <<>>
  <2>1. Len(taken[c]) # 0
    BY <1>2, <1>3, <1>4
  <2> QED
    BY <2>1, EmptySeq
<1>6. c \notin unheard => Len(taken[c]) <= 1
  BY <1>2, <1>3, <1>4 DEF CallInv, CallOK
<1> QED
  BY <1>1, <1>2, <1>5, <1>6

LEMMA SubmitKeeps ==
  ASSUME CallInv, NEW c \in CallId, Submit(c)  PROVE CallInv'
<1> DEFINE taken == [ledger EXCEPT ![c] = Append(@, "pending")]
<1>1. /\ calls[c].phase = "submit"
      /\ ledger \in [CallId -> Seq(Fate)] /\ CallOK(c)
  BY DEF Submit, CallInv, Shape
<1>2. /\ taken \in [CallId -> Seq(Fate)]
      /\ taken[c] # <<>>
      /\ c \notin unheard => Len(taken[c]) <= 1
      /\ \A d \in CallId \ {c} : taken[d] = ledger[d]
  BY <1>1, Taken
<1> HIDE DEF taken
<1>3. CASE calls' = [calls EXCEPT ![c].phase = "polling"] /\ ledger' = taken /\ UNCHANGED unheard
  <2>1. /\ Shape'
        /\ calls'[c].intent = calls[c].intent /\ calls'[c].phase = "polling"
        /\ \A d \in CallId \ {c} : calls'[d] = calls[d]
    BY <1>2, <1>3, PhaseSet DEF CallInv, Shape
  <2>2. CallOK(c)'
    BY <1>2, <1>3, <2>1 DEF CallOK
  <2> QED
    BY <1>2, <1>3, <2>1, <2>2, OneCall
<1>4. CASE (Throws(c) \/ Returns(c, "unconfirmed")) /\ UNCHANGED <<ledger, unheard>>
  <2>1. PICK p \in {"failed", "unconfirmed"} : calls' = Ends(c, p)
    BY <1>4 DEF Throws, Returns
  <2>2. /\ Shape'
        /\ calls'[c].intent = calls[c].intent /\ calls'[c].phase = p
        /\ \A d \in CallId \ {c} : calls'[d] = calls[d]
    BY <1>4, <2>1, PhaseSet DEF CallInv, Shape
  <2>3. CallOK(c)'
    BY <1>1, <1>4, <2>2 DEF CallOK
  <2> QED
    BY <1>4, <2>2, <2>3, OneCall
<1>5. CASE /\ NetworkError(c)
           /\ \/ ledger' = taken /\ unheard' = unheard \cup {c}
              \/ UNCHANGED <<ledger, unheard>>
  <2>1. /\ Shape'
        /\ calls'[c].intent = calls[c].intent /\ calls'[c].phase \in {"backoff", "exhausted"}
        /\ \A d \in CallId \ {c} : calls'[d] = calls[d]
    BY <1>2, <1>5, AfterNetworkError DEF CallInv, Shape
  <2>2. CallOK(c)'
    BY <1>1, <1>2, <1>5, <2>1 DEF CallOK
  <2> QED
    BY <1>2, <1>5, <2>1, <2>2, OneCall
<1> QED
  BY <1>3, <1>4, <1>5 DEF Submit, taken

\* A verdict is reported by a poll that saw it of the last transaction; a poll
\* that ends without one, repeated or not, has given up on it.
LEMMA PollKeeps ==
  ASSUME CallInv, NEW c \in CallId, Poll(c)  PROVE CallInv'
<1>1. /\ calls[c].phase = "polling" /\ ledger[c] # <<>>
      /\ UNCHANGED ledger /\ unheard \subseteq unheard' /\ CallOK(c)
      /\ ledger[c] \in Seq(Fate)
  BY DEF Poll, CallInv, CallOK, Shape
<1>2. CASE ledger[c][Len(ledger[c])] = "applied" /\ Returns(c, "success") /\ UNCHANGED unheard
  <2>1. /\ Shape'
        /\ calls'[c].intent = calls[c].intent /\ calls'[c].phase = "success"
        /\ \A d \in CallId \ {c} : calls'[d] = calls[d]
    BY <1>1, <1>2, PhaseSet DEF Returns, CallInv, Shape
  <2>2. CallOK(c)'
    BY <1>1, <1>2, <2>1 DEF CallOK
  <2> QED
    BY <1>1, <2>1, <2>2, OneCall
<1>3. CASE ledger[c][Len(ledger[c])] = "failed" /\ Returns(c, "errorResult") /\ UNCHANGED unheard
  <2>1. /\ Shape'
        /\ calls'[c].intent = calls[c].intent /\ calls'[c].phase = "errorResult"
        /\ \A d \in CallId \ {c} : calls'[d] = calls[d]
    BY <1>1, <1>3, PhaseSet DEF Returns, CallInv, Shape
  <2>2. c \notin unheard => \A k \in DOMAIN ledger[c] : ledger[c][k] = "failed"
    <3>1. Len(ledger[c]) \in Nat /\ DOMAIN ledger[c] = 1 .. Len(ledger[c])
      BY <1>1, LenProperties
    <3>2. c \notin unheard => \A k \in DOMAIN ledger[c] : k = Len(ledger[c])
      BY <1>1, <3>1 DEF CallOK
    <3> QED
      BY <1>3, <3>2
  <2>3. CallOK(c)'
    BY <1>1, <1>3, <2>1, <2>2 DEF CallOK
  <2> QED
    BY <1>1, <2>1, <2>3, OneCall
<1>4. CASE (Throws(c) \/ NetworkError(c)) /\ unheard' = unheard \cup {c}
  <2>1. /\ Shape'
        /\ calls'[c].intent = calls[c].intent
        /\ calls'[c].phase \in {"failed", "backoff", "exhausted"}
        /\ \A d \in CallId \ {c} : calls'[d] = calls[d]
    <3>1. CASE Throws(c)
      BY <1>1, <3>1, PhaseSet DEF Throws, CallInv, Shape
    <3>2. CASE NetworkError(c)
      BY <1>1, <3>2, AfterNetworkError DEF CallInv, Shape
    <3> QED
      BY <1>4, <3>1, <3>2
  <2>2. CallOK(c)'
    BY <1>4, <2>1 DEF CallOK
  <2> QED
    BY <1>1, <2>1, <2>2, OneCall
<1> QED
  BY <1>2, <1>3, <1>4 DEF Poll

\* The network decides pending transactions only, and none a second time.
LEMMA DecideKeeps ==
  ASSUME CallInv, NEW c \in CallId, NEW k \in DOMAIN ledger[c], Decide(c, k)  PROVE CallInv'
<1>1. PICK fate \in {"applied", "failed"} : ledger' = [ledger EXCEPT ![c][k] = fate]
  BY DEF Decide
<1>2. UNCHANGED <<calls, unheard>> /\ ledger[c][k] = "pending"
  BY DEF Decide, callVars
<1>3. ledger \in [CallId -> Seq(Fate)] /\ ledger[c] \in Seq(Fate) /\ k \in 1..Len(ledger[c])
  BY DEF CallInv, Shape
<1>4. ledger'[c] = [ledger[c] EXCEPT ![k] = fate] /\ \A d \in CallId \ {c} : ledger'[d] = ledger[d]
  BY <1>1, <1>3
<1>5. ledger'[c] \in Seq(Fate) /\ Len(ledger'[c]) = Len(ledger[c])
  BY <1>3, <1>4, ExceptSeq DEF Fate
<1>6. ledger' \in [CallId -> Seq(Fate)]
  BY <1>1, <1>3, <1>5
<1>7. ledger[c] # <<>> /\ ledger'[c] # <<>>
  BY <1>3, <1>5, EmptySeq, LenProperties
<1>8. ledger[c][Len(ledger[c])] = "applied" => ledger'[c][Len(ledger'[c])] = "applied"
  BY <1>2, <1>3, <1>4, <1>5
<1>9. CallOK(c)
  BY DEF CallInv
<1>10. CallOK(c)'
  <2>1. calls[c].phase = "errorResult" => c \in unheard
    BY <1>2, <1>9 DEF CallOK
  <2> QED
    BY <1>2, <1>5, <1>7, <1>8, <1>9, <2>1 DEF CallOK
<1> QED
  BY <1>2, <1>4, <1>6, <1>10, OneCall DEF CallInv, Shape

\* A reload takes the running calls with it, and what they would have learnt.
LEMMA ReloadKeeps ==
  ASSUME CallInv, Reload  PROVE CallInv'
<1>1. calls' = [c \in CallId |-> IF c \in {b \in CallId : calls[b].phase \in Running}
                                 THEN [intent |-> calls[c].intent, phase |-> "abandoned",
                                       attempt |-> 0]
                                 ELSE calls[c]]
  BY DEF Reload
<1>2. PICK sent \in SUBSET {c \in CallId : calls[c].phase = "submit"} :
         ledger' = [c \in CallId |-> IF c \in sent THEN Append(ledger[c], "pending") ELSE ledger[c]]
  BY DEF Reload
<1>3. unheard' = unheard \cup {c \in CallId : calls[c].phase \in {"submit", "polling"}}
  BY DEF Reload
<1>4. ASSUME NEW c \in CallId
      PROVE  /\ calls'[c] = [intent |-> calls'[c].intent, phase |-> calls'[c].phase,
                             attempt |-> calls'[c].attempt]
             /\ calls'[c].intent = calls[c].intent
             /\ calls'[c].phase = IF calls[c].phase \in Running THEN "abandoned" ELSE calls[c].phase
  <2>1. calls[c] = [intent |-> calls[c].intent, phase |-> calls[c].phase,
                    attempt |-> calls[c].attempt]
    BY DEF CallInv, Shape
  <2>2. CASE calls[c].phase \in Running
    <3>1. calls'[c] = [intent |-> calls[c].intent, phase |-> "abandoned", attempt |-> 0]
      BY <1>1, <2>2
    <3> QED
      BY <2>2, <3>1
  <2>3. CASE calls[c].phase \notin Running
    <3>1. calls'[c] = calls[c]
      BY <1>1, <2>3
    <3> QED
      BY <2>1, <2>3, <3>1
  <2> QED
    BY <2>2, <2>3
<1>5. ledger' \in [CallId -> Seq(Fate)]
  <2>1. ledger \in [CallId -> Seq(Fate)] /\ "pending" \in Fate
    BY DEF CallInv, Shape, Fate
  <2>2. \A c \in CallId : ledger[c] \in Seq(Fate) /\ Append(ledger[c], "pending") \in Seq(Fate)
    BY <2>1, AppendProperties
  <2> QED
    BY <1>2, <2>2
<1>6. Shape'
  BY <1>1, <1>4, <1>5 DEF Shape
<1>7. ASSUME NEW c \in CallId  PROVE CallOK(c)'
  <2>1. CallOK(c)
    BY DEF CallInv
  <2>2. CASE calls[c].phase \in {"submit", "polling"}
    BY <1>3, <1>4, <2>2 DEF CallOK, Running
  <2>3. CASE calls[c].phase \notin {"submit", "polling"}
    <3>1. ledger'[c] = ledger[c] /\ unheard \subseteq unheard'
      BY <1>2, <1>3, <2>3
    <3> QED
      BY <1>4, <2>1, <2>3, <3>1 DEF CallOK, Running
  <2> QED
    BY <2>2, <2>3
<1> QED
  BY <1>6, <1>7 DEF CallInv

-----------------------------------------------------------------------------
LEMMA CallInvHolds == RpcSpec => []CallInv
<1>1. RpcInit => CallInv
  <2> SUFFICES ASSUME RpcInit  PROVE CallInv
    OBVIOUS
  <2>1. \A c \in CallId : calls[c] = [intent |-> <<"none", 0>>, phase |-> "unused", attempt |-> 0]
          /\ ledger[c] = <<>>
    BY DEF RpcInit, NoCall
  <2>2. Shape
    BY <2>1, EmptySeq DEF RpcInit, Shape, NoCall
  <2>3. \A c \in CallId : CallOK(c)
    BY <2>1, EmptySeq DEF CallOK
  <2> QED
    BY <2>2, <2>3 DEF CallInv
<1>2. CallInv /\ [RpcNext]_rpcVars => CallInv'
  <2> SUFFICES ASSUME CallInv, [RpcNext]_rpcVars  PROVE CallInv'
    OBVIOUS
  <2>1. ASSUME NEW c \in CallId, NEW m \in Methods, Begin(c, m)  PROVE CallInv'
    BY <2>1, BeginKeeps DEF Begin
  <2>2. ASSUME NEW s \in Sweeps, NEW c \in CallId, SweepNext(s, c)  PROVE CallInv'
    BY <2>2, BeginKeeps DEF SweepNext
  <2>3. ASSUME NEW c \in CallId, CallStep(c)  PROVE CallInv'
    BY <2>3, WakeKeeps, ReadKeeps, PrepareKeeps, SubmitKeeps, PollKeeps DEF CallStep
  <2>4. CASE Ledger
    BY <2>4, DecideKeeps DEF Ledger
  <2>5. CASE Reload
    BY <2>5, ReloadKeeps
  <2>6. ASSUME NEW s \in Sweeps, StartSweep(s) \/ SweepDone(s)  PROVE CallInv'
    BY <2>6, Untouched DEF StartSweep, SweepDone
  <2>7. ASSUME NEW p \in Patches, saveRetryConfig(p)  PROVE CallInv'
    BY <2>7, Untouched DEF saveRetryConfig
  <2>8. CASE resetCircuitBreaker \/ clearFailedWriteQueue \/ BackoffTimer \/ refreshCircuit \/ Tick
    BY <2>8, Untouched DEF resetCircuitBreaker, clearFailedWriteQueue, BackoffTimer, refreshCircuit,
       Tick
  <2>9. CASE UNCHANGED rpcVars
    BY <2>9, Untouched DEF rpcVars, callVars
  <2> QED
    BY <2>1, <2>2, <2>3, <2>4, <2>5, <2>6, <2>7, <2>8, <2>9 DEF RpcNext, UserStep, SweepStep
<1> QED
  BY <1>1, <1>2, PTL DEF RpcSpec

(***************************************************************************)
(* However often attempts are repeated, what a call reports is all that    *)
(* came of it, unless it gave up on a transaction without its verdict:     *)
(* retrying alone (contract-retry.ts) never doubles a write, nor does it   *)
(* let one take effect behind an error.                                    *)
(***************************************************************************)
THEOREM RetriesAreSafe == RpcSpec => []ReportsAreComplete
<1>1. CallInv => ReportsAreComplete
  <2> SUFFICES ASSUME CallInv, NEW c \in CallId \ unheard,
                      NEW k \in DOMAIN ledger[c], ledger[c][k] = "applied"
               PROVE  /\ calls[c].phase \in {"polling", "success"}
                      /\ \A l \in DOMAIN ledger[c] : ledger[c][l] = "applied" => l = k
    BY DEF ReportsAreComplete
  <2>1. ledger[c] \in Seq(Fate) /\ CallOK(c)
    BY DEF CallInv, Shape
  <2>2. Len(ledger[c]) \in Nat /\ DOMAIN ledger[c] = 1 .. Len(ledger[c])
    BY <2>1, LenProperties
  <2>3. k = 1 /\ \A l \in DOMAIN ledger[c] : l = 1
    BY <2>1, <2>2 DEF CallOK
  <2>4. ledger[c] # <<>>
    BY <2>2, EmptySeq
  <2> QED
    BY <2>1, <2>3, <2>4 DEF CallOK
<1> QED
  BY <1>1, CallInvHolds, PTL

\* A write a call reports as confirmed was applied by its last transaction
\* (the polling loop of stellar.ts), whatever happened to those before.
THEOREM SuccessIsReal == RpcSpec => []SuccessWasApplied
<1>1. CallInv => SuccessWasApplied
  BY DEF CallInv, CallOK, SuccessWasApplied
<1> QED
  BY <1>1, CallInvHolds, PTL


-----------------------------------------------------------------------------
(***************************************************************************)
(* The queue of failed writes.  What a sweep takes out of it has the id of *)
(* the entry it has retried.  If it is that entry, an earlier call had     *)
(* written it there than the one the sweep has just seen succeed: entries  *)
(* are those of calls that have begun, and a sweep goes on with a call     *)
(* that begins after.  If it is not, two writes shared an id.              *)
(***************************************************************************)
Begun   == {c \in CallId : calls[c].phase # "unused"}
Entries == {[call |-> c, intent |-> calls[c].intent, id |-> <<t, Method(calls[c].intent)>>] :
              c \in Begun, t \in Nat}

SweepOK(s) ==
  /\ sweeps[s] = [left |-> sweeps[s].left, call |-> sweeps[s].call]
  /\ sweeps[s].left \in Seq(Entries)
  /\ sweeps[s].call # 0 =>
       /\ sweeps[s].left # <<>> /\ sweeps[s].call \in Begun
       /\ Head(sweeps[s].left).call < sweeps[s].call
       /\ Head(sweeps[s].left).intent = calls[sweeps[s].call].intent

QueueInv ==
  /\ clock \in Nat
  /\ queue \in Seq(Entries)
  /\ sweeps = [s \in Sweeps |-> sweeps[s]]
  /\ \A s \in Sweeps : SweepOK(s)

\* Calls keep what they were asked for.
CallsGoOn ==
  \A c \in Begun : c \in Begun' /\ calls'[c].intent = calls[c].intent

LEMMA OneGoesOn ==
  ASSUME Shape, NEW c \in CallId, NEW p, p # "unused",
         \/ calls' = [calls EXCEPT ![c].phase = p] \/ calls' = Ends(c, p)
         \/ \E n : calls' = [calls EXCEPT ![c] =
                             [intent |-> calls[c].intent, phase |-> p, attempt |-> n]]
  PROVE  CallsGoOn
<1>1. \/ calls' = [calls EXCEPT ![c].phase = p] \/ calls' = Ends(c, p)
      \/ \E n : calls' = [calls EXCEPT ![c] =
                          [intent |-> calls[c].intent, phase |-> p, attempt |-> n]]
  OBVIOUS
<1>2. calls'[c].intent = calls[c].intent /\ calls'[c].phase = p
        /\ \A d \in CallId \ {c} : calls'[d] = calls[d]
  <2>1. CASE calls' = [calls EXCEPT ![c].phase = p] \/ calls' = Ends(c, p)
    BY <2>1, PhaseSet
  <2>2. CASE \E n : calls' = [calls EXCEPT ![c] =
                              [intent |-> calls[c].intent, phase |-> p, attempt |-> n]]
    <3>1. PICK n : calls' = [calls EXCEPT ![c] =
                             [intent |-> calls[c].intent, phase |-> p, attempt |-> n]]
      BY <2>2
    <3> DEFINE i == calls[c].intent
    <3>2. calls' = [calls EXCEPT ![c] = [intent |-> i, phase |-> p, attempt |-> n]]
      BY <3>1
    <3> HIDE DEF i
    <3>3. calls'[c].intent = i /\ calls'[c].phase = p /\ \A d \in CallId \ {c} : calls'[d] = calls[d]
      BY <3>2, CallSet
    <3> QED
      BY <3>3 DEF i
  <2> QED
    BY <1>1, <2>1, <2>2
<1> QED
  BY <1>2 DEF CallsGoOn, Begun

LEMMA BeginGoesOn ==
  ASSUME Shape, NEW c \in CallId, NEW i, BeginWith(c, i, "refused")
  PROVE  /\ CallsGoOn /\ c \in Begun' /\ calls'[c].intent = i
         /\ \A b \in Begun : b < c
<1>1. calls[c].phase = "unused" /\ \A b \in Begun : b < c
  BY RpcConstants DEF BeginWith, NextCall, CallId, Begun
<1>2. PICK p \in {"refused", "attempt"}, n \in {0, 1} :
         calls' = [calls EXCEPT ![c] = [intent |-> i, phase |-> p, attempt |-> n]]
  BY DEF BeginWith
<1>3. calls'[c].intent = i /\ calls'[c].phase = p /\ \A d \in CallId \ {c} : calls'[d] = calls[d]
  BY <1>2, CallSet
<1> QED
  BY <1>1, <1>3 DEF CallsGoOn, Begun

LEMMA ReloadGoesOn == ASSUME Shape, Reload  PROVE CallsGoOn
<1>1. ASSUME NEW c \in CallId
      PROVE  \/ calls'[c] = [intent |-> calls[c].intent, phase |-> "abandoned", attempt |-> 0]
             \/ calls'[c] = calls[c]
  BY DEF Reload
<1>2. ASSUME NEW c \in CallId, calls[c].phase # "unused"
      PROVE  calls'[c].phase # "unused" /\ calls'[c].intent = calls[c].intent
  <2>1. CASE calls'[c] = [intent |-> calls[c].intent, phase |-> "abandoned", attempt |-> 0]
    BY <2>1
  <2>2. CASE calls'[c] = calls[c]
    BY <2>2, <1>2
  <2> QED
    BY <1>1, <2>1, <2>2
<1> QED
  BY <1>2 DEF CallsGoOn, Begun

\* A call that goes on leaves the queue and the sweeps alone, unless it gives
\* up and its write is queued.
Queues(c) ==
  /\ c \in Begun
  /\ queue' = enqueueFailedWrite(c, calls[c].intent)

LEMMA NetworkErrorQueues ==
  ASSUME Shape, NEW c \in Begun, NetworkError(c)
  PROVE  CallsGoOn /\ UNCHANGED sweeps /\ (UNCHANGED queue \/ Queues(c))
<1>1. CASE Backoff(c)
  BY <1>1, OneGoesOn DEF Backoff, Begun
<1>2. CASE Exhausted(c)
  BY <1>2, OneGoesOn DEF Exhausted, Queues, Begun
<1> QED
  BY <1>1, <1>2 DEF NetworkError

LEMMA StepQueues ==
  ASSUME Shape, NEW c \in CallId, CallStep(c)
  PROVE  CallsGoOn /\ UNCHANGED sweeps /\ (UNCHANGED queue \/ Queues(c))
<1>1. c \in Begun
  BY DEF CallStep, Wake, Read, Prepare, Submit, Poll, Begun
<1>2. CASE Wake(c)
  BY <1>2, OneGoesOn DEF Wake
<1>3. CASE \E p \in {"success", "errorResult", "unconfirmed"} : Returns(c, p)
  BY <1>3, OneGoesOn DEF Returns
<1>4. CASE Throws(c)
  BY <1>4, OneGoesOn DEF Throws
<1>5. CASE NetworkError(c)
  BY <1>1, <1>5, NetworkErrorQueues
<1>6. CASE \E p \in {"submit", "polling"} : calls' = [calls EXCEPT ![c].phase = p]
        /\ UNCHANGED <<queue, sweeps>>
  BY <1>6, OneGoesOn
<1> QED
  BY <1>2, <1>3, <1>4, <1>5, <1>6 DEF CallStep, Read, Prepare, Submit, Poll

LEMMA EntriesStay == ASSUME CallsGoOn  PROVE Entries \subseteq Entries'
BY DEF CallsGoOn, Entries

LEMMA EntryOf ==
  ASSUME NEW c \in Begun, clock \in Nat
  PROVE  [call |-> c, intent |-> calls[c].intent, id |-> Id(calls[c].intent)] \in Entries
BY DEF Entries, Id

\* The clock only goes forward.
LEMMA ClockGoesOn ==
  ASSUME clock \in Nat, [RpcNext]_rpcVars  PROVE clock' \in Nat
<1>1. ASSUME NEW c \in CallId, CallStep(c)  PROVE UNCHANGED clock
  BY <1>1 DEF CallStep, Wake, Read, Prepare, Submit, Poll
<1>2. ASSUME NEW s \in Sweeps, SweepStep(s)  PROVE UNCHANGED clock
  BY <1>2 DEF SweepStep, SweepDone, SweepNext
<1>3. CASE UserStep
  BY <1>3 DEF UserStep, Begin, StartSweep, saveRetryConfig, resetCircuitBreaker,
     clearFailedWriteQueue
<1>4. CASE Ledger \/ BackoffTimer \/ refreshCircuit \/ Reload
  BY <1>4 DEF Ledger, Decide, BackoffTimer, refreshCircuit, Reload
<1>5. CASE Tick
  BY <1>5 DEF Tick
<1> QED
  BY <1>1, <1>2, <1>3, <1>4, <1>5 DEF RpcNext, rpcVars

LEMMA Unswept ==
  ASSUME NEW s \in Sweeps, SweepOK(s), CallsGoOn, sweeps'[s] = sweeps[s]  PROVE SweepOK(s)'
<1>1. sweeps[s].left \in Seq(Entries')
  BY EntriesStay DEF SweepOK
<1>2. sweeps[s].call # 0 => sweeps[s].call \in Begun'
        /\ calls'[sweeps[s].call].intent = calls[sweeps[s].call].intent
  BY DEF SweepOK, CallsGoOn
<1> QED
  BY <1>1, <1>2 DEF SweepOK

\* What a failed write adds to the queue, and which entries it takes the
\* place of.
LEMMA Enqueued ==
  ASSUME QueueInv, NEW c \in Begun, NEW new, new = enqueueFailedWrite(c, calls[c].intent)
  PROVE  /\ new \in Seq(Entries) /\ Len(new) <= QueueSize
         /\ \E k \in DOMAIN new : new[k].call = c /\ new[k].id = Id(calls[c].intent)
         /\ Len(new) < QueueSize => \A i \in DOMAIN queue :
              queue[i].id # Id(calls[c].intent) => \E k \in DOMAIN new : new[k] = queue[i]
<1> DEFINE i0    == calls[c].intent
           entry == [call |-> c, intent |-> i0, id |-> Id(i0)]
           gone  == {q \in ToSet(queue) : q.id = Id(i0)}
           kept  == Without(queue, gone)
           all   == <<entry>> \o kept
           n     == IF Len(all) < QueueSize THEN Len(all) ELSE QueueSize
<1>1. new = SubSeq(all, 1, n)
  BY DEF enqueueFailedWrite, WithoutId
<1>2. entry \in Entries /\ entry.call = c /\ entry.id = Id(i0)
  BY EntryOf DEF QueueInv
<1>3. kept \in Seq(Entries) /\ ToSet(kept) = ToSet(queue) \ gone
  BY WithoutIs DEF QueueInv
<1>4. \A i \in DOMAIN queue : queue[i].id # Id(i0) => queue[i] \in ToSet(kept)
  <2>1. \A i \in DOMAIN queue : queue[i] \in ToSet(queue)
    BY DEF QueueInv, ToSet
  <2> QED
    BY <1>3, <2>1
<1> HIDE DEF entry, kept, gone
<1>5. /\ all \in Seq(Entries) /\ Len(all) = Len(kept) + 1 /\ Len(kept) \in Nat /\ all[1] = entry
      /\ \A k \in DOMAIN kept : all[k + 1] = kept[k]
  BY <1>2, <1>3
<1> HIDE DEF all
<1>6. n \in Nat /\ n \in 1 .. Len(all) /\ n <= QueueSize /\ (n < QueueSize => n = Len(all))
  BY <1>5, RpcConstants
<1> HIDE DEF n
<1>7. new \in Seq(Entries) /\ Len(new) = n /\ DOMAIN new = 1 .. n /\ \A k \in 1 .. n : new[k] = all[k]
  BY <1>1, <1>5, <1>6
<1>8. \E k \in DOMAIN new : new[k].call = c /\ new[k].id = Id(i0)
  BY <1>2, <1>5, <1>6, <1>7
<1>9. ASSUME Len(new) < QueueSize, NEW i \in DOMAIN queue, queue[i].id # Id(i0)
      PROVE  \E k \in DOMAIN new : new[k] = queue[i]
  <2>1. PICK k \in DOMAIN kept : kept[k] = queue[i]
    BY <1>4, <1>9, <1>3 DEF ToSet
  <2>2. k + 1 \in 1 .. n
    BY <1>3, <1>5, <1>6, <1>7, <1>9
  <2> QED
    BY <1>5, <1>7, <2>1, <2>2
<1> QED
  BY <1>6, <1>7, <1>8, <1>9

\* An entry that has to go for the new one is of a write of its own.
LEMMA Replaced ==
  ASSUME QueueInv, NEW c \in Begun, queue' = enqueueFailedWrite(c, calls[c].intent),
         NEW i \in DOMAIN queue
  PROVE  LeavesQueueForAReason(i)
<1>1. /\ queue' \in Seq(Entries) /\ Len(queue') <= QueueSize
      /\ \E k \in DOMAIN queue' : queue'[k].call = c /\ queue'[k].id = Id(calls[c].intent)
      /\ Len(queue') < QueueSize =>
           (queue[i].id # Id(calls[c].intent) => \E k \in DOMAIN queue' : queue'[k] = queue[i])
  BY Enqueued
<1>2. CASE Len(queue') = QueueSize
  BY <1>2 DEF LeavesQueueForAReason
<1>3. CASE queue[i].call = c
  BY <1>1, <1>3 DEF LeavesQueueForAReason
<1>4. CASE queue[i].call # c /\ queue[i].id = Id(calls[c].intent)
  <2>1. PICK k \in DOMAIN queue' : queue'[k].call = c /\ queue'[k].id = Id(calls[c].intent)
    BY <1>1
  <2>2. queue'[k] \in ToSet(queue')
    BY <1>1 DEF ToSet
  <2>3. SharesItsId(queue[i])
    BY <1>4, <2>1, <2>2 DEF SharesItsId
  <2> QED
    BY <2>3 DEF LeavesQueueForAReason
<1>5. CASE Len(queue') < QueueSize /\ queue[i].id # Id(calls[c].intent)
  BY <1>1, <1>5 DEF LeavesQueueForAReason
<1> QED
  BY <1>1, <1>2, <1>3, <1>4, <1>5, RpcConstants

LEMMA QueueStep ==
  ASSUME Shape, QueueInv, [RpcNext]_rpcVars
    PROVE QueueInv' /\ \A i \in DOMAIN queue : LeavesQueueForAReason(i)
<1> DEFINE Fine == QueueInv' /\ \A i \in DOMAIN queue : LeavesQueueForAReason(i)
<1> SUFFICES Fine
  OBVIOUS
<1>0. clock' \in Nat
  BY ClockGoesOn DEF QueueInv
<1> HIDE DEF Fine
<1>1. ASSUME CallsGoOn, UNCHANGED <<queue, sweeps>>  PROVE Fine
  <2>1. queue' \in Seq(Entries')
    BY <1>1, EntriesStay DEF QueueInv
  <2>2. \A s \in Sweeps : SweepOK(s)'
    BY <1>1, Unswept DEF QueueInv
  <2> QED
    BY <1>0, <1>1, <2>1, <2>2 DEF QueueInv, LeavesQueueForAReason, Fine
<1>2. ASSUME NEW c \in CallId, CallsGoOn, UNCHANGED sweeps, Queues(c)  PROVE Fine
  <2>1. c \in Begun /\ queue' = enqueueFailedWrite(c, calls[c].intent)
    BY <1>2 DEF Queues
  <2>2. queue' \in Seq(Entries)
    BY <2>1, Enqueued
  <2>3. queue' \in Seq(Entries')
    BY <1>2, <2>2, EntriesStay
  <2>4. \A s \in Sweeps : SweepOK(s)'
    BY <1>2, Unswept DEF QueueInv
  <2>5. \A i \in DOMAIN queue : LeavesQueueForAReason(i)
    BY <2>1, Replaced
  <2> QED
    BY <1>0, <1>2, <2>3, <2>4, <2>5 DEF QueueInv, Fine
<1>3. ASSUME NEW s \in Sweeps, StartSweep(s)  PROVE Fine
  <2>1. /\ UNCHANGED <<queue, calls>> /\ sweeps[s].call = 0
        /\ sweeps' = [sweeps EXCEPT ![s].left = queue]
    BY <1>3 DEF StartSweep
  <2>2. sweeps'[s] = [left |-> queue, call |-> 0]
          /\ \A t \in Sweeps \ {s} : sweeps'[t] = sweeps[t]
    BY <2>1 DEF QueueInv, SweepOK
  <2>3. queue \in Seq(Entries) /\ Entries' = Entries /\ CallsGoOn
    BY <2>1 DEF QueueInv, Entries, Begun, CallsGoOn
  <2>4. SweepOK(s)'
    BY <2>2, <2>3 DEF SweepOK
  <2>5. \A t \in Sweeps \ {s} : SweepOK(t)'
    BY <2>2, <2>3, Unswept DEF QueueInv
  <2>6. sweeps' = [t \in Sweeps |-> sweeps'[t]]
    BY <2>1 DEF QueueInv
  <2> QED
    BY <1>0, <2>1, <2>3, <2>4, <2>5, <2>6 DEF QueueInv, LeavesQueueForAReason, Fine
<1>4. ASSUME NEW s \in Sweeps, NEW c \in CallId, SweepNext(s, c)  PROVE Fine
  <2>1. /\ UNCHANGED queue /\ sweeps[s].call = 0 /\ sweeps[s].left # <<>>
        /\ sweeps' = [sweeps EXCEPT ![s].call = c]
        /\ BeginWith(c, Head(sweeps[s].left).intent, "refused")
    BY <1>4 DEF SweepNext
  <2>2. /\ CallsGoOn /\ c \in Begun' /\ calls'[c].intent = Head(sweeps[s].left).intent
        /\ \A b \in Begun : b < c
    BY <2>1, BeginGoesOn
  <2>3. sweeps'[s] = [left |-> sweeps[s].left, call |-> c]
          /\ \A t \in Sweeps \ {s} : sweeps'[t] = sweeps[t]
    BY <2>1 DEF QueueInv, SweepOK
  <2>4. sweeps[s].left \in Seq(Entries) /\ Head(sweeps[s].left) \in Entries
    BY <2>1 DEF QueueInv, SweepOK
  <2>5. Head(sweeps[s].left).call \in Begun
    BY <2>4 DEF Entries
  <2>6. sweeps[s].left \in Seq(Entries')
    BY <2>2, <2>4, EntriesStay
  <2>7. SweepOK(s)'
    BY <2>1, <2>2, <2>3, <2>5, <2>6 DEF SweepOK
  <2>8. \A t \in Sweeps \ {s} : SweepOK(t)'
    BY <2>2, <2>3, Unswept DEF QueueInv
  <2>9. sweeps' = [t \in Sweeps |-> sweeps'[t]]
    BY <2>1 DEF QueueInv
  <2>10. queue' \in Seq(Entries')
    <3>1. Entries \subseteq Entries' /\ queue' = queue /\ queue \in Seq(Entries)
      BY <2>1, <2>2, EntriesStay DEF QueueInv
    <3> QED
      BY <3>1
  <2> QED
    BY <1>0, <2>1, <2>7, <2>8, <2>9, <2>10 DEF QueueInv, LeavesQueueForAReason, Fine
<1>5. ASSUME NEW s \in Sweeps, SweepDone(s)  PROVE Fine
  <2> DEFINE c == sweeps[s].call
             e == Head(sweeps[s].left)
             gone == {q \in ToSet(queue) : q.id = e.id}
  <2>1. /\ c # 0 /\ UNCHANGED calls
        /\ queue' = IF Succeeded(c) THEN Without(queue, gone) ELSE queue
        /\ sweeps' = [sweeps EXCEPT ![s] = [left |-> Tail(sweeps[s].left), call |-> 0]]
    BY <1>5 DEF SweepDone, removeQueuedWrite, WithoutId
  <2>2. /\ sweeps[s].left # <<>> /\ sweeps[s].left \in Seq(Entries) /\ c \in Begun
        /\ e.call < c /\ e.intent = calls[c].intent /\ e \in Entries
    BY <2>1 DEF QueueInv, SweepOK
  <2>3. /\ sweeps'[s] = [left |-> Tail(sweeps[s].left), call |-> 0]
        /\ \A t \in Sweeps \ {s} : sweeps'[t] = sweeps[t]
        /\ sweeps' = [t \in Sweeps |-> sweeps'[t]]
    BY <2>1 DEF QueueInv
  <2>4. Entries' = Entries /\ CallsGoOn
    BY <2>1 DEF Entries, Begun, CallsGoOn
  <2>5. SweepOK(s)'
    BY <2>2, <2>3, <2>4 DEF SweepOK
  <2>6. \A t \in Sweeps \ {s} : SweepOK(t)'
    BY <2>3, <2>4, Unswept DEF QueueInv
  <2>7. CASE Succeeded(c)
    <3>1. queue' \in Seq(Entries) /\ ToSet(queue') = ToSet(queue) \ gone
      BY <2>1, <2>7, WithoutIs DEF QueueInv
    <3>2. ASSUME NEW i \in DOMAIN queue  PROVE LeavesQueueForAReason(i)
      <4>1. queue[i] \in Entries /\ queue[i] \in ToSet(queue)
        BY DEF QueueInv, ToSet
      <4>2. CASE queue[i].call = e.call
        <5>1. queue[i].intent = calls[queue[i].call].intent /\ e.intent = calls[e.call].intent
          BY <2>2, <4>1 DEF Entries
        <5>2. c \in CallId /\ c > queue[i].call /\ calls[c].intent = queue[i].intent
              /\ calls[c].phase \in {"success", "unconfirmed"}
          <6>1. c \in CallId /\ e.call \in CallId
            BY <2>2 DEF Entries, Begun
          <6> QED
            BY <2>2, <2>7, <4>2, <5>1, <6>1 DEF Succeeded, CallId
        <5> QED
          BY <5>2 DEF LeavesQueueForAReason, RetriedSince
      <4>3. CASE queue[i].call # e.call /\ queue[i].id = e.id
        <5>1. e \in Swept
          BY <2>2 DEF Swept
        <5>2. SharesItsId(queue[i])
          BY <4>3, <5>1 DEF SharesItsId
        <5> QED
          BY <5>2 DEF LeavesQueueForAReason
      <4>4. CASE queue[i].id # e.id
        <5>1. queue[i] \in ToSet(queue')
          BY <3>1, <4>1, <4>4
        <5>2. PICK k \in DOMAIN queue' : queue'[k] = queue[i]
          BY <5>1 DEF ToSet
        <5> QED
          BY <5>2 DEF LeavesQueueForAReason
      <4> QED
        BY <4>2, <4>3, <4>4
    <3> QED
      BY <1>0, <2>3, <2>4, <2>5, <2>6, <3>1, <3>2 DEF QueueInv, Fine
  <2>8. CASE ~Succeeded(c)
    <3>1. queue' = queue
      BY <2>1, <2>8
    <3> QED
      BY <1>0, <2>3, <2>4, <2>5, <2>6, <3>1 DEF QueueInv, LeavesQueueForAReason, Fine
  <2> QED
    BY <2>7, <2>8
<1>6. CASE Tick
  <2>1. UNCHANGED <<queue, calls, sweeps>>
    BY <1>6 DEF Tick
  <2> QED
    BY <1>1, <2>1 DEF CallsGoOn, Begun
<1>7. CASE clearFailedWriteQueue
  <2>1. queue' = <<>> /\ UNCHANGED <<calls, sweeps>>
    BY <1>7 DEF clearFailedWriteQueue
  <2>2. CallsGoOn
    BY <2>1 DEF Begun, CallsGoOn
  <2>3. \A s \in Sweeps : SweepOK(s)'
    BY <2>1, <2>2, Unswept DEF QueueInv
  <2> QED
    BY <1>0, <2>1, <2>3 DEF QueueInv, LeavesQueueForAReason, Fine
<1>8. CASE Reload
  <2>1. sweeps' = [s \in Sweeps |-> NoSweep] /\ UNCHANGED queue /\ CallsGoOn
    BY <1>8, ReloadGoesOn DEF Reload
  <2>2. ASSUME NEW s \in Sweeps  PROVE SweepOK(s)'
    <3>1. sweeps'[s] = [left |-> <<>>, call |-> 0] /\ <<>> \in Seq(Entries')
      BY <2>1, EmptySeq DEF NoSweep
    <3> QED
      BY <3>1 DEF SweepOK
  <2>3. queue' \in Seq(Entries')
    BY <2>1, EntriesStay DEF QueueInv
  <2> QED
    BY <1>0, <2>1, <2>2, <2>3 DEF QueueInv, LeavesQueueForAReason, Fine
<1>9. ASSUME NEW c \in CallId, NEW m \in Methods, Begin(c, m)  PROVE Fine
  BY <1>1, <1>9, BeginGoesOn DEF Begin
<1>10. ASSUME NEW c \in CallId, CallStep(c)  PROVE Fine
  BY <1>1, <1>2, <1>10, StepQueues
<1>11. CASE UNCHANGED <<calls, queue, sweeps>>
  <2>1. CallsGoOn
    BY <1>11 DEF CallsGoOn, Begun
  <2> QED
    BY <1>1, <1>11, <2>1
<1>12. CASE Ledger
  BY <1>11, <1>12 DEF Ledger, Decide, callVars
<1>13. ASSUME NEW p \in Patches, saveRetryConfig(p)  PROVE Fine
  BY <1>11, <1>13 DEF saveRetryConfig
<1>14. CASE resetCircuitBreaker \/ BackoffTimer \/ refreshCircuit
  BY <1>11, <1>14 DEF resetCircuitBreaker, BackoffTimer, refreshCircuit
<1>15. CASE UNCHANGED rpcVars
  BY <1>11, <1>15 DEF rpcVars, callVars
<1> QED
  BY <1>3, <1>4, <1>5, <1>6, <1>7, <1>8, <1>9, <1>10, <1>12, <1>13, <1>14, <1>15 DEF RpcNext,
     UserStep, SweepStep

LEMMA QueueStarts == ASSUME RpcInit  PROVE QueueInv
<1>1. queue = <<>> /\ sweeps = [s \in Sweeps |-> NoSweep] /\ <<>> \in Seq(Entries) /\ clock = 0
  BY EmptySeq DEF RpcInit
<1>2. ASSUME NEW s \in Sweeps  PROVE SweepOK(s)
  <2>1. sweeps[s] = [left |-> <<>>, call |-> 0] /\ <<>> \in Seq(Entries)
    BY <1>1 DEF NoSweep
  <2> QED
    BY <2>1 DEF SweepOK
<1> QED
  BY <1>1, <1>2 DEF QueueInv

\* However many sweeps run at once over a queue that fails, clicks and the
\* clock change, no failed write gets lost unless it shares its id with another
\* (contract-retry.ts makes ids of the millisecond and the method).
THEOREM WritesAreRemembered == RpcSpec => LostOnlyBySharedId
<1>1. Shape /\ QueueInv /\ [RpcNext]_rpcVars => QueueInv'
        /\ [\A i \in DOMAIN queue : LeavesQueueForAReason(i)]_rpcVars
  BY QueueStep
<1>2. CallInv => Shape
  BY DEF CallInv
<1>3. RpcInit => QueueInv
  BY QueueStarts
<1> QED
  BY <1>1, <1>2, <1>3, CallInvHolds, PTL DEF RpcSpec, LostOnlyBySharedId
=============================================================================

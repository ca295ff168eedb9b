------------------------------ MODULE Retainer ------------------------------
(***************************************************************************)
(* The retainer contract: agreements a client renews with a freelancer at  *)
(* intervals, a limit on the rate of calls, and jobs noted for and from    *)
(* other chains.  A call that returns an error leaves nothing behind, its  *)
(* count in the caller's window included.                                  *)
(***************************************************************************)
EXTENDS SorobanEnv, Integers, Sequences

CONSTANTS MaxWindow,      \* MAX_RATE_LIMIT_WINDOW_SECONDS
          Intervals,      \* intervals agreed on
          RenewalLimits,  \* numbers of renewals agreed on
          RateLimits,     \* settings the administrator tries
          MaxRetainers,   \* bound: agreements made
          MaxCrossJobs    \* bound: jobs noted for other chains

ASSUME RetainerAssumption ==
  /\ MaxWindow \in Nat
  /\ Intervals \subseteq Nat
  /\ RenewalLimits \subseteq Nat
  /\ RateLimits \subseteq [max_calls : Nat, window_seconds : Nat]

VARIABLES
  retainers,   \* Retainer(id)
  rateLimit,   \* RateLimitConfig
  window,      \* RateLimitState(address); no calls where there is none yet
  trusted,     \* TrustedAddress(address)
  crossJobs    \* CrossChainJob(id): whether it was imported

retainerVars == <<now, retainers, rateLimit, window, trusted, crossJobs>>

NoRateLimit == [max_calls |-> 0, window_seconds |-> 0]

RetainerInit ==
  /\ retainers = <<>>
  /\ rateLimit = NoRateLimit
  /\ window = [u \in Users |-> [started |-> 0, calls |-> 0]]
  /\ trusted = {}
  /\ crossJobs = <<>>

-----------------------------------------------------------------------------
\* enforce_rate_limit: a caller who is trusted, or any while there is no
\* limit, goes uncounted; the first window, and one that is over, starts with
\* this call.
CurrentWindow(caller) ==
  IF window[caller].calls = 0 \/ now - window[caller].started >= rateLimit.window_seconds
  THEN [started |-> now, calls |-> 0]
  ELSE window[caller]

enforce_rate_limit(caller) ==
  \/ /\ caller \in trusted \/ rateLimit.max_calls = 0
     /\ UNCHANGED window
  \/ /\ caller \notin trusted /\ rateLimit.max_calls # 0
     /\ CurrentWindow(caller).calls < rateLimit.max_calls
     /\ window' = [window EXCEPT ![caller] =
                     [CurrentWindow(caller) EXCEPT !.calls = @ + 1]]

create_retainer(client, freelancer, interval, renewals) ==
  /\ Len(retainers) < MaxRetainers
  /\ enforce_rate_limit(client)
  /\ retainers' = Append(retainers,
       [client |-> client, freelancer |-> freelancer, interval |-> interval,
        max_renewals |-> renewals, current_renewal |-> 0, status |-> "Active",
        created_at |-> now, last_renewed_at |-> now])
  /\ UNCHANGED <<now, rateLimit, trusted, crossJobs>>

\* The call after the last renewal, one more interval later, completes the
\* agreement.
Fault_Renewed_keeps_time(r) ==
  IF r.current_renewal >= r.max_renewals
  THEN [r EXCEPT !.status = "Completed"]
  ELSE [r EXCEPT !.current_renewal = @ + 1]

Renewed(r) ==
  IF r.current_renewal >= r.max_renewals
  THEN [r EXCEPT !.status = "Completed"]
  ELSE [r EXCEPT !.current_renewal = @ + 1, !.last_renewed_at = now]

renew_retainer(caller, i) ==
  LET r == retainers[i]
  IN  /\ caller \in {r.client, r.freelancer}
      /\ enforce_rate_limit(caller)
      /\ r.status = "Active"
      /\ now >= r.last_renewed_at + r.interval
      /\ retainers' = [retainers EXCEPT ![i] = Renewed(r)]
      /\ UNCHANGED <<now, rateLimit, trusted, crossJobs>>

cancel_retainer(client, i) ==
  /\ enforce_rate_limit(client)
  /\ retainers[i].client = client
  /\ retainers[i].status = "Active"
  /\ retainers' = [retainers EXCEPT ![i].status = "Cancelled"]
  /\ UNCHANGED <<now, rateLimit, trusted, crossJobs>>

-----------------------------------------------------------------------------
\* Calls of the administrator.  An import does not look at what was exported,
\* nor whether it was imported before.
export_job ==
  /\ Len(crossJobs) < MaxCrossJobs
  /\ crossJobs' = Append(crossJobs, [imported |-> FALSE])
  /\ UNCHANGED <<now, retainers, rateLimit, window, trusted>>

import_job(i) ==
  /\ crossJobs' = [crossJobs EXCEPT ![i].imported = TRUE]
  /\ UNCHANGED <<now, retainers, rateLimit, window, trusted>>

set_rate_limit(config) ==
  /\ (config.max_calls = 0) = (config.window_seconds = 0)
  /\ config.window_seconds <= MaxWindow
  /\ rateLimit' = config
  /\ UNCHANGED <<now, retainers, window, trusted, crossJobs>>

set_trusted_address(address, is_trusted) ==
  /\ trusted' = IF is_trusted THEN trusted \cup {address} ELSE trusted \ {address}
  /\ UNCHANGED <<now, retainers, rateLimit, window, crossJobs>>

RetainerCall ==
  \/ \E u, v \in Users, i \in Intervals, n \in RenewalLimits : create_retainer(u, v, i, n)
  \/ \E u \in Users, i \in DOMAIN retainers : renew_retainer(u, i) \/ cancel_retainer(u, i)
  \/ export_job
  \/ \E i \in DOMAIN crossJobs : import_job(i)
  \/ \E config \in RateLimits : set_rate_limit(config)
  \/ \E u \in Users, b \in BOOLEAN : set_trusted_address(u, b)

RetainerClock ==
  /\ now' \in Nat
  /\ now' > now
  /\ UNCHANGED <<retainers, rateLimit, window, trusted, crossJobs>>

RetainerSpec ==
  /\ now \in Nat /\ RetainerInit
  /\ [][RetainerCall \/ RetainerClock]_retainerVars

-----------------------------------------------------------------------------
\* However calls of both parties, of either at any time, and of others come,
\* an agreement is renewed at most once per interval and at most as often as
\* agreed, and it is complete only when it has been renewed that often.
RetainersPaced ==
  \A i \in DOMAIN retainers :
    LET r == retainers[i]
    IN  /\ r.current_renewal <= r.max_renewals
        /\ now >= r.created_at + r.current_renewal * r.interval
        /\ r.status = "Completed" => r.current_renewal = r.max_renewals
=============================================================================

----------------------------- MODULE Governance -----------------------------
(***************************************************************************)
(* Who administers the contract, and the replacement of its code after a   *)
(* timelock.  The administrator may be replaced at once, or by nomination  *)
(* and acceptance; both ways may be under way together.                    *)
(***************************************************************************)
EXTENDS SorobanEnv, Integers

CONSTANTS Wasms,                  \* hashes of contract code
          NoWasm,                 \* no hash
          UPGRADE_TIMELOCK_SECS   \* between proposal and execution

ASSUME GovernanceAssumption ==
  /\ NoOne \notin Users
  /\ NoWasm \notin Wasms
  /\ UPGRADE_TIMELOCK_SECS \in Nat

VARIABLES
  admin,         \* Admin
  pendingAdmin,  \* PendingAdmin
  nominator,     \* history: who made the pending nomination
  pendingWasm,   \* PendingUpgradeWasmHash
  deadline,      \* PendingUpgradeDeadline
  code,          \* hash of the code in place
  announced      \* history: when a hash was last proposed

adminVars   == <<admin, pendingAdmin, nominator>>
upgradeVars == <<pendingWasm, deadline, code, announced>>
governanceVars == <<now, adminVars, upgradeVars>>

GovernanceInit ==
  /\ admin \in Users
  /\ pendingAdmin = NoOne
  /\ nominator = NoOne
  /\ pendingWasm = NoWasm
  /\ deadline = 0
  /\ code = NoWasm
  /\ announced = [h \in Wasms |-> 0]

-----------------------------------------------------------------------------
Fault_transfer_admin_keeps_nomination(caller, new_admin) ==
  /\ caller = admin
  /\ admin' = new_admin
  /\ UNCHANGED <<now, pendingAdmin, nominator, upgradeVars>>

transfer_admin(caller, new_admin) ==
  /\ caller = admin
  /\ admin' = new_admin
  /\ pendingAdmin' = NoOne
  /\ UNCHANGED <<now, nominator, upgradeVars>>

transfer_ownership(caller, new_admin) ==
  /\ caller = admin
  /\ pendingAdmin' = new_admin
  /\ nominator' = caller
  /\ UNCHANGED <<now, admin, upgradeVars>>

accept_ownership(caller) ==
  /\ pendingAdmin # NoOne
  /\ caller = pendingAdmin
  /\ admin' = caller
  /\ pendingAdmin' = NoOne
  /\ UNCHANGED <<now, nominator, upgradeVars>>

cancel_ownership_transfer(caller) ==
  /\ caller = admin
  /\ pendingAdmin # NoOne
  /\ pendingAdmin' = NoOne
  /\ UNCHANGED <<now, admin, nominator, upgradeVars>>

-----------------------------------------------------------------------------
\* A second proposal replaces the first and starts the timelock again.
Fault_propose_upgrade_keeps_deadline(caller, hash) ==
  /\ caller = admin
  /\ pendingWasm' = hash
  /\ deadline' = IF pendingWasm = NoWasm THEN now + UPGRADE_TIMELOCK_SECS ELSE deadline
  /\ announced' = [announced EXCEPT ![hash] = now]
  /\ UNCHANGED <<now, adminVars, code>>

propose_upgrade(caller, hash) ==
  /\ caller = admin
  /\ pendingWasm' = hash
  /\ deadline' = now + UPGRADE_TIMELOCK_SECS
  /\ announced' = [announced EXCEPT ![hash] = now]
  /\ UNCHANGED <<now, adminVars, code>>

\* The proposal of a former administrator is still there for his successor.
execute_upgrade(caller) ==
  /\ caller = admin
  /\ pendingWasm # NoWasm
  /\ now >= deadline
  /\ code' = pendingWasm
  /\ pendingWasm' = NoWasm
  /\ deadline' = 0
  /\ UNCHANGED <<now, adminVars, announced>>

cancel_upgrade(caller) ==
  /\ caller = admin
  /\ pendingWasm # NoWasm
  /\ pendingWasm' = NoWasm
  /\ deadline' = 0
  /\ UNCHANGED <<now, adminVars, code, announced>>

TimePasses ==
  /\ now' \in Nat
  /\ now' > now
  /\ UNCHANGED <<adminVars, upgradeVars>>
-----------------------------------------------------------------------------
GovernanceCall ==
  \E a \in Users :
    \/ \E b \in Users : transfer_admin(a, b) \/ transfer_ownership(a, b)
    \/ accept_ownership(a)
    \/ cancel_ownership_transfer(a)
    \/ \E h \in Wasms : propose_upgrade(a, h)
    \/ execute_upgrade(a)
    \/ cancel_upgrade(a)

GovernanceSpec ==
  /\ now \in Nat /\ GovernanceInit
  /\ [][GovernanceCall \/ TimePasses]_governanceVars

GovernanceTypeOK ==
  /\ now \in Nat
  /\ admin \in Users
  /\ {pendingAdmin, nominator} \subseteq Users \cup {NoOne}
  /\ {pendingWasm, code} \subseteq Wasms \cup {NoWasm}
  /\ deadline \in Nat
  /\ announced \in [Wasms -> Nat]

\* Whoever may still accept the administration was nominated by the one who
\* holds it now: no nomination outlives a transfer by the other way, however
\* nominations, cancellations and transfers alternate.
NominationIsCurrent == pendingAdmin # NoOne => nominator = admin

\* New code takes effect no sooner than the timelock after it was proposed for
\* the last time, though proposals are replaced, withdrawn and made anew, and
\* administrators change meanwhile.
UpgradeWaits ==
  [][code' # code => now >= announced[code'] + UPGRADE_TIMELOCK_SECS]_governanceVars
=============================================================================

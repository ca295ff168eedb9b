---------------------------- MODULE EscrowLedger ----------------------------
(***************************************************************************)
(* What the escrow contract promises about the money of a job, whatever    *)
(* its life looks like: a job is funded once, may be topped up while it is *)
(* alive, and is settled once, by a division that gives everything that    *)
(* was put in, and nothing else, to the client, the freelancer, the fee    *)
(* ledger and the burn pool.  Nothing happens to it afterwards.            *)
(***************************************************************************)
EXTENDS Integers

CONSTANT Id        \* job ids

VARIABLES stage,   \* "Absent", "Live" or "Settled"
          pot,     \* what is in escrow for a job
          shares   \* how a settled job was divided

ledgerVars == <<stage, pot, shares>>

Shares  == [client : Nat, freelancer : Nat, accrued : Nat, burned : Nat]
Nothing == [client |-> 0, freelancer |-> 0, accrued |-> 0, burned |-> 0]

Divides(s, amount) == s.client + s.freelancer + s.accrued + s.burned = amount

\* The other jobs keep their entry.
SameElsewhere(j, before, after) == \A k \in Id \ {j} : after[k] = before[k]

-----------------------------------------------------------------------------
LedgerInit ==
  /\ stage = [j \in Id |-> "Absent"]
  /\ pot = [j \in Id |-> 0]
  /\ shares = [j \in Id |-> Nothing]

\* Money comes in for a new job or for one that is alive.
PutIn(j) ==
  /\ stage[j] \in {"Absent", "Live"}
  /\ stage' = [stage EXCEPT ![j] = "Live"]
  /\ pot' \in [Id -> Nat]
  /\ pot'[j] > pot[j]
  /\ SameElsewhere(j, pot, pot')
  /\ UNCHANGED shares

Divide(j) ==
  /\ stage[j] = "Live"
  /\ stage' = [stage EXCEPT ![j] = "Settled"]
  /\ pot' = [pot EXCEPT ![j] = 0]
  /\ shares' \in [Id -> Shares]
  /\ Divides(shares'[j], pot[j])
  /\ SameElsewhere(j, shares, shares')

LedgerNext == \E j \in Id : PutIn(j) \/ Divide(j)

LedgerSpec == LedgerInit /\ [][LedgerNext]_ledgerVars
=============================================================================

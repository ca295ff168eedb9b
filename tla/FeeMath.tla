------------------------------ MODULE FeeMath ------------------------------
(***************************************************************************)
(* The fee arithmetic of the escrow contract: which rate a job pays and    *)
(* how an escrowed amount is divided when the job ends.  Every way a job   *)
(* can end produces one record, a Split, with the shares of the client, of *)
(* the freelancer, of the withdrawable fee ledger and of the burn pool.    *)
(***************************************************************************)
EXTENDS Integers
\* Here and in the modules that build on this one, an operator named Fault_...
\* is a wrong version of the definition that follows it, used only to confirm
\* that the property it breaks can tell the difference.

CONSTANTS I128_MAX,   \* the largest i128: products beyond it panic
          NoTier      \* an empty slot of the fee-tier table

ASSUME FeeMathAssumption == I128_MAX \in Nat

BPS_DENOMINATOR    == 10000
MAX_FEE_BPS        == 1000
MAX_FEE_BPS_CONFIG == 10000
MAX_FEE_TIERS      == 10
REFERRAL_BPS       == 50

Bps == 0 .. BPS_DENOMINATOR

FeeTier  == [minAmount : Int, feeBps : 1 .. MAX_FEE_BPS_CONFIG]
TierSlot == 0 .. MAX_FEE_TIERS - 1

(***************************************************************************)
(* checked_mul_div multiplies first and divides second, truncating; the    *)
(* call panics, and the whole transaction with it, when the product        *)
(* overflows, whatever the quotient would have been.                       *)
(***************************************************************************)
Fault_MulFits_scales_first(left, mul) == left * BPS_DENOMINATOR <= I128_MAX

MulFits(left, mul) == left * mul <= I128_MAX
BpsOf(left, bps)   == (left * bps) \div BPS_DENOMINATOR

(***************************************************************************)
(* calculate_fee_for_amount scans the tiers in index order and keeps the   *)
(* last one the amount reaches: the highest index wins, not the best match.*)
(***************************************************************************)
calculate_fee_for_amount(amount, base, tiers) ==
  LET reached == {i \in TierSlot : tiers[i] # NoTier /\ amount >= tiers[i].minAmount}
  IN  IF reached = {} THEN base
      ELSE tiers[CHOOSE i \in reached : \A k \in reached : k <= i].feeBps

-----------------------------------------------------------------------------
NoSplit == [client |-> 0, freelancer |-> 0, accrued |-> 0, burned |-> 0]

Total(s) == s.client + s.freelancer + s.accrued + s.burned

AddSplit(s, t) == [client     |-> s.client + t.client,
                   freelancer |-> s.freelancer + t.freelancer,
                   accrued    |-> s.accrued + t.accrued,
                   burned     |-> s.burned + t.burned]

\* Cancellation, deadline enforcement, a verdict for the client, recovery.
RefundSplit(amount) == [NoSplit EXCEPT !.client = amount]

\* approve_work: the freelancer pays the platform fee and the late fee; a
\* part of the platform fee is diverted to the burn pool.
Fault_ApprovalSplit_keeps_burn(amount, feeBps, lateFee, burnBps) ==
  LET fee == BpsOf(amount, feeBps)
  IN  [client |-> 0, freelancer |-> amount - fee - lateFee,
       accrued |-> fee + lateFee, burned |-> BpsOf(fee, burnBps)]

ApprovalSplit(amount, feeBps, lateFee, burnBps) ==
  LET fee  == BpsOf(amount, feeBps)
      burn == BpsOf(fee, burnBps)
  IN  [client     |-> 0,
       freelancer |-> amount - fee - lateFee,
       accrued    |-> (fee - burn) + lateFee,
       burned     |-> burn]

\* mutual_cancel: the parties agree on a share each, free of any fee.
MutualSplit(amount, clientBps) ==
  LET share == BpsOf(amount, clientBps)
  IN  [client |-> share, freelancer |-> amount - share, accrued |-> 0, burned |-> 0]

\* resolve_dispute and resolve_dispute_split: the client's share is free of
\* fee, the freelancer's part pays the base rate.
DisputeSplit(amount, clientBps, feeBps) ==
  LET share == BpsOf(amount, clientBps)
      gross == amount - share
      fee   == BpsOf(gross, feeBps)
  IN  [client |-> share, freelancer |-> gross - fee, accrued |-> fee, burned |-> 0]

\* submit_verdict for the freelancer: the tiered rate, no burn, no late fee.
Fault_VerdictSplit_pays_gross(amount, feeBps) ==
  [NoSplit EXCEPT !.freelancer = amount, !.accrued = BpsOf(amount, feeBps)]

VerdictSplit(amount, feeBps) ==
  LET fee == BpsOf(amount, feeBps)
  IN  [client |-> 0, freelancer |-> amount - fee, accrued |-> fee, burned |-> 0]
=============================================================================

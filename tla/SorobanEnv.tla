----------------------------- MODULE SorobanEnv -----------------------------
(***************************************************************************)
(* The part of the Env that both contracts share: the addresses that sign  *)
(* their calls, and the timestamp of the ledger a call is applied in.      *)
(***************************************************************************)
CONSTANTS Users,   \* addresses that call: parties, approvers, administrators
          NoOne    \* the None of an Option<Address>

VARIABLE now       \* e.ledger().timestamp()
=============================================================================

-------------------------------- MODULE Lists --------------------------------
(***************************************************************************)
(* A list without some of its members, as the contract rebuilds its list   *)
(* of job ids (archive_old_jobs), the client filters its queue of failed   *)
(* writes (contract-retry.ts) and an export keeps the chosen days          *)
(* (TransactionCSVExport.tsx).  It is SelectSeq over a set, written as a   *)
(* recursive function.                                                     *)
(***************************************************************************)
EXTENDS Integers, Sequences, SequencesExt

\* kept[n] is what is left of the first n members.
Without(list, gone) ==
  LET kept[n \in 0 .. Len(list)] ==
        IF n = 0 THEN <<>>
        ELSE IF list[n] \in gone THEN kept[n - 1] ELSE Append(kept[n - 1], list[n])
  IN  kept[Len(list)]
=============================================================================

---------------------------- MODULE MCChildNode -----------------------------
(***************************************************************************)
(* ChildHistory for TLC, with histories up to a bound.                     *)
(***************************************************************************)
EXTENDS ChildHistory

CONSTANTS
  k1, k2, k3, t1, t2,
  MaxUses    \* bound on the length of the history

MCDictionary == [k \in {k1, k2} |-> IF k = k1 THEN t1 ELSE t2]
MCValue == {t1, t2, Miss, NoAnswer}

MCNext == HistoryNext /\ Len(used') <= MaxUses

MCSpec == HistoryInit /\ [][MCNext]_historyVars
=============================================================================

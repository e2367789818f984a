---------------------------- MODULE ChildHistory -----------------------------
(***************************************************************************)
(* ChildNode with the history of the words used in its cache, against      *)
(* which the order of the list is compared.                                *)
(***************************************************************************)
EXTENDS ChildNode

VARIABLE used   \* the keys used in the cache so far, latest last

historyVars == <<vars, childVars, used>>

HistoryInit == ChildInit /\ used = <<>>

Uses(k) == used' = Append(used, k)

HistoryNext ==
  \/ \E w \in Key : Hit(w) /\ Uses(w)
  \/ \E w \in Key : Ask(w) /\ IF w \in DOMAIN c THEN Uses(w) ELSE UNCHANGED used
  \/ (Answered \/ Failed) /\ Uses(asked)

HistorySpec == HistoryInit /\ [][HistoryNext]_historyVars

-----------------------------------------------------------------------------
Once(h, k) == \E i \in DOMAIN h : h[i] = k

(* In the history h key a was used and key b not since. *)
LaterThan(h, a, b) ==
  \E i \in DOMAIN h : h[i] = a /\ \A j \in DOMAIN h : j >= i => h[j] # b

(* The list holds exactly the cache_size most recently used keys, in the   *)
(* order of their last use, whatever mix of lookups and stores came before *)
(* (README.md:31 "reduce time to search": the cache must keep the words in *)
(* use and give up the oldest).                                            *)
KeepsMostRecent ==
  /\ \A i \in DOMAIN l : Once(used, l[i])
  /\ \A i, j \in DOMAIN l : i < j => LaterThan(used, l[i], l[j])
  /\ \A k \in Key \ {l[i] : i \in DOMAIN l} : Once(used, k) =>
       Len(l) = CacheSize /\ \A i \in DOMAIN l : LaterThan(used, l[i], k)
=============================================================================

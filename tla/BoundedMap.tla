----------------------------- MODULE BoundedMap -----------------------------
(***************************************************************************)
(* What the translator expects of the class Cache of super.cc and          *)
(* child.cc: a map of at most CacheSize entries that answers a lookup with *)
(* the value last stored under the key, may forget other keys to make room *)
(* and never invents an entry.                                             *)
(***************************************************************************)
EXTENDS CacheMaps

CONSTANTS Key, Value

VARIABLES
  store,      \* the map
  answer      \* what the last getvalue returned

vars == <<store, answer>>

Init ==
  /\ store = EmptyMap
  /\ answer = NoAnswer

Get(k) ==
  /\ answer' = Looked(store, k)
  /\ UNCHANGED store

Put(k, v) ==
  /\ store' \in Stored(store, k, v)
  /\ UNCHANGED answer

Next == \E k \in Key : Get(k) \/ \E v \in Value : Put(k, v)

Spec == Init /\ [][Next]_vars
=============================================================================

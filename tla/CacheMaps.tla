------------------------------ MODULE CacheMaps ------------------------------
(***************************************************************************)
(* Maps of at most CacheSize entries: the values the class Cache of        *)
(* super.cc and child.cc represents.  A map is a function whose domain is  *)
(* the set of cached keys.  Storing a new key in a full map forgets one    *)
(* other key; which one is left open here and settled by LruCache.         *)
(***************************************************************************)
EXTENDS Naturals, FiniteSets

CONSTANTS
  CacheSize,  \* cache_size: 150 in super.cc, 50 in child.cc
  NoAnswer    \* the empty string getvalue returns for an absent key

ASSUME CacheSizeAssumption == CacheSize \in Nat \ {0}

(* All maps from keys in K to values in V. *)
Maps(K, V) == UNION {[D -> V] : D \in SUBSET K}

EmptyMap == [k \in {} |-> NoAnswer]

(* The map m with v stored under k, and the map m without the key k. *)
With(m, k, v) == [x \in DOMAIN m \cup {k} |-> IF x = k THEN v ELSE m[x]]
Without(m, k) == [x \in DOMAIN m \ {k} |-> m[x]]

(* There is a place for k: it is cached already or the map is not full. *)
HasRoom(m, k) == k \in DOMAIN m \/ Cardinality(DOMAIN m) < CacheSize

(* The maps that storing v under k in m may leave. *)
Stored(m, k, v) ==
  IF HasRoom(m, k)
    THEN {With(m, k, v)}
    ELSE {With(Without(m, old), k, v) : old \in DOMAIN m}

Looked(m, k) == IF k \in DOMAIN m THEN m[k] ELSE NoAnswer
=============================================================================

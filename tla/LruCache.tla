------------------------------ MODULE LruCache ------------------------------
(***************************************************************************)
(* The class Cache, written twice in assignment 4 (super.cc and child.cc)  *)
(* with the same code and another cache_size.  It keeps three containers   *)
(* that have to agree:                                                     *)
(*   l  the list of keys, most recently used first,                        *)
(*   c  the answers, by key,                                               *)
(*   p  for each key the list node that holds it, so that use() can erase  *)
(*      that node; only the set of keys of p is kept here, the node of a   *)
(*      key being the one place of l where the key stands.                 *)
(* A call of getvalue or setvalue is one action: super.cc makes them under *)
(* cache_mutex, and a child process gets one request at a time.            *)
(***************************************************************************)
EXTENDS CacheMaps, Sequences

CONSTANTS Key, Value

VARIABLES
  l,          \* Seq(Key), front of the list first
  c,          \* function from the cached keys to values
  p,          \* set of the keys that have a list node
  answer      \* what the last getvalue returned

vars == <<l, c, p, answer>>

Positions(s, k) == {i \in DOMAIN s : s[i] = k}

(* l.erase(p[key]): the list without the node of k. *)
Erase(s, k) ==
  LET at == CHOOSE i \in DOMAIN s : s[i] = k
  IN  [i \in 1 .. Len(s) - 1 |-> IF i < at THEN s[i] ELSE s[i + 1]]

PushFront(s, k) == [i \in 1 .. Len(s) + 1 |-> IF i = 1 THEN k ELSE s[i - 1]]

PopBack(s) == [i \in 1 .. Len(s) - 1 |-> s[i]]

Back(s) == s[Len(s)]

(* Mutant: eviction starts one key too late. *)
MustEvictLate(k) == k \notin p /\ Len(l) > CacheSize

(* use(k) of a new key pushes the last one out of a full list. *)
MustEvict(k) == k \notin p /\ Len(l) >= CacheSize

(* Mutant: a key that is used again keeps its place in the list. *)
UsedInPlace(k) ==
  IF k \in p       THEN l ELSE
  IF MustEvict(k)  THEN PushFront(PopBack(l), k)
                   ELSE PushFront(l, k)

(* The list after use(k), which moves k to the front. *)
Used(k) ==
  IF k \in p       THEN PushFront(Erase(l, k), k) ELSE
  IF MustEvict(k)  THEN PushFront(PopBack(l), k)
                   ELSE PushFront(l, k)

(* Mutant: the answer of the key that leaves the list is not erased. *)
EvictedNothing(k) == {}

Evicted(k) == IF MustEvict(k) THEN {Back(l)} ELSE {}

-----------------------------------------------------------------------------
Init ==
  /\ l = <<>>
  /\ c = EmptyMap
  /\ p = {}
  /\ answer = NoAnswer

(* getvalue of a cached key: refreshes the key and returns its value. *)
GetHit(k) ==
  /\ k \in DOMAIN c
  /\ l' = Used(k)
  /\ p' = (p \ Evicted(k)) \cup {k}
  /\ c' = [x \in DOMAIN c \ Evicted(k) |-> c[x]]
  /\ answer' = c[k]

(* getvalue of any other key touches nothing and returns "". *)
GetMiss(k) ==
  /\ k \notin DOMAIN c
  /\ answer' = NoAnswer
  /\ UNCHANGED <<l, c, p>>

(* setvalue: use(k), then c[k] = v. *)
SetValue(k, v) ==
  /\ l' = Used(k)
  /\ p' = (p \ Evicted(k)) \cup {k}
  /\ c' = With([x \in DOMAIN c \ Evicted(k) |-> c[x]], k, v)
  /\ UNCHANGED answer

Next ==
  \E k \in Key :
    \/ GetHit(k)
    \/ GetMiss(k)
    \/ \E v \in Value : SetValue(k, v)

Spec == Init /\ [][Next]_vars

-----------------------------------------------------------------------------
TypeOK ==
  /\ l \in Seq(Key)
  /\ c \in Maps(Key, Value)
  /\ p \subseteq Key
  /\ answer \in Value \cup {NoAnswer}

(* No key has two list nodes: use() would erase one and leave the other,   *)
(* and the list would later evict a key that was just used.                *)
NoDuplicates == \A i, j \in DOMAIN l : l[i] = l[j] => i = j

(* The three containers of the class name the same keys, so that every     *)
(* eviction drops the answer with the node (super.cc:86-89) and every      *)
(* iterator kept in p is still valid when use() erases through it.         *)
ContainersAgree ==
  /\ p = {l[i] : i \in DOMAIN l}
  /\ DOMAIN c = p

(* The list is never longer than cache_size. *)
WithinCapacity == Len(l) <= CacheSize

LruInv == TypeOK /\ NoDuplicates /\ ContainersAgree /\ WithinCapacity

(* The class implements the bounded map the translator is modelled with:   *)
(* the answer is always the value last stored under the key or "", and at  *)
(* most one other key is forgotten, only when the cache is full.           *)
Abstract == INSTANCE BoundedMap WITH store <- c

ImplementsBoundedMap == Abstract!Spec
=============================================================================

---------------------------- MODULE CacheProofs ------------------------------
(***************************************************************************)
(* For every cache size, every set of keys and every dictionary: the three *)
(* containers of the class Cache stay consistent, the class implements the *)
(* bounded map, and a child that uses it answers what the database says    *)
(* and keeps the words it used last.                                       *)
(***************************************************************************)
EXTENDS ChildHistory, FiniteSetTheorems, TLAPS

(* The keys of a list. *)
Keys(s) == {s[i] : i \in DOMAIN s}

Distinct(s) == \A i, j \in DOMAIN s : s[i] = s[j] => i = j

-----------------------------------------------------------------------------
(* The list operations, on lists without duplicates. *)

LEMMA PushFrontLemma ==
  ASSUME NEW K, NEW s \in Seq(K), NEW k \in K, Distinct(s), k \notin Keys(s)
  PROVE  /\ PushFront(s, k) \in Seq(K)
         /\ Len(PushFront(s, k)) = Len(s) + 1
         /\ Distinct(PushFront(s, k))
         /\ Keys(PushFront(s, k)) = Keys(s) \cup {k}
<1> DEFINE t == PushFront(s, k)
<1>1. /\ t \in [1 .. Len(s) + 1 -> K]
      /\ Len(s) \in Nat /\ DOMAIN s = 1 .. Len(s)
      /\ \A i \in 1 .. Len(s) : s[i] \in K
  BY DEF PushFront
<1>2. t \in Seq(K) /\ Len(t) = Len(s) + 1 /\ DOMAIN t = 1 .. Len(s) + 1
  BY <1>1
<1>3. t[1] = k /\ \A i \in 1 .. Len(s) : t[i + 1] = s[i]
  BY <1>1 DEF PushFront
<1>4. Keys(t) = Keys(s) \cup {k}
  <2>1. \A i \in DOMAIN t : i = 1 \/ (i - 1 \in DOMAIN s /\ t[i] = s[i - 1])
    BY <1>1, <1>2, <1>3
  <2>2. \A i \in DOMAIN s : i + 1 \in DOMAIN t /\ t[i + 1] = s[i]
    BY <1>1, <1>2, <1>3
  <2>3. 1 \in DOMAIN t
    BY <1>1, <1>2
  <2> QED BY <2>1, <2>2, <2>3, <1>3 DEF Keys
<1>5. Distinct(t)
  BY <1>1, <1>2 DEF Distinct, Keys, PushFront
<1> QED BY <1>2, <1>4, <1>5

LEMMA PopBackLemma ==
  ASSUME NEW K, NEW s \in Seq(K), Distinct(s), Len(s) > 0
  PROVE  /\ PopBack(s) \in Seq(K)
         /\ Len(PopBack(s)) = Len(s) - 1
         /\ Distinct(PopBack(s))
         /\ Back(s) \in Keys(s)
         /\ Keys(PopBack(s)) = Keys(s) \ {Back(s)}
<1> DEFINE t == PopBack(s)
<1>1. /\ Len(s) \in Nat /\ DOMAIN s = 1 .. Len(s) /\ Len(s) - 1 \in Nat
      /\ \A i \in 1 .. Len(s) : s[i] \in K
  OBVIOUS
<1>2. t = [i \in 1 .. Len(s) - 1 |-> s[i]]
  BY DEF PopBack
<1> HIDE DEF t
<1>3. t \in Seq(K) /\ Len(t) = Len(s) - 1 /\ DOMAIN t = 1 .. Len(s) - 1
  <2>1. t \in [1 .. Len(s) - 1 -> K]
    BY <1>1, <1>2
  <2> QED BY <2>1, <1>1, <1>2
<1>4. Distinct(t) /\ Back(s) \in Keys(s)
  BY <1>1, <1>2, <1>3 DEF Distinct, Keys, Back
<1>5. Keys(t) = Keys(s) \ {Back(s)}
  <2>1. ASSUME NEW i \in DOMAIN t
        PROVE  i \in DOMAIN s /\ t[i] = s[i] /\ i # Len(s)
    <3>1. i \in 1 .. Len(s) - 1
      BY <1>3
    <3>2. t[i] = s[i]
      BY <3>1, <1>2
    <3> QED BY <3>1, <3>2, <1>1
  <2>2. \A i \in DOMAIN s : i = Len(s) \/ (i \in DOMAIN t /\ t[i] = s[i])
    BY <1>1, <1>2, <1>3
  <2>3. \A i \in DOMAIN s : s[i] = Back(s) => i = Len(s)
    BY <1>1 DEF Distinct, Back
  <2> QED BY <2>1, <2>2, <2>3 DEF Keys, Back
<1> QED BY <1>3, <1>4, <1>5 DEF t

LEMMA EraseLemma ==
  ASSUME NEW K, NEW s \in Seq(K), NEW k \in Keys(s), Distinct(s)
  PROVE  /\ Erase(s, k) \in Seq(K)
         /\ Len(Erase(s, k)) = Len(s) - 1
         /\ Distinct(Erase(s, k))
         /\ Keys(Erase(s, k)) = Keys(s) \ {k}
<1> DEFINE at == CHOOSE i \in DOMAIN s : s[i] = k
           t == Erase(s, k)
<1>1. at \in DOMAIN s /\ s[at] = k
  BY DEF Keys
<1>2. /\ Len(s) \in Nat /\ DOMAIN s = 1 .. Len(s) /\ Len(s) - 1 \in Nat
      /\ \A i \in 1 .. Len(s) : s[i] \in K
  BY <1>1
<1>3. t = [i \in 1 .. Len(s) - 1 |-> IF i < at THEN s[i] ELSE s[i + 1]]
  BY DEF Erase
<1> HIDE DEF at, t
<1>4. t \in Seq(K) /\ Len(t) = Len(s) - 1 /\ DOMAIN t = 1 .. Len(s) - 1
  <2>1. t \in [1 .. Len(s) - 1 -> K]
    BY <1>1, <1>2, <1>3
  <2> QED BY <2>1, <1>2, <1>3
<1>5. Distinct(t)
  BY <1>1, <1>2, <1>3, <1>4 DEF Distinct
<1>6. Keys(t) = Keys(s) \ {k}
  <2>1. \A i \in DOMAIN t : \E j \in DOMAIN s : j # at /\ t[i] = s[j]
    BY <1>1, <1>2, <1>3, <1>4, SMTT(30)
  <2>2. ASSUME NEW j \in DOMAIN s, j # at
        PROVE  \E i \in DOMAIN t : t[i] = s[j]
    <3>1. CASE j < at
      BY <3>1, <1>1, <1>2, <1>3, <1>4
    <3>2. CASE j > at
      <4>1. j - 1 \in DOMAIN t /\ t[j - 1] = s[j]
        BY <3>2, <1>1, <1>2, <1>3, <1>4
      <4> QED BY <4>1
    <3> QED BY <3>1, <3>2, <2>2, <1>1, <1>2
  <2>3. \A j \in DOMAIN s : s[j] = k <=> j = at
    BY <1>1 DEF Distinct
  <2> QED BY <2>1, <2>2, <2>3 DEF Keys
<1> QED BY <1>4, <1>5, <1>6 DEF t

(* A list without duplicates has as many keys as nodes. *)
LEMMA KeysCardinality ==
  ASSUME NEW K, NEW s \in Seq(K), Distinct(s)
  PROVE  IsFiniteSet(Keys(s)) /\ Cardinality(Keys(s)) = Len(s)
<1>1. /\ Len(s) \in Nat /\ DOMAIN s = 1 .. Len(s)
      /\ s \in [1 .. Len(s) -> Keys(s)]
  <2>1. Len(s) \in Nat /\ s \in [1 .. Len(s) -> K] /\ DOMAIN s = 1 .. Len(s)
    OBVIOUS
  <2> QED BY <2>1 DEF Keys
<1>2. s \in Bijection(1 .. Len(s), Keys(s))
  BY <1>1 DEF Keys, Distinct, Bijection, Injection, Surjection, IsInjective
<1>3. IsFiniteSet(1 .. Len(s)) /\ Cardinality(1 .. Len(s)) = Len(s)
  BY <1>1, FS_Interval
<1> QED BY <1>2, <1>3, FS_Bijection DEF ExistsBijection

-----------------------------------------------------------------------------
(* use(k) keeps the list duplicate-free and within the capacity, and its   *)
(* keys are the old ones, less the evicted one, and k.                     *)
LEMMA UsedLemma ==
  ASSUME LruInv, NEW k \in Key
  PROVE  /\ Used(k) \in Seq(Key)
         /\ Distinct(Used(k))
         /\ Len(Used(k)) <= CacheSize
         /\ Keys(Used(k)) = (p \ Evicted(k)) \cup {k}
         /\ Evicted(k) \subseteq p
<1> USE CacheSizeAssumption
<1>1. /\ l \in Seq(Key) /\ Len(l) \in Nat /\ Distinct(l)
      /\ p = Keys(l) /\ Len(l) <= CacheSize
  BY DEF LruInv, TypeOK, NoDuplicates, ContainersAgree, WithinCapacity,
         Distinct, Keys
<1>2. CASE k \in p
  <2> DEFINE e == Erase(l, k)
  <2>1. /\ e \in Seq(Key) /\ Len(e) = Len(l) - 1 /\ Distinct(e)
        /\ Keys(e) = Keys(l) \ {k}
    BY <1>1, <1>2, EraseLemma
  <2> HIDE DEF e
  <2>2. /\ PushFront(e, k) \in Seq(Key) /\ Len(PushFront(e, k)) = Len(e) + 1
        /\ Distinct(PushFront(e, k)) /\ Keys(PushFront(e, k)) = Keys(e) \cup {k}
    BY <2>1, PushFrontLemma
  <2>3. Used(k) = PushFront(e, k) /\ Evicted(k) = {}
    BY <1>2 DEF Used, Evicted, MustEvict, e
  <2> QED BY <1>1, <1>2, <2>1, <2>2, <2>3
<1>3. CASE MustEvict(k)
  <2> DEFINE e == PopBack(l)
  <2>0. k \notin p /\ Len(l) >= CacheSize /\ Len(l) > 0
    BY <1>1, <1>3 DEF MustEvict
  <2>1. /\ e \in Seq(Key) /\ Len(e) = Len(l) - 1 /\ Distinct(e)
        /\ Keys(e) = Keys(l) \ {Back(l)} /\ Back(l) \in Keys(l)
    BY <1>1, <2>0, PopBackLemma
  <2> HIDE DEF e
  <2>2. /\ PushFront(e, k) \in Seq(Key) /\ Len(PushFront(e, k)) = Len(e) + 1
        /\ Distinct(PushFront(e, k)) /\ Keys(PushFront(e, k)) = Keys(e) \cup {k}
    BY <1>1, <2>0, <2>1, PushFrontLemma
  <2>3. Used(k) = PushFront(e, k) /\ Evicted(k) = {Back(l)}
    BY <1>3, <2>0 DEF Used, Evicted, e
  <2> QED BY <1>1, <2>1, <2>2, <2>3
<1>4. CASE k \notin p /\ ~MustEvict(k)
  <2>1. Len(l) < CacheSize
    BY <1>1, <1>4 DEF MustEvict
  <2>2. /\ PushFront(l, k) \in Seq(Key) /\ Len(PushFront(l, k)) = Len(l) + 1
        /\ Distinct(PushFront(l, k)) /\ Keys(PushFront(l, k)) = Keys(l) \cup {k}
    BY <1>1, <1>4, PushFrontLemma
  <2>3. Used(k) = PushFront(l, k) /\ Evicted(k) = {}
    BY <1>4 DEF Used, Evicted
  <2> QED BY <1>1, <2>1, <2>2, <2>3
<1> QED BY <1>2, <1>3, <1>4

(* The operations on maps stay within the maps from K to V. *)
LEMMA MapsLemma ==
  ASSUME NEW K, NEW V, NEW m \in Maps(K, V)
  PROVE  /\ DOMAIN m \subseteq K
         /\ m = [x \in DOMAIN m |-> m[x]]
         /\ \A D : [x \in DOMAIN m \ D |-> m[x]] \in Maps(K, V)
         /\ \A k \in K, v \in V : With(m, k, v) \in Maps(K, V)
         /\ \A k \in DOMAIN m : m[k] \in V
<1>1. PICK E \in SUBSET K : m \in [E -> V]
  BY DEF Maps
<1>2. DOMAIN m = E /\ m = [x \in DOMAIN m |-> m[x]]
  BY <1>1
<1>3. ASSUME NEW D PROVE [x \in DOMAIN m \ D |-> m[x]] \in Maps(K, V)
  <2>1. [x \in DOMAIN m \ D |-> m[x]] \in [(E \ D) -> V] /\ E \ D \in SUBSET K
    BY <1>1, <1>2
  <2> QED BY <2>1 DEF Maps
<1>4. ASSUME NEW k \in K, NEW v \in V PROVE With(m, k, v) \in Maps(K, V)
  <2>1. With(m, k, v) \in [(E \cup {k}) -> V] /\ E \cup {k} \in SUBSET K
    BY <1>1, <1>2 DEF With
  <2> QED BY <2>1 DEF Maps
<1> QED BY <1>1, <1>2, <1>3, <1>4

-----------------------------------------------------------------------------
LEMMA LruInit == Init => LruInv
<1> SUFFICES ASSUME Init PROVE LruInv
  OBVIOUS
<1>1. c \in Maps(Key, Value) /\ DOMAIN c = {}
  <2>1. c \in [{} -> Value] /\ DOMAIN c = {} /\ {} \in SUBSET Key
    BY DEF Init, EmptyMap
  <2> QED BY <2>1 DEF Maps
<1>2. l \in Seq(Key) /\ Len(l) = 0 /\ DOMAIN l = {}
  BY DEF Init
<1> QED BY <1>1, <1>2, CacheSizeAssumption
        DEF Init, LruInv, TypeOK, NoDuplicates, ContainersAgree, WithinCapacity

LEMMA LruStep == LruInv /\ [Next]_vars => LruInv'
<1> SUFFICES ASSUME LruInv, [Next]_vars PROVE LruInv'
  OBVIOUS
<1>1. TypeOK /\ DOMAIN c = p
  BY DEF LruInv, ContainersAgree
<1>2. ASSUME NEW k \in Key, l' = Used(k), p' = (p \ Evicted(k)) \cup {k},
             c' \in Maps(Key, Value), DOMAIN c' = p',
             answer' \in Value \cup {NoAnswer}
      PROVE  LruInv'
  <2>1. /\ l' \in Seq(Key) /\ Distinct(l') /\ Len(l') <= CacheSize
        /\ Keys(l') = p' /\ Evicted(k) \subseteq p
    BY <1>2, UsedLemma
  <2>2. p' \subseteq Key
    BY <1>1, <1>2 DEF TypeOK
  <2> QED BY <1>2, <2>1, <2>2 DEF LruInv, TypeOK, NoDuplicates, ContainersAgree,
             WithinCapacity, Distinct, Keys
<1>3. ASSUME NEW k \in Key, GetHit(k) PROVE LruInv'
  <2>1. k \in p /\ Evicted(k) = {}
    BY <1>1, <1>3 DEF GetHit, Evicted, MustEvict
  <2>2. c \in Maps(Key, Value)
    BY <1>1 DEF TypeOK
  <2>3. c[k] \in Value /\ c' \in Maps(Key, Value)
    BY <1>3, <2>2, MapsLemma DEF GetHit
  <2>5. DOMAIN c' = p'
    BY <1>1, <1>3, <2>1 DEF GetHit
  <2> QED BY <1>2, <1>3, <2>3, <2>5 DEF GetHit
<1>4. ASSUME NEW k \in Key, GetMiss(k) PROVE LruInv'
  BY <1>4 DEF GetMiss, LruInv, TypeOK, NoDuplicates, ContainersAgree, WithinCapacity
<1>5. ASSUME NEW k \in Key, NEW v \in Value, SetValue(k, v) PROVE LruInv'
  <2> DEFINE kept == [x \in DOMAIN c \ Evicted(k) |-> c[x]]
  <2>1. c \in Maps(Key, Value) /\ answer \in Value \cup {NoAnswer}
    BY <1>1 DEF TypeOK
  <2>2. kept \in Maps(Key, Value) /\ DOMAIN kept = p \ Evicted(k)
    BY <1>1, <2>1, MapsLemma
  <2>3. l' = Used(k) /\ p' = (p \ Evicted(k)) \cup {k} /\ c' = With(kept, k, v)
        /\ answer' = answer
    BY <1>5 DEF SetValue
  <2> HIDE DEF kept
  <2>4. c' \in Maps(Key, Value)
    BY <2>2, <2>3, MapsLemma
  <2>5. DOMAIN c' = p'
    BY <2>2, <2>3 DEF With
  <2> QED BY <1>2, <2>1, <2>3, <2>4, <2>5
<1>6. CASE UNCHANGED vars
  BY <1>6 DEF vars, LruInv, TypeOK, NoDuplicates, ContainersAgree, WithinCapacity
<1> QED BY <1>3, <1>4, <1>5, <1>6 DEF Next

(* The containers of the class Cache agree after every call, no key has    *)
(* two nodes and cache_size is never exceeded.                             *)
THEOREM LruInvariant == Spec => []LruInv
<1> QED BY LruInit, LruStep, PTL DEF Spec

-----------------------------------------------------------------------------
(* The cache is full exactly when the map it represents is. *)
LEMMA RoomLemma ==
  ASSUME LruInv, NEW k \in Key
  PROVE  Abstract!HasRoom(c, k) <=> ~MustEvict(k)
<1>1. l \in Seq(Key) /\ Distinct(l) /\ DOMAIN c = Keys(l) /\ p = DOMAIN c
  BY DEF LruInv, TypeOK, NoDuplicates, ContainersAgree, Distinct, Keys
<1>2. Cardinality(DOMAIN c) = Len(l) /\ Len(l) \in Nat
  BY <1>1, KeysCardinality
<1>3. HasRoom(c, k) <=> ~MustEvict(k)
  BY <1>1, <1>2, CacheSizeAssumption DEF HasRoom, MustEvict
<1>4. Abstract!HasRoom(c, k) <=> HasRoom(c, k)
  BY DEF Abstract!HasRoom, HasRoom, Abstract!Cardinality, Cardinality
<1> QED BY <1>3, <1>4

LEMMA LruStepRefines ==
  LruInv /\ [Next]_vars => [Abstract!Next]_(Abstract!vars)
<1> SUFFICES ASSUME LruInv, [Next]_vars
             PROVE  Abstract!Next \/ UNCHANGED Abstract!vars
  OBVIOUS
<1>1. c \in Maps(Key, Value) /\ DOMAIN c = p
  BY DEF LruInv, TypeOK, ContainersAgree
<1>2. ASSUME NEW k \in Key, GetHit(k) PROVE Abstract!Get(k)
  <2>1. Evicted(k) = {}
    BY <1>1, <1>2 DEF GetHit, Evicted, MustEvict
  <2>2. c' = [x \in DOMAIN c |-> c[x]]
    BY <1>2, <2>1 DEF GetHit
  <2>3. c' = c
    BY <1>1, <2>2 DEF Maps
  <2> QED BY <1>2, <2>3 DEF GetHit, Abstract!Get, Abstract!Looked
<1>3. ASSUME NEW k \in Key, GetMiss(k) PROVE Abstract!Get(k)
  BY <1>3 DEF GetMiss, Abstract!Get, Abstract!Looked
<1>4. ASSUME NEW k \in Key, NEW v \in Value, SetValue(k, v)
      PROVE  Abstract!Put(k, v)
  <2>1. CASE MustEvict(k)
    <3>1. ~Abstract!HasRoom(c, k)
      BY <2>1, RoomLemma
    <3>2. Evicted(k) = {Back(l)} /\ Back(l) \in DOMAIN c
      BY <1>1, <2>1, UsedLemma DEF Evicted
    <3>3. c' = With(Without(c, Back(l)), k, v)
      BY <1>4, <3>2 DEF SetValue, Without
    <3> QED BY <1>4, <3>1, <3>2, <3>3 DEF SetValue, Abstract!Put, Abstract!Stored,
           Abstract!With, Abstract!Without, With, Without
  <2>2. CASE ~MustEvict(k)
    <3>1. Abstract!HasRoom(c, k)
      BY <2>2, RoomLemma
    <3>2. Evicted(k) = {}
      BY <2>2 DEF Evicted
    <3>3. [x \in DOMAIN c \ Evicted(k) |-> c[x]] = c
      BY <1>1, <3>2 DEF Maps
    <3> QED BY <1>4, <3>1, <3>3 DEF SetValue, Abstract!Put, Abstract!Stored,
           Abstract!With, Abstract!Without, With, Without
  <2> QED BY <2>1, <2>2
<1>5. CASE UNCHANGED vars
  BY <1>5 DEF vars, Abstract!vars
<1> QED BY <1>2, <1>3, <1>4, <1>5 DEF Next, Abstract!Next

(* Every run of the class Cache is a run of the bounded map: a lookup      *)
(* answers the value last stored or "", and storing forgets at most one    *)
(* other key, and only when the map is full.                               *)
THEOREM LruRefinement == Spec => ImplementsBoundedMap
<1>1. Init => Abstract!Init
  BY DEF Init, Abstract!Init, EmptyMap, Abstract!EmptyMap
<1> QED BY <1>1, LruInit, LruStep, LruStepRefines, PTL
        DEF Spec, ImplementsBoundedMap, Abstract!Spec

-----------------------------------------------------------------------------
(* What is cached is the database's answer or "". *)
CacheRight == \A w \in DOMAIN c : c[w] \in {AccessDB(w), NoAnswer}

ChildInv ==
  /\ CacheRight
  /\ AnswersDatabase
  /\ call \in {"none", "running", "cache", "database", "failed"}
  /\ call = "running" => asked \in Key

(* The answers that reach the cache are values. *)
LEMMA AccessType == \A w \in Key : AccessDB(w) \in Value /\ NoAnswer \in Value
BY ChildNodeAssumption DEF AccessDB, Maps

(* A lookup keeps a part of the map, a store adds the pair to a part of it. *)
LEMMA LookupKeeps ==
  ASSUME NEW w, GetHit(w) \/ GetMiss(w), CacheRight
  PROVE  CacheRight'
BY DEF GetHit, GetMiss, CacheRight, AccessDB

LEMMA StoreKeeps ==
  ASSUME NEW v, Respond(v), v \in {AccessDB(asked), NoAnswer}, CacheRight
  PROVE  CacheRight'
<1>1. c' = With([x \in DOMAIN c \ Evicted(asked) |-> c[x]], asked, v)
  BY DEF Respond, SetValue
<1> QED BY <1>1 DEF With, CacheRight, AccessDB

LEMMA ChildStep ==
  ASSUME ChildInv, [ChildNext]_<<vars, childVars>>
  PROVE  ChildInv'
<1>1. CASE \E w \in Key : Hit(w)
  <2> PICK w \in Key : Hit(w)
    BY <1>1
  <2>1. CacheRight'
    BY LookupKeeps DEF Hit, ChildInv
  <2>2. response' = c[w] /\ w \in DOMAIN c /\ response' # NoAnswer
    BY DEF Hit, GetHit
  <2>3. response' = AccessDB(w)
    BY <2>2 DEF ChildInv, CacheRight
  <2> QED BY <2>1, <2>3 DEF Hit, ChildInv, AnswersDatabase, AccessDB
<1>2. CASE \E w \in Key : Ask(w)
  BY <1>2, LookupKeeps DEF Ask, ChildInv, AnswersDatabase
<1>3. CASE Answered
  <2>1. CacheRight'
    BY <1>3, StoreKeeps DEF Answered, ChildInv
  <2> QED BY <1>3, <2>1 DEF Answered, Respond, ChildInv, AnswersDatabase, AccessDB
<1>4. CASE Failed
  <2>1. CacheRight'
    BY <1>4, StoreKeeps DEF Failed, ChildInv
  <2> QED BY <1>4, <2>1 DEF Failed, Respond, ChildInv, AnswersDatabase
<1>5. CASE UNCHANGED <<vars, childVars>>
  BY <1>5 DEF vars, childVars, ChildInv, CacheRight, AnswersDatabase, AccessDB
<1> QED BY <1>1, <1>2, <1>3, <1>4, <1>5 DEF ChildNext

(* Whatever was evicted or failed before, a call that reaches the database *)
(* or finds an answer in the cache gives what the database says of this    *)
(* word (child.cc:109-124).                                                *)
THEOREM ChildAnswers == ChildSpec => []AnswersDatabase
<1>1. ChildInit => ChildInv
  BY DEF ChildInit, Init, EmptyMap, ChildInv, CacheRight, AnswersDatabase
<1>2. ChildInv /\ [ChildNext]_<<vars, childVars>> => ChildInv'
  BY ChildStep
<1>3. ChildInv => AnswersDatabase
  BY DEF ChildInv
<1> QED BY <1>1, <1>2, <1>3, PTL DEF ChildSpec

(* Every step of the handler is a step of the class Cache, or none. *)
LEMMA ChildUses == ChildInv /\ [ChildNext]_<<vars, childVars>> => [Next]_vars
<1> SUFFICES ASSUME ChildInv, [ChildNext]_<<vars, childVars>> PROVE [Next]_vars
  OBVIOUS
<1>1. CASE \E w \in Key : Hit(w) \/ Ask(w)
  BY <1>1 DEF Hit, Ask, Next
<1>2. CASE Answered \/ Failed
  <2>1. asked \in Key /\ \E v \in Value : SetValue(asked, v)
    BY <1>2, AccessType DEF Answered, Failed, Respond, ChildInv
  <2> QED BY <2>1 DEF Next
<1> QED BY <1>1, <1>2 DEF ChildNext

(* The child's cache keeps its three containers in step, as the class      *)
(* promises for every sequence of calls (child.cc:41-80).                  *)
THEOREM ChildCache == ChildSpec => []LruInv
<1>1. ChildInit => ChildInv /\ Init
  BY DEF ChildInit, Init, EmptyMap, ChildInv, CacheRight, AnswersDatabase
<1>2. ChildInv /\ [ChildNext]_<<vars, childVars>> => ChildInv'
  BY ChildStep
<1>3. ChildInv /\ [ChildNext]_<<vars, childVars>> => [Next]_vars
  BY ChildUses
<1> QED BY <1>1, <1>2, <1>3, LruInit, LruStep, PTL DEF ChildSpec

-----------------------------------------------------------------------------
(* use(k) puts k in front and keeps the order of the others. *)
LEMMA UsedOrder ==
  ASSUME LruInv, NEW k \in Key
  PROVE  /\ Used(k) \in Seq(Key) /\ Len(Used(k)) >= 1 /\ Used(k)[1] = k
         /\ \E f \in [2 .. Len(Used(k)) -> DOMAIN l] :
              /\ \A i \in 2 .. Len(Used(k)) : Used(k)[i] = l[f[i]]
              /\ \A i, j \in 2 .. Len(Used(k)) : i < j => f[i] < f[j]
         /\ Len(Used(k)) = IF k \in p \/ MustEvict(k) THEN Len(l) ELSE Len(l) + 1
<1>1. /\ l \in Seq(Key) /\ Len(l) \in Nat /\ DOMAIN l = 1 .. Len(l)
      /\ p = {l[i] : i \in DOMAIN l}
  BY DEF LruInv, TypeOK, ContainersAgree
<1>2. Used(k) \in Seq(Key)
  BY UsedLemma
<1>3. CASE k \in p
  <2>1. PICK at \in DOMAIN l : at = CHOOSE i \in DOMAIN l : l[i] = k
    BY <1>1, <1>3
  <2>2. Erase(l, k) = [i \in 1 .. Len(l) - 1 |-> IF i < at THEN l[i] ELSE l[i + 1]]
    BY <2>1 DEF Erase
  <2>3. Used(k) = PushFront(Erase(l, k), k)
    BY <1>3 DEF Used
  <2>4. /\ Len(Erase(l, k)) = Len(l) - 1 /\ Len(l) >= 1
        /\ \A i \in 1 .. Len(l) - 1 : Erase(l, k)[i] = IF i < at THEN l[i] ELSE l[i + 1]
    BY <1>1, <2>1, <2>2
  <2>5. /\ Len(Used(k)) = Len(l) /\ Used(k)[1] = k
        /\ \A i \in 2 .. Len(l) : Used(k)[i] = Erase(l, k)[i - 1]
    BY <1>1, <2>3, <2>4 DEF PushFront
  <2> DEFINE f == [i \in 2 .. Len(l) |-> IF i - 1 < at THEN i - 1 ELSE i]
  <2>6. f \in [2 .. Len(l) -> DOMAIN l]
    BY <1>1, <2>1
  <2>7. \A i \in 2 .. Len(l) : Used(k)[i] = l[f[i]]
    BY <1>1, <2>1, <2>4, <2>5
  <2>8. \A i, j \in 2 .. Len(l) : i < j => f[i] < f[j]
    BY <1>1, <2>1
  <2> HIDE DEF f
  <2> QED BY <1>2, <1>3, <2>4, <2>5, <2>6, <2>7, <2>8
<1>4. CASE k \notin p
  <2>1. PICK s \in {l, PopBack(l)} : s = IF MustEvict(k) THEN PopBack(l) ELSE l
    OBVIOUS
  <2>2. /\ Len(l) >= CacheSize => Len(l) >= 1
        /\ MustEvict(k) => Len(l) >= CacheSize
    BY <1>1, CacheSizeAssumption DEF MustEvict
  <2>3. /\ Len(s) = IF MustEvict(k) THEN Len(l) - 1 ELSE Len(l)
        /\ \A i \in 1 .. Len(s) : s[i] = l[i]
    BY <1>1, <2>1, <2>2 DEF PopBack
  <2>4. Used(k) = PushFront(s, k)
    BY <1>4, <2>1 DEF Used
  <2>5. /\ Len(s) \in Nat /\ Len(s) <= Len(l)
        /\ Len(Used(k)) = Len(s) + 1 /\ Used(k)[1] = k
        /\ \A i \in 2 .. Len(s) + 1 : Used(k)[i] = s[i - 1]
    <3>1. Len(s) \in Nat /\ Len(s) <= Len(l)
      <4>1. CASE MustEvict(k)
        BY <1>1, <2>2, <2>3, <4>1, CacheSizeAssumption
      <4>2. CASE ~MustEvict(k)
        BY <1>1, <2>3, <4>2
      <4> QED BY <4>1, <4>2
    <3>2. Used(k) = [i \in 1 .. Len(s) + 1 |-> IF i = 1 THEN k ELSE s[i - 1]]
      BY <2>4 DEF PushFront
    <3>3. Len(Used(k)) = Len(s) + 1
      BY <1>2, <3>1, <3>2
    <3>4. Used(k)[1] = k /\ \A i \in 2 .. Len(s) + 1 : Used(k)[i] = s[i - 1]
      BY <3>1, <3>2
    <3> QED BY <3>1, <3>3, <3>4
  <2> DEFINE f == [i \in 2 .. Len(s) + 1 |-> i - 1]
  <2>6. f \in [2 .. Len(Used(k)) -> DOMAIN l]
    BY <1>1, <2>5
  <2>7. \A i \in 2 .. Len(Used(k)) : Used(k)[i] = l[f[i]]
    BY <2>3, <2>5
  <2>8. \A i, j \in 2 .. Len(Used(k)) : i < j => f[i] < f[j]
    BY <2>5
  <2> HIDE DEF f
  <2>9. \E g \in [2 .. Len(Used(k)) -> DOMAIN l] :
          /\ \A i \in 2 .. Len(Used(k)) : Used(k)[i] = l[g[i]]
          /\ \A i, j \in 2 .. Len(Used(k)) : i < j => g[i] < g[j]
    BY <2>6, <2>7, <2>8
  <2>10. Len(Used(k)) = IF k \in p \/ MustEvict(k) THEN Len(l) ELSE Len(l) + 1
    <3>1. CASE MustEvict(k)
      BY <1>1, <2>2, <2>3, <2>5, <3>1, CacheSizeAssumption
    <3>2. CASE ~MustEvict(k)
      BY <1>1, <1>4, <2>3, <2>5, <3>2
    <3> QED BY <3>1, <3>2
  <2>11. Len(Used(k)) >= 1 /\ Used(k)[1] = k
    BY <2>5
  <2> QED BY <1>2, <2>9, <2>10, <2>11, Zenon
<1> QED BY <1>3, <1>4

(* What a use of k adds to the history. *)
LEMMA UsesFacts ==
  ASSUME NEW k \in Key, used \in Seq(Key), used' = Append(used, k)
  PROVE  /\ used' \in Seq(Key)
         /\ \A x : Once(used', x) <=> x = k \/ Once(used, x)
         /\ \A x : x # k => LaterThan(used', k, x)
         /\ \A a, b : b # k /\ LaterThan(used, a, b) => LaterThan(used', a, b)
<1>1. /\ Len(used) \in Nat /\ DOMAIN used = 1 .. Len(used)
      /\ DOMAIN used' = 1 .. Len(used) + 1
      /\ used'[Len(used) + 1] = k
      /\ \A i \in DOMAIN used : used'[i] = used[i]
      /\ used' \in Seq(Key)
  OBVIOUS
<1>2. \A x : Once(used', x) <=> x = k \/ Once(used, x)
  BY <1>1 DEF Once
<1>3. ASSUME NEW x, x # k PROVE LaterThan(used', k, x)
  <2>1. Len(used) + 1 \in DOMAIN used' /\ \A j \in DOMAIN used' : j >= Len(used) + 1 => j = Len(used) + 1
    BY <1>1
  <2> QED BY <1>1, <1>3, <2>1 DEF LaterThan
<1>4. ASSUME NEW a, NEW b, b # k, LaterThan(used, a, b) PROVE LaterThan(used', a, b)
  <2>1. PICK i \in DOMAIN used : used[i] = a /\ \A j \in DOMAIN used : j >= i => used[j] # b
    BY <1>4 DEF LaterThan
  <2>2. i \in DOMAIN used' /\ used'[i] = a
    BY <1>1, <2>1
  <2>3. ASSUME NEW j \in DOMAIN used', j >= i PROVE used'[j] # b
    BY <1>1, <1>4, <2>1, <2>3
  <2> QED BY <2>2, <2>3 DEF LaterThan
<1> QED BY <1>1, <1>2, <1>3, <1>4

(* use(k) keeps the list in the order of the history. *)
LEMMA RecentStep ==
  ASSUME LruInv, KeepsMostRecent, used \in Seq(Key), NEW k \in Key,
         l' = Used(k), used' = Append(used, k)
  PROVE  KeepsMostRecent'
<1> DEFINE new == Used(k)
<1>0. \E f \in [2 .. Len(new) -> DOMAIN l] :
        /\ \A i \in 2 .. Len(new) : new[i] = l[f[i]]
        /\ \A i, j \in 2 .. Len(new) : i < j => f[i] < f[j]
  BY UsedOrder
<1>new. l' = new
  OBVIOUS
<1> HIDE DEF new
<1>1. PICK f \in [2 .. Len(l') -> DOMAIN l] :
         /\ \A i \in 2 .. Len(l') : l'[i] = l[f[i]]
         /\ \A i, j \in 2 .. Len(l') : i < j => f[i] < f[j]
  BY <1>0, <1>new
<1>2. /\ l' \in Seq(Key) /\ Len(l') >= 1 /\ l'[1] = k
      /\ Len(l') = IF k \in p \/ MustEvict(k) THEN Len(l) ELSE Len(l) + 1
  BY UsedOrder
<1>3. /\ Distinct(l') /\ Keys(l') = (p \ Evicted(k)) \cup {k} /\ Len(l') <= CacheSize
  BY UsedLemma
<1>4. /\ l \in Seq(Key) /\ Len(l) \in Nat /\ DOMAIN l = 1 .. Len(l) /\ p = Keys(l)
      /\ Len(l) <= CacheSize /\ Len(l') \in Nat /\ DOMAIN l' = 1 .. Len(l')
  BY <1>2 DEF LruInv, TypeOK, ContainersAgree, WithinCapacity, Keys
<1>5. \A i \in DOMAIN l' : i = 1 \/ (i \in 2 .. Len(l') /\ l'[i] # k)
  <2> SUFFICES ASSUME NEW i \in DOMAIN l', i # 1 PROVE i \in 2 .. Len(l') /\ l'[i] # k
    OBVIOUS
  <2>1. i \in 2 .. Len(l') /\ 1 \in DOMAIN l'
    <3>1. Len(l') \in Nat /\ DOMAIN l' = 1 .. Len(l') /\ i \in 1 .. Len(l') /\ i # 1
      BY <1>4
    <3> QED BY <3>1
  <2>2. l'[i] = l'[1] => i = 1
    BY <1>3, <2>1 DEF Distinct
  <2> QED BY <1>2, <2>1, <2>2
<1>6. /\ \A x : Once(used', x) <=> x = k \/ Once(used, x)
      /\ \A x : x # k => LaterThan(used', k, x)
      /\ \A a, b : b # k /\ LaterThan(used, a, b) => LaterThan(used', a, b)
  BY UsesFacts
<1>7. ASSUME NEW i \in DOMAIN l' PROVE Once(used', l'[i])
  BY <1>1, <1>2, <1>5, <1>6 DEF KeepsMostRecent
<1>8. ASSUME NEW i \in DOMAIN l', NEW j \in DOMAIN l', i < j PROVE LaterThan(used', l'[i], l'[j])
  <2>1. j \in 2 .. Len(l') /\ l'[j] # k
    BY <1>4, <1>5, <1>8
  <2>2. CASE i = 1
    BY <1>2, <1>6, <2>1, <2>2
  <2>3. CASE i \in 2 .. Len(l')
    <3>1. f[i] \in DOMAIN l /\ f[j] \in DOMAIN l /\ f[i] < f[j]
      BY <1>1, <1>8, <2>1, <2>3
    <3>2. LaterThan(used, l[f[i]], l[f[j]])
      BY <3>1 DEF KeepsMostRecent
    <3> QED BY <1>1, <1>6, <2>1, <2>3, <3>2
  <2> QED BY <1>5, <2>2, <2>3
<1>9. ASSUME NEW x \in Key \ {l'[i] : i \in DOMAIN l'}, Once(used', x)
      PROVE  Len(l') = CacheSize /\ \A i \in DOMAIN l' : LaterThan(used', l'[i], x)
  <2>1. x # k /\ Once(used, x) /\ x \notin Keys(l')
    <3>1. x \notin Keys(l')
      BY <1>9 DEF Keys
    <3>2. k \in Keys(l')
      BY <1>3
    <3> QED BY <1>6, <1>9, <3>1, <3>2
  <2>2. CASE x \in Keys(l)
    <3>1. Evicted(k) = {x} /\ MustEvict(k) /\ x = l[Len(l)]
      BY <1>3, <1>4, <2>1, <2>2 DEF Evicted, Back
    <3>2. Len(l') = CacheSize /\ Len(l) = CacheSize
      <4>1. k \notin p /\ Len(l) >= CacheSize
        BY <3>1 DEF MustEvict
      <4>2. Len(l) = CacheSize
        <5>1. Len(l) \in Nat /\ Len(l) <= CacheSize /\ Len(l) >= CacheSize /\ CacheSize \in Nat
          <6>1. Len(l) \in Nat /\ Len(l) <= CacheSize
            BY <1>4
          <6> QED BY <4>1, <6>1, CacheSizeAssumption
        <5> QED BY <5>1
      <4>3. k \in p \/ MustEvict(k)
        BY <3>1
      <4>4. Len(l') = Len(l)
        BY <1>2, <4>3
      <4> QED BY <4>2, <4>4
    <3>3. ASSUME NEW i \in 2 .. Len(l') PROVE LaterThan(used', l'[i], x)
      <4>1. f[i] \in DOMAIN l /\ l'[i] = l[f[i]] /\ l'[i] # x
        <5>1. f[i] \in DOMAIN l /\ l'[i] = l[f[i]]
          BY <1>1
        <5>2. i \in DOMAIN l'
          BY <1>4
        <5> QED BY <2>1, <5>1, <5>2 DEF Keys
      <4>2. f[i] < Len(l) /\ Len(l) \in DOMAIN l
        <5>1. Len(l) \in Nat /\ DOMAIN l = 1 .. Len(l)
          BY <1>4
        <5>2. f[i] # Len(l)
          BY <3>1, <4>1
        <5> QED BY <4>1, <5>1, <5>2
      <4>3. LaterThan(used, l[f[i]], l[Len(l)])
        BY <4>1, <4>2 DEF KeepsMostRecent
      <4> QED BY <1>6, <2>1, <3>1, <4>1, <4>3
    <3> QED BY <1>2, <1>5, <1>6, <2>1, <3>2, <3>3
  <2>3. CASE x \notin Keys(l)
    <3>1. Len(l) = CacheSize /\ \A i \in DOMAIN l : LaterThan(used, l[i], x)
      BY <2>1, <2>3 DEF KeepsMostRecent, Keys
    <3>2. Len(l') = CacheSize
      BY <1>2, <1>3, <1>4, <3>1, CacheSizeAssumption DEF MustEvict
    <3> QED BY <1>1, <1>2, <1>5, <1>6, <2>1, <3>1, <3>2
  <2> QED BY <2>2, <2>3
<1> QED BY <1>7, <1>8, <1>9 DEF KeepsMostRecent

(* At any time the cache of a child holds the cache_size words it used     *)
(* last, in the order of their last use, for every cache size and every    *)
(* mix of hits, misses, stored answers and failed calls                    *)
(* (child.cc:41-80,107-131).                                               *)
THEOREM MostRecentKept == HistorySpec => []KeepsMostRecent
<1> DEFINE Inv == ChildInv /\ LruInv /\ used \in Seq(Key) /\ KeepsMostRecent
<1>1. HistoryInit => Inv
  <2>1. HistoryInit => ChildInv /\ LruInv /\ used \in Seq(Key)
    BY LruInit DEF HistoryInit, ChildInit, Init, EmptyMap, ChildInv, CacheRight, AnswersDatabase
  <2>2. HistoryInit => l = <<>> /\ used = <<>> /\ DOMAIN <<>> = {}
    BY DEF HistoryInit, ChildInit, Init
  <2> QED BY <2>1, <2>2 DEF KeepsMostRecent, Once
<1>2. Inv /\ [HistoryNext]_historyVars => Inv'
  <2> SUFFICES ASSUME Inv, [HistoryNext]_historyVars PROVE Inv'
    OBVIOUS
  <2>1. [ChildNext]_<<vars, childVars>>
    BY DEF HistoryNext, historyVars, ChildNext
  <2>2. ChildInv' /\ LruInv'
    BY <2>1, ChildStep, ChildUses, LruStep
  <2>3. ASSUME NEW k \in Key, l' = Used(k), Uses(k) PROVE Inv'
    BY <2>2, <2>3, RecentStep, UsesFacts DEF Uses
  <2>4. CASE UNCHANGED <<l, used>>
    BY <2>2, <2>4 DEF KeepsMostRecent, Once, LaterThan
  <2>5. ASSUME NEW w \in Key, Hit(w), Uses(w) PROVE Inv'
    BY <2>3, <2>5 DEF Hit, GetHit
  <2>6. ASSUME NEW w \in Key, Ask(w), IF w \in DOMAIN c THEN Uses(w) ELSE UNCHANGED used
        PROVE  Inv'
    BY <2>3, <2>4, <2>6 DEF Ask, GetHit, GetMiss
  <2>7. ASSUME Answered \/ Failed, Uses(asked) PROVE Inv'
    BY <2>3, <2>7 DEF Answered, Failed, Respond, SetValue, ChildInv
  <2>8. CASE UNCHANGED historyVars
    BY <2>4, <2>8 DEF historyVars, vars
  <2> QED BY <2>5, <2>6, <2>7, <2>8 DEF HistoryNext
<1>3. Inv => KeepsMostRecent
  OBVIOUS
<1> QED BY <1>1, <1>2, <1>3, PTL DEF HistorySpec
=============================================================================

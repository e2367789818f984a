-------------------------- MODULE EarlyPoolsProofs --------------------------
(***************************************************************************)
(* For any number of threads and clients and a queue of any length: the    *)
(* counters of the two early servers stay in their arrays in spite of the  *)
(* race on end_queue, the ring hands connections over in the order they    *)
(* came, and as long as no push and pop overlap and no signal is lost each *)
(* open connection is in one place.                                        *)
(***************************************************************************)
EXTENDS EarlyPools, TLAPS

-----------------------------------------------------------------------------
(* The stack.  What main() and the provider have loaded of end_queue may   *)
(* be old, but it was once right: below it every slot was filled, and it   *)
(* had room above it, or something under it.                               *)
FilledBelow(n) == \A i \in Slot : i < n => task_queue[i] # 0

StackInv ==
  version = "stack" =>
    /\ main \in {"select", "load", "store"}
    /\ main = "load" => end_queue < MaxQueue /\ task_queue[end_queue] # 0
    /\ main = "store" => tmp < MaxQueue /\ FilledBelow(tmp + 1)
    /\ provider = "load" => end_queue >= 1
    /\ provider = "store" => loaded >= 1 /\ FilledBelow(loaded)
    /\ provider # "pop" => hand # 0
    /\ FilledBelow(end_queue)

-----------------------------------------------------------------------------
(* The ring, by how many connections were queued and taken from it.        *)
Enqueued == IF main \in {"makeRoom", "handFirst", "enqueue"} THEN accepted - 1 ELSE accepted
Dequeued == IF main \in {"handFirst", "hand"} THEN handed + 1 ELSE handed
Queued == Enqueued - Dequeued

(* Slot i is the j-th behind the front. *)
Behind(i, j) == i = front_queue + j \/ i = front_queue + j - MaxQueue

(* The length of the queue as front_queue and end_queue tell it, but for   *)
(* the wrap; main() never goes to accept() with all but one slot in use    *)
(* and end_queue above front_queue, where Full would not see it.           *)
RingPlaces ==
  /\ end_queue \in Slot
  /\ Queued \in 0 .. MaxQueue - 1
  /\ Queued = end_queue - front_queue \/ Queued = MaxQueue + end_queue - front_queue
  /\ main = "select" /\ Queued = MaxQueue - 1 => end_queue < front_queue
  /\ main = "makeRoom" => Queued = MaxQueue - 1 /\ end_queue < front_queue
  /\ main = "handFirst" => Queued = MaxQueue - 2
  /\ main = "enqueue" => Queued <= MaxQueue - 2
  /\ main = "dequeue" => end_queue > front_queue
  /\ main = "hand" => front_queue <= end_queue /\ Queued <= MaxQueue - 2

(* Before the first wrap nothing stays behind. *)
NoWrapYet ==
  /\ Enqueued < MaxQueue => end_queue = Enqueued
  /\ Dequeued < MaxQueue => front_queue = Dequeued
  /\ main \in {"makeRoom", "handFirst"} => accepted > MaxQueue
  /\ accepted < MaxQueue => Queued = IF main = "dequeue" THEN 1 ELSE 0

InOrder ==
  /\ \A i \in Slot : \A j \in 0 .. Queued - 1 : Behind(i, j) => task_queue[i] = Dequeued + 1 + j
  /\ main \in {"handFirst", "hand"} => hand = handed + 1

RingInv ==
  version = "ring" =>
    /\ provider = "pop" /\ main \notin {"load", "store"}
    /\ RingPlaces /\ NoWrapYet /\ InOrder

-----------------------------------------------------------------------------
(* As long as no push and pop overlap, what was loaded is still right.     *)
Calm ==
  version = "stack" /\ ~raced =>
    /\ main = "select" \/ provider \in {"pop", "hand"}
    /\ main = "store" => tmp = end_queue
    /\ provider = "store" => loaded = end_queue
    /\ main # "select" => task_queue[end_queue] = accepted
    /\ provider \in {"load", "store"} => hand = task_queue[end_queue - 1]

PoolInv == TypeOK /\ StackInv /\ RingInv

-----------------------------------------------------------------------------
(* Counting round the ring, with C's remainder. *)
LEMMA NextSlot ==
  ASSUME NEW i \in Slot
  PROVE  /\ (i + 1) % MaxQueue = IF i + 1 = MaxQueue THEN 0 ELSE i + 1
         /\ (i + 1) % MaxQueue \in Slot
BY EarlyPoolsAssumption DEF Slot

LEMMA RemSmall ==
  ASSUME NEW n \in Int, -MaxQueue < n, n < MaxQueue
  PROVE  Rem(n) = n
<1>1. MaxQueue \in Nat /\ MaxQueue > 1
  BY EarlyPoolsAssumption
<1>2. ASSUME NEW k \in Nat, k < MaxQueue PROVE k % MaxQueue = k
  BY <1>1, <1>2
<1>3. CASE n >= 0
  BY <1>2, <1>3 DEF Rem
<1>4. CASE n < 0
  <2>1. -n \in Nat /\ -n < MaxQueue
    BY <1>1, <1>4
  <2>2. (-n) % MaxQueue = -n
    BY <1>2, <2>1
  <2>3. Rem(n) = -((-n) % MaxQueue)
    BY <1>4 DEF Rem
  <2> QED
    BY <2>2, <2>3
<1> QED
  BY <1>3, <1>4

LEMMA ProbedWorker == TypeOK => Probed \in Worker
<1> SUFFICES ASSUME TypeOK PROVE Probed \in Worker
  OBVIOUS
<1>1. N \in Nat \ {0}
  BY EarlyPoolsAssumption
<1>2. \A n \in Nat : n % N \in 0 .. N - 1
  BY <1>1
<1>3. probe + (IF version = "ring" THEN accepted ELSE 0) \in Nat
  BY <1>1, EarlyPoolsAssumption DEF TypeOK, Worker
<1> QED
  BY <1>2, <1>3 DEF Probed, Worker

LEMMA InitPool == Init => PoolInv
<1> SUFFICES ASSUME Init PROVE PoolInv
  OBVIOUS
<1>1. MaxQueue \in Nat /\ MaxQueue > 1 /\ N \in Nat \ {0} /\ Clients[version] \in Nat
  BY EarlyPoolsAssumption DEF Init
<1>2. TypeOK
  <2>1. {up, raced, early} \subseteq BOOLEAN
    BY DEF Init
  <2>2. task_queue \in [Slot -> 0 .. accepted] /\ front_queue \in Slot
    BY <1>1 DEF Init, Slot
  <2>3. {tmp, loaded} \subseteq 0 .. MaxQueue /\ end_queue \in 0 .. MaxQueue /\ probe \in Worker
    BY <1>1 DEF Init, Worker
  <2> QED
    BY <1>1, <2>1, <2>2, <2>3 DEF Init, TypeOK
<1>3. StackInv
  BY DEF Init, StackInv, FilledBelow, Slot
<1>4. RingInv
  <2>1. main \notin {"makeRoom", "handFirst", "enqueue", "hand"} /\ accepted = 0 /\ handed = 0
    BY DEF Init
  <2>2. Enqueued = 0 /\ Dequeued = 0
    BY <2>1 DEF Enqueued, Dequeued
  <2>3. Queued = 0
    BY <2>2 DEF Queued
  <2> QED
    BY <1>1, <2>2, <2>3 DEF Init, RingInv, RingPlaces, NoWrapYet, InOrder, Slot
<1> QED
  BY <1>2, <1>3, <1>4 DEF PoolInv

-----------------------------------------------------------------------------
(* The threads: they change neither the queue nor what is handed over.     *)
LEMMA ThreadPool ==
  ASSUME PoolInv, NEW w \in Worker, Runs(w) \/ HangUp(w)
  PROVE  PoolInv'
<1>1. UNCHANGED <<version, accepted, handed, queueVars, mainVars, giverVars>>
  BY DEF Runs, Wait, Wake, Answer, HangUp, runVars, clientVars
<1>2. StackInv' /\ RingInv'
  BY <1>1 DEF PoolInv, StackInv, FilledBelow, RingInv, RingPlaces, NoWrapYet, InOrder, Behind,
              Queued, Enqueued, Dequeued, queueVars, mainVars, giverVars
<1>3. /\ up' \in BOOLEAN /\ UNCHANGED <<raced, early>>
      /\ served' \cup left' \subseteq 1 .. accepted
      /\ pc' \in [Worker -> {"loop", "waiting", "woken", "serving"}]
      /\ working' \in [Worker -> {-1, 0}] /\ UNCHANGED sockfd
  <2>0. TypeOK
    BY DEF PoolInv
  <2>1. CASE Wait(w) \/ Wake(w)
    BY <2>0, <2>1 DEF TypeOK, Wait, Wake, Goto, runVars, clientVars
  <2>2. CASE Answer(w)
    BY <2>0, <2>2 DEF TypeOK, Answer, Goto, Done, runVars, Open
  <2>3. CASE HangUp(w)
    <3>1. sockfd[w] \in (1 .. accepted)
      BY <2>0, <2>3, EarlyPoolsAssumption DEF TypeOK, HangUp
    <3> QED
      BY <2>0, <2>3, <3>1 DEF TypeOK, HangUp, Goto
  <2> QED
    BY <2>1, <2>2, <2>3 DEF Runs
<1>4. TypeOK'
  BY <1>1, <1>3 DEF PoolInv, TypeOK, queueVars, mainVars, giverVars
<1> QED
  BY <1>2, <1>4 DEF PoolInv

-----------------------------------------------------------------------------
(* The stack. *)

LEMMA PushPool == ASSUME PoolInv, Push PROVE PoolInv'
<1>0. TypeOK /\ StackInv /\ version' = version /\ version = "stack" /\ MaxQueue \in Nat
      /\ Clients[version] \in Nat
  BY EarlyPoolsAssumption DEF PoolInv, Push, runVars, TypeOK
<1>1. end_queue \in Slot /\ accepted' = accepted + 1 /\ accepted' \in 0 .. Clients[version]
      /\ accepted \in Nat
  BY <1>0 DEF TypeOK, Push, MayAccept, Slot
<1>2. task_queue' \in [Slot -> 0 .. accepted'] /\ task_queue'[end_queue] = accepted'
      /\ \A i \in Slot : i # end_queue => task_queue'[i] = task_queue[i]
  BY <1>0, <1>1 DEF TypeOK, Push
<1>3. TypeOK'
  <2>1. served' \cup left' \subseteq 1 .. accepted' /\ hand' \in 0 .. accepted'
    BY <1>0, <1>1 DEF TypeOK, Push, giverVars
  <2>2. sockfd' \in [Worker -> {-1} \cup (1 .. accepted')]
    <3>1. \A w \in Worker : sockfd[w] \in {-1} \cup (1 .. accepted')
      BY <1>0, <1>1 DEF TypeOK
    <3> QED
      BY <1>0, <3>1 DEF TypeOK, Push, threadVars
  <2>3. {up', raced', early'} \subseteq BOOLEAN
    BY <1>0 DEF TypeOK, Push, runVars
  <2> QED
    BY <1>0, <1>1, <1>2, <2>1, <2>2, <2>3
       DEF TypeOK, Push, runVars, giverVars, threadVars
<1>4. StackInv'
  BY <1>0, <1>1, <1>2 DEF TypeOK, StackInv, FilledBelow, Push, giverVars, Slot
<1> QED
  BY <1>0, <1>3, <1>4 DEF PoolInv, RingInv

(* What the other steps of the stack leave to be shown. *)
LEMMA StackStep ==
  ASSUME PoolInv, version = "stack",
         UNCHANGED <<version, clientVars, task_queue, front_queue, probe, threadVars, early>>,
         up' \in BOOLEAN, raced' \in BOOLEAN,
         end_queue' \in 0 .. MaxQueue, {tmp', loaded'} \subseteq 0 .. MaxQueue,
         hand' \in 0 .. accepted, main' \in {"select", "load", "store"},
         provider' \in {"pop", "load", "store", "hand"},
         StackInv'
  PROVE  PoolInv'
<1>1. TypeOK'
  BY DEF PoolInv, TypeOK, clientVars, threadVars
<1> QED
  BY <1>1 DEF PoolInv, RingInv

LEMMA MainStackPool == ASSUME PoolInv, PushLoad \/ PushStore PROVE PoolInv'
<1>0. TypeOK /\ StackInv /\ MaxQueue \in Nat
  BY EarlyPoolsAssumption DEF PoolInv
<1>1. version = "stack"
  <2>1. main \in {"load", "store"}
    BY DEF PushLoad, PushStore
  <2>2. version \in {"stack", "ring"}
    BY <1>0, EarlyPoolsAssumption DEF TypeOK
  <2> QED
    BY <2>1, <2>2 DEF PoolInv, RingInv
<1>2. CASE PushLoad
  <2>1. StackInv'
    BY <1>0, <1>1, <1>2 DEF PushLoad, TypeOK, StackInv, FilledBelow, Slot, runVars, queueVars, giverVars
  <2> QED
    BY <1>0, <1>1, <1>2, <2>1, StackStep DEF PushLoad, TypeOK, runVars, queueVars, giverVars
<1>3. CASE PushStore
  <2>1. tmp' = tmp /\ end_queue' = tmp + 1 /\ tmp < MaxQueue /\ FilledBelow(tmp + 1) /\ tmp \in Nat
    BY <1>0, <1>1, <1>3 DEF PushStore, TypeOK, StackInv
  <2>2. StackInv'
    BY <1>0, <1>1, <1>3, <2>1 DEF PushStore, TypeOK, StackInv, FilledBelow, Slot, runVars, giverVars
  <2> QED
    BY <1>0, <1>1, <1>3, <2>1, <2>2, StackStep DEF PushStore, TypeOK, runVars, giverVars
<1> QED
  BY <1>2, <1>3

LEMMA ProviderStackPool == ASSUME PoolInv, version = "stack", Pop \/ PopLoad \/ PopStore
  PROVE PoolInv'
<1>0. TypeOK /\ StackInv /\ MaxQueue \in Nat
  BY EarlyPoolsAssumption DEF PoolInv
<1>1. CASE Pop
  <2>1. end_queue - 1 \in Slot /\ hand' = task_queue[end_queue - 1] /\ end_queue >= 1
    BY <1>0, <1>1 DEF Pop, TypeOK, Slot
  <2>2. hand' # 0 /\ hand' \in 0 .. accepted
    BY <1>0, <2>1 DEF StackInv, FilledBelow, TypeOK
  <2>3. StackInv'
    BY <1>0, <1>1, <2>1, <2>2 DEF Pop, StackInv, FilledBelow, runVars, queueVars, mainVars
  <2>4. raced' \in BOOLEAN
    BY <1>1 DEF Pop
  <2> QED
    BY <1>0, <1>1, <2>2, <2>3, <2>4, StackStep DEF Pop, TypeOK, StackInv, runVars, queueVars, mainVars
<1>2. CASE PopLoad
  <2>1. StackInv'
    BY <1>0, <1>2 DEF PopLoad, StackInv, FilledBelow, runVars, queueVars, mainVars
  <2> QED
    BY <1>0, <1>2, <2>1, StackStep DEF PopLoad, TypeOK, StackInv, runVars, queueVars, mainVars
<1>3. CASE PopStore
  <2>1. end_queue' = loaded - 1 /\ loaded >= 1 /\ loaded \in 0 .. MaxQueue /\ FilledBelow(loaded)
        /\ loaded - 1 \in Slot
    BY <1>0, <1>3 DEF PopStore, Top, StackInv, TypeOK, Slot
  <2>2. StackInv'
    BY <1>0, <1>3, <2>1 DEF PopStore, StackInv, FilledBelow, Slot, TypeOK, runVars, mainVars
  <2>3. probe' \in Worker
    BY <1>3, EarlyPoolsAssumption DEF PopStore, Worker
  <2>4. TypeOK'
    <3>1. end_queue' \in 0 .. MaxQueue
      BY <1>0, <2>1
    <3>2. UNCHANGED <<runVars, clientVars, task_queue, front_queue, mainVars, loaded, hand,
                 threadVars, raced, early>> /\ provider' = "hand"
      BY <1>3 DEF PopStore
    <3> QED
      BY <1>0, <2>3, <3>1, <3>2 DEF TypeOK, runVars, clientVars, mainVars, threadVars
  <2> QED
    BY <1>3, <2>2, <2>4 DEF PoolInv, RingInv, PopStore, runVars
<1> QED
  BY <1>1, <1>2, <1>3

-----------------------------------------------------------------------------
(* The loop over the threads. *)

LEMMA PassByPool == ASSUME PoolInv, PassBy PROVE PoolInv'
<1>0. TypeOK /\ N \in Nat \ {0}
  BY EarlyPoolsAssumption DEF PoolInv
<1>1. probe' \in Worker
  <2>1. \A n \in Nat : n % N \in 0 .. N - 1
    BY <1>0
  <2>2. probe + 1 \in Nat
    BY <1>0 DEF TypeOK, Worker
  <2> QED
    BY <2>1, <2>2 DEF PassBy, Worker
<1>2. UNCHANGED <<runVars, clientVars, queueVars, mainVars, provider, loaded, hand, threadVars,
                 raced, early>>
  BY DEF PassBy
<1>3. TypeOK'
  BY <1>0, <1>1, <1>2 DEF TypeOK, runVars, clientVars, queueVars, mainVars, threadVars
<1>4. StackInv' /\ RingInv'
  BY <1>2 DEF PoolInv, StackInv, FilledBelow, RingInv, RingPlaces, NoWrapYet, InOrder, Behind,
              Queued, Enqueued, Dequeued, runVars, clientVars, queueVars, mainVars
<1> QED
  BY <1>3, <1>4 DEF PoolInv

LEMMA HandOverPool == ASSUME PoolInv, HandOver PROVE PoolInv'
<1>0. TypeOK /\ Probed \in Worker /\ version \in {"stack", "ring"}
  BY ProbedWorker, EarlyPoolsAssumption DEF PoolInv, TypeOK
<1>1. UNCHANGED <<runVars, accepted, served, left, queueVars, tmp, loaded, hand, probe, raced>>
  BY DEF HandOver
<1>2. hand \in 1 .. accepted
  <2>1. hand # 0
    <3>1. CASE version = "stack"
      BY <3>1 DEF HandOver, Handing, PoolInv, StackInv
    <3>2. CASE version = "ring"
      <4>1. hand = handed + 1
        BY <3>2 DEF HandOver, Handing, PoolInv, RingInv, InOrder
      <4> QED
        BY <1>0, <4>1 DEF TypeOK
    <3> QED
      BY <1>0, <3>1, <3>2
  <2> QED
    BY <1>0, <2>1 DEF TypeOK
<1>3. TypeOK'
  <2>1. /\ pc' \in [Worker -> {"loop", "waiting", "woken", "serving"}]
        /\ working' \in [Worker -> {-1, 0}]
    BY <1>0 DEF TypeOK, HandOver
  <2>2. sockfd' \in [Worker -> {-1} \cup (1 .. accepted)]
    BY <1>0, <1>2 DEF TypeOK, HandOver
  <2>3. early' \in BOOLEAN /\ handed' \in Nat
    BY <1>0 DEF TypeOK, HandOver
  <2>4. main' \in {"enqueue", "select", main} /\ provider' \in {"pop", provider}
    BY DEF HandOver
  <2> QED
    BY <1>0, <1>1, <2>1, <2>2, <2>3, <2>4 DEF TypeOK, runVars, queueVars
<1>4. StackInv'
  BY <1>1 DEF HandOver, PoolInv, StackInv, FilledBelow, runVars, queueVars
<1>5. RingInv'
  <2> SUFFICES ASSUME version = "ring" PROVE RingInv'
    BY <1>1 DEF RingInv, runVars
  <2>1. /\ main \in {"handFirst", "hand"} /\ handed' = handed + 1 /\ provider' = provider
        /\ main' = IF main = "handFirst" THEN "enqueue" ELSE "select"
    BY DEF HandOver, Handing
  <2>2. Enqueued' = Enqueued /\ Dequeued' = Dequeued
    BY <1>1, <2>1 DEF Enqueued, Dequeued
  <2>3. Queued' = Queued
    BY <2>2 DEF Queued
  <2>4. RingPlaces /\ NoWrapYet /\ InOrder /\ provider = "pop"
    BY DEF PoolInv, RingInv
  <2>5. MaxQueue \in Nat /\ MaxQueue > 1
    BY EarlyPoolsAssumption
  <2>6. RingPlaces'
    BY <1>1, <2>1, <2>3, <2>4, <2>5 DEF RingPlaces, queueVars
  <2>7. NoWrapYet'
    BY <1>0, <1>1, <2>1, <2>2, <2>3, <2>4, <2>5 DEF NoWrapYet, queueVars, TypeOK
  <2>8. InOrder'
    BY <1>1, <2>1, <2>2, <2>3, <2>4 DEF InOrder, Behind, queueVars
  <2> QED
    BY <2>1, <2>4, <2>6, <2>7, <2>8 DEF RingInv
<1> QED
  BY <1>3, <1>4, <1>5 DEF PoolInv

-----------------------------------------------------------------------------
(* The ring. *)

LEMMA AcceptPool == ASSUME PoolInv, Accept PROVE PoolInv'
<1>0. TypeOK /\ RingPlaces /\ NoWrapYet /\ InOrder /\ version = "ring" /\ main = "select"
      /\ provider = "pop" /\ MaxQueue \in Nat /\ MaxQueue > 1 /\ Clients[version] \in Nat
      /\ accepted \in Nat
  BY EarlyPoolsAssumption DEF PoolInv, Accept, MayAccept, RingInv, TypeOK
<1>1. /\ UNCHANGED <<runVars, handed, served, left, queueVars, tmp, giverVars, threadVars, raced,
                 early>>
      /\ accepted' = accepted + 1 /\ accepted' \in 0 .. Clients[version]
  BY <1>0 DEF Accept, MayAccept, TypeOK
<1>2. main' \in {"makeRoom", "enqueue"} /\ (main' = "makeRoom" <=> front_queue - end_queue = 1)
  <2>1. front_queue - end_queue \in Int /\ -MaxQueue < front_queue - end_queue
        /\ front_queue - end_queue < MaxQueue
    BY <1>0 DEF TypeOK, RingPlaces, Slot
  <2>2. Full <=> front_queue - end_queue = 1
    BY <2>1, RemSmall DEF Full
  <2> QED
    BY <2>2 DEF Accept
<1>3. TypeOK'
  <2>1. served' \cup left' \subseteq 1 .. accepted' /\ hand' \in 0 .. accepted'
    BY <1>0, <1>1 DEF TypeOK, giverVars
  <2>2. \A w \in Worker : sockfd[w] \in {-1} \cup (1 .. accepted')
    BY <1>0, <1>1 DEF TypeOK
  <2>3. sockfd' \in [Worker -> {-1} \cup (1 .. accepted')]
    BY <1>0, <1>1, <2>2 DEF TypeOK, threadVars
  <2>4. \A i \in Slot : task_queue[i] \in 0 .. accepted'
    BY <1>0, <1>1 DEF TypeOK
  <2>5. task_queue' \in [Slot -> 0 .. accepted']
    BY <1>0, <1>1, <2>4 DEF TypeOK, queueVars
  <2> QED
    BY <1>0, <1>1, <1>2, <2>1, <2>3, <2>5
       DEF TypeOK, runVars, queueVars, giverVars, threadVars
<1>4. Enqueued' = Enqueued /\ Dequeued' = Dequeued
  BY <1>0, <1>1, <1>2 DEF Enqueued, Dequeued
<1>5. Queued' = Queued /\ Queued \in Int
  BY <1>0, <1>4 DEF Queued, RingPlaces
<1>6. RingPlaces'
  BY <1>0, <1>1, <1>2, <1>5 DEF RingPlaces, queueVars, TypeOK, Slot
<1>7. NoWrapYet'
  <2>1. main' = "makeRoom" => accepted' > MaxQueue
    BY <1>0, <1>1, <1>2 DEF NoWrapYet, RingPlaces, TypeOK, Slot
  <2> QED
    BY <1>0, <1>1, <1>2, <1>4, <1>5, <2>1 DEF NoWrapYet, queueVars
<1>8. InOrder'
  BY <1>0, <1>1, <1>2, <1>4, <1>5 DEF InOrder, Behind, queueVars
<1>9. RingInv'
  BY <1>0, <1>1, <1>2, <1>6, <1>7, <1>8 DEF RingInv, giverVars
<1>10. StackInv'
  BY <1>0, <1>1 DEF StackInv, runVars
<1> QED
  BY <1>3, <1>9, <1>10 DEF PoolInv

LEMMA EnqueuePool == ASSUME PoolInv, version = "ring", Enqueue PROVE PoolInv'
<1>0. TypeOK /\ RingPlaces /\ NoWrapYet /\ InOrder /\ main = "enqueue"
      /\ provider = "pop" /\ MaxQueue \in Nat /\ MaxQueue > 1 /\ accepted \in Nat /\ handed \in Nat
  BY EarlyPoolsAssumption DEF PoolInv, Enqueue, RingInv, TypeOK
<1>1. UNCHANGED <<runVars, clientVars, front_queue, tmp, giverVars, threadVars, raced, early>>
  BY DEF Enqueue
<1>2. /\ end_queue \in Slot /\ front_queue \in Slot /\ end_queue' \in Slot
      /\ end_queue' = IF end_queue + 1 = MaxQueue THEN 0 ELSE end_queue + 1
  BY <1>0, NextSlot DEF Enqueue, TypeOK, RingPlaces
<1>3. /\ task_queue' \in [Slot -> 0 .. accepted]
      /\ task_queue'[end_queue] = accepted
      /\ \A i \in Slot : i # end_queue => task_queue'[i] = task_queue[i]
  BY <1>0, <1>2 DEF Enqueue, TypeOK
<1>4. main' = IF end_queue' > front_queue THEN "dequeue" ELSE "select"
  <2>1. end_queue' - front_queue \in Int /\ -MaxQueue < end_queue' - front_queue
        /\ end_queue' - front_queue < MaxQueue
    BY <1>0, <1>2 DEF Slot
  <2>2. Rem(end_queue' - front_queue) = end_queue' - front_queue
    BY <2>1, RemSmall
  <2>3. Rem(end_queue' - front_queue) > 0 <=> end_queue' > front_queue
    BY <1>0, <1>2, <2>2 DEF Slot
  <2> QED
    BY <2>3 DEF Enqueue
<1>5. TypeOK'
  BY <1>0, <1>1, <1>2, <1>3, <1>4
     DEF TypeOK, runVars, clientVars, giverVars, threadVars, Slot
<1>6. Enqueued = accepted - 1 /\ Enqueued' = accepted /\ Dequeued = handed /\ Dequeued' = handed
  BY <1>0, <1>1, <1>4 DEF Enqueued, Dequeued, clientVars
<1>7. Queued = accepted - 1 - handed /\ Queued' = Queued + 1 /\ Queued \in 0 .. MaxQueue - 2
  <2>1. Queued = accepted - 1 - handed /\ Queued' = accepted - handed
    BY <1>6 DEF Queued
  <2> QED
    BY <1>0, <2>1 DEF RingPlaces
<1>8. end_queue = front_queue + Queued \/ end_queue = front_queue + Queued - MaxQueue
  BY <1>0, <1>2, <1>7 DEF RingPlaces, Slot
<1>9. RingPlaces'
  <2>1. Queued' = end_queue' - front_queue \/ Queued' = MaxQueue + end_queue' - front_queue
    BY <1>0, <1>2, <1>7, <1>8 DEF Slot
  <2>2. main' = "select" /\ Queued' = MaxQueue - 1 => end_queue' < front_queue
    BY <1>0, <1>2, <1>4, <1>7, <2>1 DEF Slot
  <2>3. Queued' \in 0 .. MaxQueue - 1
    BY <1>0, <1>7
  <2> QED
    BY <1>0, <1>1, <1>2, <1>4, <2>1, <2>2, <2>3 DEF RingPlaces
<1>10. NoWrapYet'
  <2>1. Enqueued' < MaxQueue => end_queue' = Enqueued'
    BY <1>0, <1>2, <1>6 DEF NoWrapYet, Slot
  <2>2. Dequeued' < MaxQueue => front_queue' = Dequeued'
    BY <1>0, <1>1, <1>6 DEF NoWrapYet
  <2>3. accepted < MaxQueue => main' = "dequeue" /\ Queued' = 1
    <3>1. accepted < MaxQueue => Queued = 0
      BY <1>0 DEF NoWrapYet
    <3> QED
      BY <1>0, <1>1, <1>2, <1>4, <1>6, <1>7, <2>1, <2>2, <3>1 DEF Slot
  <2> QED
    BY <1>1, <1>4, <2>1, <2>2, <2>3 DEF NoWrapYet, clientVars
<1>11. InOrder'
  <2> SUFFICES ASSUME NEW i \in Slot, NEW j \in 0 .. Queued, Behind(i, j)
               PROVE  task_queue'[i] = handed + 1 + j
    BY <1>1, <1>4, <1>6, <1>7 DEF InOrder, Behind
  <2>1. CASE j = Queued
    <3>1. i = end_queue
      BY <1>0, <1>2, <1>7, <1>8, <2>1 DEF Behind, Slot
    <3> QED
      BY <1>0, <1>3, <1>7, <2>1, <3>1
  <2>2. CASE j # Queued
    <3>1. i # end_queue /\ j \in 0 .. Queued - 1
      BY <1>0, <1>2, <1>7, <1>8, <2>2 DEF Behind, Slot
    <3>2. task_queue[i] = Dequeued + 1 + j
      BY <1>0, <3>1 DEF InOrder
    <3> QED
      BY <1>3, <1>6, <3>1, <3>2
  <2> QED
    BY <2>1, <2>2
<1>12. RingInv' /\ StackInv'
  BY <1>0, <1>1, <1>4, <1>9, <1>10, <1>11 DEF RingInv, StackInv, giverVars, runVars
<1> QED
  BY <1>5, <1>12 DEF PoolInv

LEMMA DequeuePool == ASSUME PoolInv, version = "ring", Dequeue PROVE PoolInv'
<1>0. TypeOK /\ RingPlaces /\ NoWrapYet /\ InOrder /\ main \in {"makeRoom", "dequeue"}
      /\ provider = "pop" /\ MaxQueue \in Nat /\ MaxQueue > 1 /\ accepted \in Nat /\ handed \in Nat
  BY EarlyPoolsAssumption DEF PoolInv, Dequeue, RingInv, TypeOK
<1>1. /\ UNCHANGED <<runVars, clientVars, task_queue, end_queue, tmp, provider, loaded, threadVars,
                 raced, early>>
      /\ main' = IF main = "makeRoom" THEN "handFirst" ELSE "hand"
      /\ hand' = task_queue[front_queue]
  BY DEF Dequeue
<1>2. /\ end_queue \in Slot /\ front_queue \in Slot /\ front_queue' \in Slot
      /\ front_queue' = IF front_queue + 1 = MaxQueue THEN 0 ELSE front_queue + 1
  BY <1>0, NextSlot DEF Dequeue, TypeOK, RingPlaces
<1>3. TypeOK'
  <2>1. hand' \in 0 .. accepted
    BY <1>0, <1>1, <1>2 DEF TypeOK
  <2>2. probe' \in Worker
    BY EarlyPoolsAssumption DEF Dequeue, Worker
  <2> QED
    BY <1>0, <1>1, <1>2, <2>1, <2>2 DEF TypeOK, runVars, clientVars, threadVars
<1>4. Enqueued' = Enqueued /\ Dequeued = handed /\ Dequeued' = handed + 1 /\ Enqueued \in Int
  BY <1>0, <1>1 DEF Enqueued, Dequeued, clientVars
<1>5. Queued \in 0 .. MaxQueue - 1 /\ Queued' = Queued - 1
  BY <1>0, <1>4 DEF Queued, RingPlaces
<1>6. Queued >= 1
  BY <1>0, <1>2, <1>5 DEF RingPlaces, Slot
<1>7. hand' = handed + 1
  <2>1. Behind(front_queue, 0) /\ 0 \in 0 .. Queued - 1
    BY <1>2, <1>5, <1>6 DEF Behind, Slot
  <2>2. task_queue[front_queue] = Dequeued + 1 + 0
    BY <1>0, <1>2, <2>1 DEF InOrder
  <2> QED
    BY <1>0, <1>1, <1>4, <2>2
<1>8. RingPlaces'
  <2>1. Queued' = end_queue - front_queue' \/ Queued' = MaxQueue + end_queue - front_queue'
    BY <1>0, <1>2, <1>5, <1>6 DEF RingPlaces, Slot
  <2>2. main = "makeRoom" => Queued' = MaxQueue - 2
    BY <1>0, <1>5 DEF RingPlaces
  <2>3. main = "dequeue" => front_queue' <= end_queue /\ Queued' <= MaxQueue - 2
    BY <1>0, <1>2, <1>5 DEF RingPlaces, Slot
  <2>4. Queued' \in 0 .. MaxQueue - 1
    BY <1>0, <1>5, <1>6
  <2> QED
    BY <1>0, <1>1, <1>2, <2>1, <2>2, <2>3, <2>4 DEF RingPlaces
<1>9. NoWrapYet'
  <2>1. Dequeued' < MaxQueue => front_queue' = Dequeued'
    BY <1>0, <1>2, <1>4 DEF NoWrapYet, Slot
  <2>2. accepted < MaxQueue => main' # "handFirst" /\ Queued' = 0
    <3>1. accepted < MaxQueue => main = "dequeue" /\ Queued = 1
      BY <1>0, <1>5, <1>6 DEF NoWrapYet
    <3> QED
      BY <1>1, <1>5, <3>1
  <2> QED
    BY <1>0, <1>1, <1>4, <2>1, <2>2 DEF NoWrapYet, clientVars
<1>10. InOrder'
  <2> SUFFICES ASSUME NEW i \in Slot, NEW j \in 0 .. Queued - 2, Behind(i, j)'
               PROVE  task_queue[i] = handed + 1 + 1 + j
    BY <1>1, <1>4, <1>5, <1>7 DEF InOrder, clientVars
  <2>1. Behind(i, j + 1) /\ j + 1 \in 0 .. Queued - 1
    BY <1>0, <1>2, <1>5 DEF Behind, Slot
  <2>2. task_queue[i] = Dequeued + 1 + (j + 1)
    BY <1>0, <2>1 DEF InOrder
  <2> QED
    BY <1>0, <1>4, <2>2
<1>11. RingInv' /\ StackInv'
  BY <1>0, <1>1, <1>8, <1>9, <1>10 DEF RingInv, StackInv, giverVars, runVars
<1> QED
  BY <1>3, <1>11 DEF PoolInv

-----------------------------------------------------------------------------
LEMMA AcceptFailsPool == ASSUME PoolInv, AcceptFails \/ UNCHANGED vars PROVE PoolInv'
<1>1. /\ UNCHANGED <<version, clientVars, queueVars, mainVars, giverVars, threadVars, raced, early>>
      /\ up' = FALSE \/ up' = up
  BY DEF AcceptFails, vars, runVars
<1>2. StackInv' /\ RingInv'
  BY <1>1 DEF PoolInv, StackInv, FilledBelow, RingInv, RingPlaces, NoWrapYet, InOrder, Behind,
              Queued, Enqueued, Dequeued, clientVars, queueVars, mainVars, giverVars
<1>3. TypeOK'
  BY <1>1 DEF PoolInv, TypeOK, clientVars, queueVars, mainVars, giverVars, threadVars
<1> QED
  BY <1>2, <1>3 DEF PoolInv

LEMMA StepPool == PoolInv /\ [Next]_vars => PoolInv'
<1> SUFFICES ASSUME PoolInv, [Next]_vars PROVE PoolInv'
  OBVIOUS
<1>1. CASE AcceptCb
  BY <1>1, PushPool, MainStackPool DEF AcceptCb
<1>2. CASE Provider
  BY <1>2, ProviderStackPool, HandOverPool, PassByPool DEF Provider
<1>3. CASE RingMain
  BY <1>3, AcceptPool, EnqueuePool, DequeuePool, HandOverPool, PassByPool DEF RingMain
<1>4. CASE AcceptFails \/ UNCHANGED vars
  BY <1>4, AcceptFailsPool
<1>5. CASE \E w \in Worker : Runs(w) \/ (up /\ HangUp(w))
  BY <1>5, ThreadPool
<1> QED
  BY <1>1, <1>2, <1>3, <1>4, <1>5 DEF Next

LEMMA PoolHolds == Spec => []PoolInv
BY InitPool, StepPool, PTL DEF Spec

(* The unlocked count of end_queue by accept_cb and the provider, each a   *)
(* load and a store, never leaves the array, and no thread is handed what  *)
(* no one accepted, whatever is overtaken; the ring's indices stay in      *)
(* theirs (assignment-3/src/webserver1.c:99-106,706-719; a31:763-779).     *)
THEOREM EarlyTypes == Spec => []TypeOK
BY PoolHolds, PTL DEF PoolInv

(* The ring hands every connection over in its turn, through every wrap,   *)
(* and what it keeps back behind a wrap is bounded by the queue, none      *)
(* before the first (a31/assignment-3/src/webserver1.c:733-736,763-779).   *)
THEOREM RingInTurn == Spec => []InTurn
<1>1. PoolInv => InTurn
  <2> SUFFICES ASSUME TypeOK, RingInv, version = "ring" PROVE InTurn
    BY DEF PoolInv, InTurn
  <2>1. RingPlaces /\ NoWrapYet /\ InOrder
    BY DEF RingInv
  <2>2. Handing => hand = handed + 1
    BY <2>1 DEF Handing, InOrder
  <2>3. main = "select" => Queued = accepted - handed
    BY DEF Queued, Enqueued, Dequeued
  <2>4. main = "select" =>
          accepted - handed <= IF accepted < MaxQueue THEN 0 ELSE MaxQueue - 1
    BY <2>1, <2>3 DEF RingPlaces, NoWrapYet
  <2> QED
    BY <2>2, <2>4 DEF InTurn
<1> QED
  BY <1>1, PoolHolds, PTL

-----------------------------------------------------------------------------
(* What was loaded is right while nothing overlaps. *)

LEMMA StepCalm == PoolInv /\ Calm /\ [Next]_vars => Calm'
<1> SUFFICES ASSUME PoolInv, Calm, [Next]_vars, version' = "stack", ~raced' PROVE Calm'
  BY DEF Calm
<1>0. TypeOK /\ StackInv /\ MaxQueue \in Nat
  BY EarlyPoolsAssumption DEF PoolInv
<1>1. ASSUME UNCHANGED <<version, raced, accepted, queueVars, mainVars, loaded>>,
             UNCHANGED <<provider, hand>> \/ provider' = "pop" 
      PROVE  Calm'
  BY <1>1 DEF Calm, queueVars, mainVars
<1>2. CASE Push
  <2>0. provider \notin {"load", "store"}
    BY <1>2 DEF Push
  <2>1. end_queue \in Slot /\ provider \notin {"load", "store"}
        /\ UNCHANGED <<provider, end_queue>> /\ main' = "load"
    BY <1>0, <1>2, <2>0 DEF Push, TypeOK, Slot, giverVars
  <2>2. task_queue'[end_queue] = accepted'
    BY <1>0, <1>2, <2>1 DEF Push, TypeOK
  <2> QED
    BY <1>0, <2>1, <2>2 DEF Calm, TypeOK
<1>3. CASE PushLoad
  BY <1>0, <1>3 DEF Calm, PushLoad, runVars, clientVars, queueVars, giverVars
<1>4. CASE PushStore
  BY <1>0, <1>4 DEF Calm, PushStore, TypeOK, runVars, clientVars, giverVars
<1>5. CASE Pop
  BY <1>0, <1>5 DEF Calm, Pop, runVars, clientVars, queueVars, mainVars
<1>6. CASE PopLoad
  BY <1>0, <1>6 DEF Calm, PopLoad, runVars, clientVars, queueVars, mainVars
<1>7. CASE PopStore
  BY <1>0, <1>7 DEF Calm, PopStore, runVars, clientVars, mainVars
<1>8. CASE PassBy
  BY <1>1, <1>8 DEF PassBy, runVars, clientVars
<1>9. CASE HandOver /\ version = "stack"
  BY <1>1, <1>9 DEF HandOver, runVars, mainVars
<1>10. CASE RingMain
  BY <1>10 DEF RingMain, Accept, Enqueue, Dequeue, HandOver, PassBy, runVars
<1>11. CASE AcceptFails \/ UNCHANGED vars
  BY <1>1, <1>11 DEF AcceptFails, vars, runVars, clientVars, giverVars
<1>12. ASSUME NEW w \in Worker, Runs(w) \/ HangUp(w) PROVE Calm'
  BY <1>1, <1>12 DEF Runs, Wait, Wake, Answer, HangUp, runVars, clientVars, giverVars
<1> QED
  BY <1>2, <1>3, <1>4, <1>5, <1>6, <1>7, <1>8, <1>9, <1>10, <1>11, <1>12
     DEF Next, AcceptCb, Provider

-----------------------------------------------------------------------------
(* Who keeps a connection, place by place. *)
SlotKeeps(i, c) == InUse(i) /\ task_queue[i] = c
MainKeeps(c) == main \notin {"select", "dequeue", "hand"} /\ accepted = c
GiverKeeps(c) == Handing /\ hand = c
ThreadKeeps(w, c) == pc[w] \in {"woken", "serving"} /\ sockfd[w] = c

KeepersAre(c) ==
  \A k : k \in Keepers(c) <=>
    \/ k = <<"main", 0>> /\ MainKeeps(c)
    \/ k = <<"giver", 0>> /\ GiverKeeps(c)
    \/ \E i \in Slot : k = <<"slot", i>> /\ SlotKeeps(i, c)
    \/ \E w \in Worker : k = <<"thread", w>> /\ ThreadKeeps(w, c)

LEMMA KeepersSplit ==
  ASSUME NEW c PROVE KeepersAre(c) /\ KeepersAre(c)'
<1>1. KeepersAre(c)
  BY DEF KeepersAre, Keepers, SlotKeeps, MainKeeps, GiverKeeps, ThreadKeeps
<1>2. KeepersAre(c)'
  BY DEF KeepersAre, Keepers, SlotKeeps, MainKeeps, GiverKeeps, ThreadKeeps
<1> QED
  BY <1>1, <1>2

One(c) == \E k \in Keepers(c) : Keepers(c) = {k}

LEMMA SameKeepers ==
  ASSUME NEW c, One(c),
         MainKeeps(c)' <=> MainKeeps(c), GiverKeeps(c)' <=> GiverKeeps(c),
         \A i \in Slot : SlotKeeps(i, c)' <=> SlotKeeps(i, c),
         \A w \in Worker : ThreadKeeps(w, c)' <=> ThreadKeeps(w, c)
  PROVE  One(c)'
<1>1. \A k : k \in Keepers(c)' <=> k \in Keepers(c)
  BY KeepersSplit DEF KeepersAre
<1>2. Keepers(c)' = Keepers(c)
  BY <1>1
<1> QED
  BY <1>2 DEF One

LEMMA MovedKeeper ==
  ASSUME NEW c, One(c), NEW k1, NEW k2, k1 \in Keepers(c), k2 \in Keepers(c)',
         \A k : k \in Keepers(c)' => k = k2 \/ (k # k1 /\ k \in Keepers(c))
  PROVE  One(c)'
<1>1. Keepers(c) = {k1}
  BY DEF One
<1>2. Keepers(c)' = {k2}
  BY <1>1
<1> QED
  BY <1>2 DEF One

(* A thread changes who keeps what only for a connection that closes.      *)
LEMMA ThreadKept ==
  ASSUME PoolInv, NEW w \in Worker, Runs(w) \/ HangUp(w), NEW c \in Open', One(c)
  PROVE  One(c)'
<1>0. TypeOK
  BY DEF PoolInv
<1>1. UNCHANGED <<version, accepted, queueVars, mainVars, giverVars, sockfd>>
  BY DEF Runs, Wait, Wake, Answer, HangUp, runVars, clientVars
<1>2. /\ MainKeeps(c)' <=> MainKeeps(c)
      /\ GiverKeeps(c)' <=> GiverKeeps(c)
      /\ \A i \in Slot : SlotKeeps(i, c)' <=> SlotKeeps(i, c)
  BY <1>1 DEF MainKeeps, GiverKeeps, SlotKeeps, InUse, Handing, queueVars, mainVars, giverVars
<1>3. pc' = pc \/ \E label : pc' = [pc EXCEPT ![w] = label]
  BY DEF Runs, Wait, Wake, Answer, HangUp, Goto
<1>4. \A v \in Worker \ {w} : pc'[v] = pc[v]
  BY <1>0, <1>3 DEF TypeOK
<1>5. ThreadKeeps(w, c)' <=> ThreadKeeps(w, c)
  <2>1. CASE Wait(w) \/ Wake(w)
    BY <1>0, <1>1, <2>1 DEF Wait, Wake, Goto, ThreadKeeps, TypeOK
  <2>2. CASE Answer(w) \/ HangUp(w)
    <3>1. sockfd[w] \in served' \cup left'
      BY <2>2 DEF Answer, HangUp
    <3>2. sockfd[w] # c
      BY <3>1 DEF Open
    <3> QED
      BY <1>1, <3>2 DEF ThreadKeeps
  <2> QED
    BY <2>1, <2>2 DEF Runs
<1>6. \A v \in Worker : ThreadKeeps(v, c)' <=> ThreadKeeps(v, c)
  BY <1>1, <1>4, <1>5 DEF ThreadKeeps
<1> QED
  BY <1>2, <1>6, SameKeepers

(* Steps on the way that move nothing yet. *)
LEMMA QuietKept ==
  ASSUME NEW c, One(c),
         UNCHANGED <<version, accepted, task_queue, front_queue, end_queue, threadVars>>,
         main' = main \/ (version = "stack" /\ main = "load" /\ main' = "store"),
         Handing' <=> Handing, Handing => hand' = hand
  PROVE  One(c)'
<1>1. MainKeeps(c)' <=> MainKeeps(c)
  BY DEF MainKeeps
<1>2. GiverKeeps(c)' <=> GiverKeeps(c)
  BY DEF GiverKeeps
<1>3. \A i \in Slot : SlotKeeps(i, c)' <=> SlotKeeps(i, c)
  BY DEF SlotKeeps, InUse
<1>4. \A w \in Worker : ThreadKeeps(w, c)' <=> ThreadKeeps(w, c)
  BY DEF ThreadKeeps, threadVars
<1> QED
  BY <1>1, <1>2, <1>3, <1>4, SameKeepers

(* A connection is accepted: main() has it, and nothing else does. *)
LEMMA NewKept ==
  ASSUME PoolInv, PoolInv', Push \/ Accept, NEW c \in 1 .. accepted', c <= accepted => One(c)
  PROVE  One(c)'
<1>0. TypeOK /\ TypeOK' /\ accepted' = accepted + 1 /\ accepted \in Nat /\ MaxQueue \in Nat
      /\ main = "select" /\ main' \notin {"select", "dequeue", "hand"}
  BY EarlyPoolsAssumption DEF PoolInv, TypeOK, Push, Accept, MayAccept
<1>1. UNCHANGED <<version, front_queue, end_queue, threadVars, provider, hand>>
  BY DEF Push, Accept, runVars, queueVars, giverVars
<1>2. \A i \in Slot : InUse(i)' => InUse(i) /\ task_queue'[i] = task_queue[i]
  <2>1. CASE Push
    <3>1. version = "stack" /\ \A i \in Slot : i # end_queue => task_queue'[i] = task_queue[i]
      BY <1>0, <2>1 DEF Push, TypeOK
    <3> QED
      BY <1>0, <1>1, <3>1 DEF InUse, TypeOK, Slot
  <2>2. CASE Accept
    BY <1>1, <2>2 DEF InUse, Accept, queueVars
  <2> QED
    BY <2>1, <2>2
<1>3. \A i \in Slot : InUse(i) => InUse(i)'
  BY <1>1 DEF InUse
<1>4. CASE c <= accepted
  <2>1. MainKeeps(c)' <=> MainKeeps(c)
    BY <1>0, <1>4 DEF MainKeeps
  <2>2. GiverKeeps(c)' <=> GiverKeeps(c)
    <3>1. Handing' <=> Handing
      <4>1. version = "ring" => main' \notin {"handFirst", "hand"}
        BY <1>0 DEF Push, Accept
      <4> QED
        BY <1>0, <1>1, <4>1 DEF Handing
    <3> QED
      BY <1>1, <3>1 DEF GiverKeeps
  <2>3. \A i \in Slot : SlotKeeps(i, c)' <=> SlotKeeps(i, c)
    BY <1>2, <1>3 DEF SlotKeeps
  <2>4. \A w \in Worker : ThreadKeeps(w, c)' <=> ThreadKeeps(w, c)
    BY <1>1 DEF ThreadKeeps, threadVars
  <2> QED
    BY <1>4, <2>1, <2>2, <2>3, <2>4, SameKeepers
<1>5. CASE c = accepted'
  <2>1. MainKeeps(c)'
    BY <1>0, <1>5 DEF MainKeeps
  <2>2. ~GiverKeeps(c)'
    BY <1>0, <1>1, <1>5 DEF GiverKeeps, TypeOK
  <2>3. \A i \in Slot : ~SlotKeeps(i, c)'
    <3>1. \A i \in Slot : task_queue[i] \in 0 .. accepted
      BY <1>0 DEF TypeOK
    <3> QED
      BY <1>0, <1>2, <1>5, <3>1 DEF SlotKeeps
  <2>4. \A w \in Worker : ~ThreadKeeps(w, c)'
    <3>1. \A w \in Worker : sockfd[w] \in {-1} \cup (1 .. accepted)
      BY <1>0 DEF TypeOK
    <3> QED
      BY <1>0, <1>1, <1>5, <3>1 DEF ThreadKeeps, threadVars
  <2>5. \A k : k \in Keepers(c)' <=> k = <<"main", 0>>
    BY <2>1, <2>2, <2>3, <2>4, KeepersSplit DEF KeepersAre
  <2>6. Keepers(c)' = {<<"main", 0>>}
    BY <2>5
  <2> QED
    BY <2>6 DEF One
<1> QED
  BY <1>0, <1>4, <1>5

(* The thread that is handed a connection waited, and had none. *)
LEMMA HandOverKept ==
  ASSUME PoolInv, HandOver, ~early', NEW c, One(c)
  PROVE  One(c)'
<1>0. TypeOK /\ Probed \in Worker /\ version \in {"stack", "ring"} /\ PoolInv
  BY ProbedWorker, EarlyPoolsAssumption DEF PoolInv, TypeOK
<1>1. UNCHANGED <<version, accepted, task_queue, front_queue, end_queue, hand>> /\ Handing
  BY DEF HandOver, runVars, queueVars
<1> PICK w \in Worker : w = Probed
  BY <1>0
<1>2. pc[w] = "waiting"
  BY DEF HandOver
<1>3. /\ pc' = [pc EXCEPT ![w] = "woken"] /\ sockfd' = [sockfd EXCEPT ![w] = hand]
  BY <1>2 DEF HandOver
<1>4. MainKeeps(c)' <=> MainKeeps(c)
  <2>1. main' = main \/ (main = "handFirst" /\ main' = "enqueue") \/ (main = "hand" /\ main' = "select")
    BY DEF HandOver, Handing
  <2> QED
    BY <1>1, <2>1 DEF MainKeeps
<1>5. ~GiverKeeps(c)'
  <2>1. ~Handing'
    BY <1>1 DEF Handing, HandOver
  <2> QED
    BY <2>1 DEF GiverKeeps
<1>6. \A i \in Slot : SlotKeeps(i, c)' <=> SlotKeeps(i, c)
  BY <1>1 DEF SlotKeeps, InUse
<1>7. \A v \in Worker \ {w} : ThreadKeeps(v, c)' <=> ThreadKeeps(v, c)
  BY <1>0, <1>3 DEF ThreadKeeps, TypeOK
<1>8. ~ThreadKeeps(w, c) /\ (ThreadKeeps(w, c)' <=> hand = c)
  BY <1>0, <1>2, <1>3 DEF ThreadKeeps, TypeOK
<1>9. CASE hand # c
  <2>1. GiverKeeps(c)' <=> GiverKeeps(c)
    BY <1>5, <1>9 DEF GiverKeeps
  <2>2. \A v \in Worker : ThreadKeeps(v, c)' <=> ThreadKeeps(v, c)
    BY <1>7, <1>8, <1>9
  <2> QED
    BY <1>4, <1>6, <2>1, <2>2, SameKeepers
<1>10. CASE hand = c
  <2>1. <<"giver", 0>> \in Keepers(c)
    BY <1>1, <1>10, KeepersSplit DEF KeepersAre, GiverKeeps
  <2>2. <<"thread", w>> \in Keepers(c)'
    BY <1>8, <1>10, KeepersSplit DEF KeepersAre
  <2>3. \A k : k \in Keepers(c)' =>
          k = <<"thread", w>> \/ (k # <<"giver", 0>> /\ k \in Keepers(c))
    BY <1>4, <1>5, <1>6, <1>7, KeepersSplit DEF KeepersAre
  <2> QED
    BY <2>1, <2>2, <2>3, MovedKeeper
<1> QED
  BY <1>9, <1>10

(* The top of the stack moves: the connection goes from main() into a      *)
(* slot, or from a slot to the provider.                                   *)
LEMMA PushStoreKept ==
  ASSUME PoolInv, Calm, ~raced, PushStore, NEW c, One(c)
  PROVE  One(c)'
<1>0. TypeOK /\ StackInv /\ version = "stack" /\ MaxQueue \in Nat
  <2>1. version \in {"stack", "ring"}
    BY EarlyPoolsAssumption DEF PoolInv, TypeOK
  <2> QED
    BY <2>1, EarlyPoolsAssumption DEF PoolInv, RingInv, PushStore
<1>1. /\ UNCHANGED <<version, accepted, task_queue, front_queue, provider, hand, threadVars>>
      /\ main = "store" /\ main' = "select"
  BY DEF PushStore, runVars, clientVars, giverVars
<1>2. /\ end_queue' = end_queue + 1 /\ end_queue \in Slot /\ task_queue[end_queue] = accepted
  BY <1>0, <1>1 DEF Calm, PushStore, StackInv, TypeOK, Slot
<1>3. \A i \in Slot : InUse(i)' <=> InUse(i) \/ i = end_queue
  BY <1>0, <1>1, <1>2 DEF InUse, Slot
<1>4. ~MainKeeps(c)' /\ (MainKeeps(c) <=> c = accepted)
  BY <1>1 DEF MainKeeps
<1>5. GiverKeeps(c)' <=> GiverKeeps(c)
  BY <1>0, <1>1 DEF GiverKeeps, Handing
<1>6. \A w \in Worker : ThreadKeeps(w, c)' <=> ThreadKeeps(w, c)
  BY <1>1 DEF ThreadKeeps, threadVars
<1>7. \A i \in Slot : SlotKeeps(i, c)' <=> SlotKeeps(i, c) \/ (i = end_queue /\ c = accepted)
  BY <1>1, <1>2, <1>3 DEF SlotKeeps
<1>8. CASE c # accepted
  BY <1>4, <1>5, <1>6, <1>7, <1>8, SameKeepers
<1>9. CASE c = accepted
  <2>1. <<"main", 0>> \in Keepers(c) /\ <<"slot", end_queue>> \in Keepers(c)'
    BY <1>2, <1>4, <1>7, <1>9, KeepersSplit DEF KeepersAre
  <2>2. \A k : k \in Keepers(c)' =>
          k = <<"slot", end_queue>> \/ (k # <<"main", 0>> /\ k \in Keepers(c))
    BY <1>4, <1>5, <1>6, <1>7, KeepersSplit DEF KeepersAre
  <2> QED
    BY <2>1, <2>2, MovedKeeper
<1> QED
  BY <1>8, <1>9

LEMMA PopStoreKept ==
  ASSUME PoolInv, Calm, ~raced, version = "stack", PopStore, NEW c, One(c)
  PROVE  One(c)'
<1>0. TypeOK /\ StackInv /\ MaxQueue \in Nat
  BY EarlyPoolsAssumption DEF PoolInv
<1>1. /\ UNCHANGED <<version, accepted, task_queue, front_queue, main, hand, threadVars>>
      /\ provider = "store" /\ provider' = "hand"
  BY DEF PopStore, runVars, clientVars, mainVars
<1> PICK top : top = end_queue - 1
  OBVIOUS
<1>2. end_queue' = top /\ top \in Slot /\ task_queue[top] = hand /\ end_queue = top + 1
  BY <1>0, <1>1 DEF Calm, PopStore, Top, StackInv, TypeOK, Slot
<1>3. \A i \in Slot : InUse(i)' <=> InUse(i) /\ i # top
  BY <1>0, <1>1, <1>2 DEF InUse, Slot
<1>4. MainKeeps(c)' <=> MainKeeps(c)
  BY <1>1 DEF MainKeeps
<1>5. ~GiverKeeps(c) /\ (GiverKeeps(c)' <=> hand = c)
  BY <1>1 DEF GiverKeeps, Handing
<1>6. \A w \in Worker : ThreadKeeps(w, c)' <=> ThreadKeeps(w, c)
  BY <1>1 DEF ThreadKeeps, threadVars
<1>7. InUse(top)
  BY <1>2 DEF InUse, Slot
<1>8. \A i \in Slot : SlotKeeps(i, c)' <=> SlotKeeps(i, c) /\ i # top
  BY <1>1, <1>3 DEF SlotKeeps
<1>9. SlotKeeps(top, c) <=> hand = c
  BY <1>2, <1>7 DEF SlotKeeps
<1>10. CASE hand # c
  <2>1. \A i \in Slot : SlotKeeps(i, c)' <=> SlotKeeps(i, c)
    BY <1>8, <1>9, <1>10
  <2>2. GiverKeeps(c)' <=> GiverKeeps(c)
    BY <1>5, <1>10
  <2> QED
    BY <1>4, <1>6, <2>1, <2>2, SameKeepers
<1>11. CASE hand = c
  <2>1. <<"slot", top>> \in Keepers(c) /\ <<"giver", 0>> \in Keepers(c)'
    BY <1>2, <1>5, <1>9, <1>11, KeepersSplit DEF KeepersAre
  <2>2. \A k : k \in Keepers(c)' =>
          k = <<"giver", 0>> \/ (k # <<"slot", top>> /\ k \in Keepers(c))
    BY <1>4, <1>5, <1>6, <1>8, KeepersSplit DEF KeepersAre
  <2> QED
    BY <2>1, <2>2, MovedKeeper
<1> QED
  BY <1>10, <1>11

-----------------------------------------------------------------------------
(* How far slot i lies behind slot f, round the ring. *)
Off(i, f) == IF i >= f THEN i - f ELSE i - f + MaxQueue

LEMMA OffMod ==
  ASSUME NEW i \in Slot, NEW f \in Slot
  PROVE  (i - f) % MaxQueue = Off(i, f) /\ Off(i, f) \in Slot
<1>1. MaxQueue \in Nat /\ MaxQueue > 1 /\ i \in Nat /\ f \in Nat /\ i < MaxQueue /\ f < MaxQueue
  BY EarlyPoolsAssumption DEF Slot
<1>2. CASE i >= f
  BY <1>1, <1>2 DEF Off, Slot
<1>3. CASE i < f
  BY <1>1, <1>3 DEF Off, Slot
<1> QED
  BY <1>1, <1>2, <1>3

LEMMA OffNext ==
  ASSUME NEW i \in Slot, NEW f \in Slot, NEW n \in Slot,
         n = IF i + 1 = MaxQueue THEN 0 ELSE i + 1
  PROVE  /\ Off(i, f) <= MaxQueue - 2 => Off(n, f) = Off(i, f) + 1
         /\ \A k \in Slot : Off(k, n) = IF k = i THEN MaxQueue - 1 ELSE Off(k, i) - 1
         /\ \A k \in Slot : Off(k, f) = Off(i, f) <=> k = i
<1>1. MaxQueue \in Nat /\ MaxQueue > 1
  BY EarlyPoolsAssumption
<1>2. Off(i, f) <= MaxQueue - 2 => Off(n, f) = Off(i, f) + 1
  BY <1>1 DEF Off, Slot
<1>3. \A k \in Slot : Off(k, n) = IF k = i THEN MaxQueue - 1 ELSE Off(k, i) - 1
  BY <1>1 DEF Off, Slot
<1>4. \A k \in Slot : Off(k, f) = Off(i, f) <=> k = i
  BY <1>1 DEF Off, Slot
<1> QED
  BY <1>2, <1>3, <1>4

(* The ends of the ring move: from main() into the slot at the end, and    *)
(* from the slot at the front to main() that hands it over.                *)
LEMMA EnqueueKept ==
  ASSUME PoolInv, version = "ring", Enqueue, NEW c, One(c)
  PROVE  One(c)'
<1>0. TypeOK /\ RingPlaces /\ MaxQueue \in Nat /\ MaxQueue > 1 /\ main = "enqueue"
  BY EarlyPoolsAssumption DEF PoolInv, RingInv, Enqueue
<1>1. /\ UNCHANGED <<version, accepted, front_queue, hand, threadVars>>
      /\ main' \in {"dequeue", "select"}
  BY DEF Enqueue, runVars, clientVars, giverVars
<1>2. /\ end_queue \in Slot /\ front_queue \in Slot /\ end_queue' \in Slot
      /\ end_queue' = IF end_queue + 1 = MaxQueue THEN 0 ELSE end_queue + 1
  BY <1>0, NextSlot DEF Enqueue, TypeOK, RingPlaces
<1>3. /\ task_queue'[end_queue] = accepted
      /\ \A i \in Slot : i # end_queue => task_queue'[i] = task_queue[i]
  BY <1>0, <1>2 DEF Enqueue, TypeOK
<1>4. Off(end_queue, front_queue) <= MaxQueue - 2
  BY <1>0, <1>2 DEF Off, RingPlaces, Slot
<1>5. Off(end_queue', front_queue) = Off(end_queue, front_queue) + 1
  BY <1>2, <1>4, OffNext
<1>6. \A i \in Slot : InUse(i)' <=> InUse(i) \/ i = end_queue
  <2> SUFFICES ASSUME NEW i \in Slot PROVE InUse(i)' <=> InUse(i) \/ i = end_queue
    OBVIOUS
  <2>1. InUse(i) <=> Off(i, front_queue) < Off(end_queue, front_queue)
    BY <1>2, OffMod DEF InUse
  <2>2. InUse(i)' <=> Off(i, front_queue) < Off(end_queue', front_queue)
    BY <1>1, <1>2, OffMod DEF InUse
  <2>3. Off(i, front_queue) = Off(end_queue, front_queue) <=> i = end_queue
    BY <1>2, OffNext
  <2>4. Off(i, front_queue) \in Nat /\ Off(end_queue, front_queue) \in Nat
    BY <1>2, OffMod DEF Slot
  <2> QED
    BY <1>5, <2>1, <2>2, <2>3, <2>4
<1>7. ~InUse(end_queue)
  <2>1. Off(end_queue, front_queue) \in Slot
    BY <1>2, OffMod
  <2> QED
    BY <1>0, <1>2, <2>1, OffMod DEF InUse, Slot
<1>8. MainKeeps(c) <=> c = accepted
  BY <1>0 DEF MainKeeps
<1>9. ~MainKeeps(c)' /\ ~GiverKeeps(c) /\ ~GiverKeeps(c)'
  BY <1>0, <1>1 DEF MainKeeps, GiverKeeps, Handing
<1>10. \A w \in Worker : ThreadKeeps(w, c)' <=> ThreadKeeps(w, c)
  BY <1>1 DEF ThreadKeeps, threadVars
<1>11. \A i \in Slot : SlotKeeps(i, c)' <=> SlotKeeps(i, c) \/ (i = end_queue /\ c = accepted)
  BY <1>3, <1>6, <1>7 DEF SlotKeeps
<1>12. CASE c # accepted
  BY <1>8, <1>9, <1>10, <1>11, <1>12, SameKeepers
<1>13. CASE c = accepted
  <2>1. <<"main", 0>> \in Keepers(c) /\ <<"slot", end_queue>> \in Keepers(c)'
    BY <1>2, <1>8, <1>11, <1>13, KeepersSplit DEF KeepersAre
  <2>2. \A k : k \in Keepers(c)' =>
          k = <<"slot", end_queue>> \/ (k # <<"main", 0>> /\ k \in Keepers(c))
    BY <1>9, <1>10, <1>11, KeepersSplit DEF KeepersAre
  <2> QED
    BY <2>1, <2>2, MovedKeeper
<1> QED
  BY <1>12, <1>13

LEMMA DequeueKept ==
  ASSUME PoolInv, version = "ring", Dequeue, NEW c, One(c)
  PROVE  One(c)'
<1>0. TypeOK /\ RingPlaces /\ MaxQueue \in Nat /\ MaxQueue > 1 /\ main \in {"makeRoom", "dequeue"}
  BY EarlyPoolsAssumption DEF PoolInv, RingInv, Dequeue
<1>1. /\ UNCHANGED <<version, accepted, task_queue, end_queue, threadVars>>
      /\ main' = IF main = "makeRoom" THEN "handFirst" ELSE "hand"
  BY DEF Dequeue, runVars, clientVars
<1>2. /\ end_queue \in Slot /\ front_queue \in Slot /\ front_queue' \in Slot
      /\ front_queue' = IF front_queue + 1 = MaxQueue THEN 0 ELSE front_queue + 1
  BY <1>0, NextSlot DEF Dequeue, TypeOK, RingPlaces
<1> PICK f \in Slot : f = front_queue
  BY <1>2
<1>3. hand' = task_queue[f]
  BY DEF Dequeue
<1>4. Off(end_queue, f) >= 1 /\ end_queue # f
  BY <1>0, <1>2 DEF Off, RingPlaces, Slot
<1>5. /\ Off(end_queue, front_queue') = Off(end_queue, f) - 1
      /\ \A k \in Slot : Off(k, front_queue') = IF k = f THEN MaxQueue - 1 ELSE Off(k, f) - 1
  BY <1>2, <1>4, OffNext
<1>6. \A i \in Slot : InUse(i)' <=> InUse(i) /\ i # f
  <2> SUFFICES ASSUME NEW i \in Slot PROVE InUse(i)' <=> InUse(i) /\ i # f
    OBVIOUS
  <2>1. InUse(i) <=> Off(i, f) < Off(end_queue, f)
    BY <1>2, OffMod DEF InUse
  <2>2. InUse(i)' <=> Off(i, front_queue') < Off(end_queue, front_queue')
    BY <1>1, <1>2, OffMod DEF InUse
  <2>3. Off(i, f) \in 0 .. MaxQueue - 1 /\ Off(end_queue, f) \in 0 .. MaxQueue - 1
    BY <1>2, OffMod DEF Slot
  <2> QED
    BY <1>0, <1>5, <2>1, <2>2, <2>3
<1>7. InUse(f)
  <2>1. Off(f, f) = 0
    BY DEF Off, Slot
  <2>2. \A i \in Slot : InUse(i) <=> Off(i, f) < Off(end_queue, f)
    BY <1>2, OffMod DEF InUse
  <2>3. InUse(f) <=> Off(f, f) < Off(end_queue, f)
    BY <2>2
  <2>4. Off(end_queue, f) \in Slot
    BY <1>2, OffMod
  <2> QED
    BY <1>4, <2>1, <2>3, <2>4 DEF Slot
<1>8. MainKeeps(c)' <=> MainKeeps(c)
  BY <1>0, <1>1 DEF MainKeeps
<1>9. ~GiverKeeps(c) /\ (GiverKeeps(c)' <=> hand' = c)
  BY <1>0, <1>1 DEF GiverKeeps, Handing
<1>10. \A w \in Worker : ThreadKeeps(w, c)' <=> ThreadKeeps(w, c)
  BY <1>1 DEF ThreadKeeps, threadVars
<1>11. \A i \in Slot : SlotKeeps(i, c)' <=> SlotKeeps(i, c) /\ i # f
  BY <1>1, <1>6 DEF SlotKeeps
<1>12. SlotKeeps(f, c) <=> hand' = c
  BY <1>3, <1>7 DEF SlotKeeps
<1>13. CASE hand' # c
  <2>1. \A i \in Slot : SlotKeeps(i, c)' <=> SlotKeeps(i, c)
    BY <1>11, <1>12, <1>13
  <2>2. GiverKeeps(c)' <=> GiverKeeps(c)
    BY <1>9, <1>13
  <2> QED
    BY <1>8, <1>10, <2>1, <2>2, SameKeepers
<1>14. CASE hand' = c
  <2>1. <<"slot", f>> \in Keepers(c) /\ <<"giver", 0>> \in Keepers(c)'
    BY <1>9, <1>12, <1>14, KeepersSplit DEF KeepersAre
  <2>2. \A k : k \in Keepers(c)' =>
          k = <<"giver", 0>> \/ (k # <<"slot", f>> /\ k \in Keepers(c))
    BY <1>8, <1>9, <1>10, <1>11, KeepersSplit DEF KeepersAre
  <2> QED
    BY <2>1, <2>2, MovedKeeper
<1> QED
  BY <1>13, <1>14

LEMMA StepKept == PoolInv /\ PoolInv' /\ Calm /\ Kept /\ [Next]_vars => Kept'
<1> SUFFICES ASSUME PoolInv, PoolInv', Calm, Kept, [Next]_vars, ~raced', ~early', NEW c \in Open'
             PROVE  One(c)'
  BY DEF Kept, One
<1>0. TypeOK /\ TypeOK'
  BY DEF PoolInv
<1>1. ~raced /\ ~early
  <2>1. raced' = raced \/ Push \/ Pop
    BY <1>0 DEF Next, AcceptCb, Provider, RingMain, Runs, AcceptFails, Wait, Wake, Answer, HangUp,
       PushLoad, PushStore, PopLoad, PopStore, HandOver, PassBy, Accept, Enqueue, Dequeue, vars
  <2>2. early' = early \/ HandOver
    BY <1>0 DEF Next, AcceptCb, Provider, RingMain, Runs, AcceptFails, Wait, Wake, Answer, HangUp,
       Push, Pop, PushLoad, PushStore, PopLoad, PopStore, PassBy, Accept, Enqueue, Dequeue, vars
  <2>3. ~raced
    BY <2>1 DEF Push, Pop
  <2>4. ~early
    BY <2>2 DEF HandOver
  <2> QED
    BY <2>3, <2>4
<1>2. \A d \in Open : One(d)
  BY <1>1 DEF Kept, One
<1>3. CASE Push \/ Accept
  <2>1. c \in 1 .. accepted' /\ (c <= accepted => c \in Open)
    <3>1. UNCHANGED <<served, left>>
      BY <1>3 DEF Push, Accept
    <3> QED
      BY <1>0, <3>1 DEF Open, TypeOK
  <2> QED
    BY <1>2, <1>3, <2>1, NewKept
<1>4. ASSUME NEW w \in Worker, Runs(w) \/ HangUp(w) PROVE One(c)'
  <2>1. Open' \subseteq Open
    BY <1>4 DEF Open, Runs, Wait, Wake, Answer, HangUp, clientVars
  <2> QED
    BY <1>2, <1>4, <2>1, ThreadKept
<1>5. ASSUME UNCHANGED <<accepted, served, left>> PROVE One(c)
  BY <1>2, <1>5 DEF Open
<1>6. CASE HandOver
  BY <1>5, <1>6, HandOverKept DEF HandOver
<1>7. CASE PushStore
  BY <1>1, <1>5, <1>7, PushStoreKept DEF PushStore, clientVars
<1>8. CASE PopStore /\ version = "stack"
  BY <1>1, <1>5, <1>8, PopStoreKept DEF PopStore, clientVars
<1>9. CASE version = "ring" /\ (Enqueue \/ Dequeue)
  BY <1>5, <1>9, EnqueueKept, DequeueKept DEF Enqueue, Dequeue, clientVars
<1>10. CASE PushLoad
  <2>1. version = "stack"
    BY <1>0, <1>10, EarlyPoolsAssumption DEF PoolInv, RingInv, PushLoad, TypeOK
  <2>2. One(c) /\ UNCHANGED <<version, accepted, task_queue, front_queue, end_queue, threadVars>>
    BY <1>5, <1>10 DEF PushLoad, runVars, clientVars, queueVars
  <2>3. (Handing' <=> Handing) /\ hand' = hand
    BY <1>10, <2>1 DEF PushLoad, Handing, runVars, giverVars
  <2>4. main = "load" /\ main' = "store"
    BY <1>10 DEF PushLoad
  <2> QED
    BY <2>1, <2>2, <2>3, <2>4, QuietKept
<1>11. CASE version = "stack" /\ (Pop \/ PopLoad)
  <2>1. One(c) /\ UNCHANGED <<version, accepted, task_queue, front_queue, end_queue, threadVars, main>>
    BY <1>5, <1>11 DEF Pop, PopLoad, runVars, clientVars, queueVars, mainVars
  <2>2. ~Handing /\ ~Handing'
    BY <1>11, <2>1 DEF Pop, PopLoad, Handing
  <2> QED
    BY <2>1, <2>2, QuietKept
<1>12. CASE PassBy \/ AcceptFails \/ UNCHANGED vars
  <2>1. One(c) /\ UNCHANGED <<version, accepted, task_queue, front_queue, end_queue, threadVars, main,
                              provider, hand>>
    BY <1>5, <1>12 DEF PassBy, AcceptFails, vars, runVars, clientVars, queueVars, mainVars, giverVars
  <2>2. Handing' <=> Handing
    BY <2>1 DEF Handing
  <2> QED
    BY <2>1, <2>2, QuietKept
<1> QED
  BY <1>3, <1>4, <1>6, <1>7, <1>8, <1>9, <1>10, <1>11, <1>12
     DEF Next, AcceptCb, Provider, RingMain

(* As long as no push and pop overlap and no signal comes when its thread  *)
(* is not waiting, each open connection is in exactly one place: main(), a *)
(* slot in use, whoever hands it over, or one thread; so none is dropped   *)
(* and none is served twice, with slots and threads used again and again   *)
(* (assignment-3/src/webserver1.c:693-735; a31:730-780).                   *)
THEOREM KeptByOne == Spec => []Kept
<1>1. Init => Calm /\ Kept
  BY DEF Init, Calm, Kept, Open
<1> QED
  BY <1>1, PoolHolds, StepCalm, StepKept, PTL DEF Spec

=============================================================================

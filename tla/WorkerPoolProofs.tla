-------------------------- MODULE WorkerPoolProofs --------------------------
(***************************************************************************)
(* For every number of threads, descriptors and clients: no connection is  *)
(* dropped, and as long as threads wake only when they are signalled each  *)
(* has exactly one keeper.                                                 *)
(***************************************************************************)
EXTENDS WorkerPool, TLAPS

(* The queue holds a socket only between enqueue_task and dequeue_task. *)
QueueInOrder ==
  IF main = "dequeue"
    THEN /\ end_queue = (front_queue + 1) % MaxQueue
         /\ task_queue[front_queue] \in Fd
    ELSE end_queue = front_queue

(* A thread that waits says so, and one that is signalled has a socket. *)
FlagsInOrder ==
  /\ main = "probe" => hand \in Fd
  /\ \A w \in Worker : /\ pc[w] = "waiting" => wait[w] = 1
                       /\ pc[w] \in {"start", "woken"} => wait[w] = 0
                       /\ pc[w] = "woken" => sockfd[w] \in Fd
                       /\ pc[w] = "serving" => fd[w] \in Fd

(* A descriptor whose client is gone is never closed. *)
LeftOpen == \A f \in left : conn[f] # NoClient

(* Connections in care have one keeper, the other descriptors none. *)
Kept(f) ==
  IF f \in InCare THEN \E k \in Keepers(f) : Keepers(f) = {k} ELSE Keepers(f) = {}

PoolInv == /\ TypeOK /\ wakeups = "signalled" /\ QueueInOrder /\ FlagsInOrder /\ LeftOpen
           /\ \A f \in Fd : Kept(f)

(* What is kept is in care, by this keeper only. *)
LEMMA Sole ==
  ASSUME NEW f \in Fd, Kept(f), NEW k \in KeeperIds, Keeps(k, f)
  PROVE  /\ f \in InCare
         /\ \A x \in KeeperIds : Keeps(x, f) => x = k
BY DEF Kept, Keepers

LEMMA PoolInit == Init => PoolInv
<1> SUFFICES ASSUME Init PROVE PoolInv
  OBVIOUS
<1>1. TypeOK
  BY WorkerPoolAssumption DEF Init, TypeOK, Worker, Slot
<1>2. QueueInOrder /\ FlagsInOrder /\ LeftOpen
  BY DEF Init, QueueInOrder, FlagsInOrder, LeftOpen
<1>3. ASSUME NEW f \in Fd PROVE Kept(f)
  BY DEF Init, Kept, Keepers, Keeps, KeeperIds, Given, Serves, InCare
<1>4. wakeups = "signalled"
  BY DEF Init
<1> QED BY <1>1, <1>2, <1>3, <1>4 DEF PoolInv

(* A descriptor whose keepers and whose state stay the same stays kept. *)
LEMMA KeptKept ==
  ASSUME NEW f \in Fd, Kept(f), f \in InCare <=> f \in InCare',
         \A k \in KeeperIds : Keeps(k, f)' <=> Keeps(k, f)
  PROVE  Kept(f)'
<1>1. Keepers(f)' = Keepers(f)
  BY DEF Keepers, KeeperIds, Worker
<1> QED BY <1>1 DEF Kept

(* The remainders that main() computes stay in range. *)
LEMMA Remainders ==
  /\ \A i \in Slot : (i + 1) % MaxQueue \in Slot /\ (i + 1) % MaxQueue # i
  /\ \A i, j \in Worker : (i + j) % N \in Worker
  /\ \A i \in Worker : (i + 1) % N \in Worker
<1>1. ASSUME NEW i \in Slot PROVE (i + 1) % MaxQueue \in Slot /\ (i + 1) % MaxQueue # i
  <2>1. CASE i + 1 < MaxQueue
    BY <1>1, <2>1, WorkerPoolAssumption DEF Slot
  <2>2. CASE i + 1 = MaxQueue
    BY <1>1, <2>2, WorkerPoolAssumption DEF Slot
  <2> QED BY <2>1, <2>2, WorkerPoolAssumption DEF Slot
<1>2. ASSUME NEW i \in Nat PROVE i % N \in Worker
  BY <1>2, WorkerPoolAssumption DEF Worker
<1>3. \A i, j \in Worker : i + j \in Nat /\ i + 1 \in Nat
  BY WorkerPoolAssumption DEF Worker
<1> QED BY <1>1, <1>2, <1>3

LEMMA MainStep ==
  ASSUME PoolInv, Main
  PROVE  PoolInv'
<1>e. wakeups = "signalled" /\ wakeups' = "signalled"
  BY DEF PoolInv, Main
<1>0. LeftOpen'
  BY WorkerPoolAssumption DEF PoolInv, TypeOK, LeftOpen, Main, Accept, Enqueue, AcceptFails, Dequeue,
     HandOver, PassBy, socketVars
<1>1. TypeOK /\ QueueInOrder /\ FlagsInOrder /\ LeftOpen /\ \A f \in Fd : Kept(f)
  BY DEF PoolInv
<1>2. /\ <<"queue", 0>> \in KeeperIds /\ <<"main", 0>> \in KeeperIds
      /\ \A k \in KeeperIds : k[1] = "thread" => k[2] \in Worker
      /\ \A w \in Worker : <<"thread", w>> \in KeeperIds
  BY DEF KeeperIds
<1>3. CASE \E c \in Client : Accept(c)
  <2> PICK c \in Client : Accept(c)
    BY <1>3
  <2> PICK new \in Fd : /\ conn[new] = NoClient
                        /\ conn' = [conn EXCEPT ![new] = c]
                        /\ task_queue' = [task_queue EXCEPT ![end_queue] = new]
    BY DEF Accept, Enqueue
  <2>1. main = "select" /\ main' = "dequeue" /\ front_queue = end_queue
        /\ front_queue' = front_queue /\ end_queue' = (end_queue + 1) % MaxQueue
        /\ front_queue \in Slot /\ task_queue'[front_queue'] = new
    BY <1>1 DEF Accept, Enqueue, QueueInOrder, TypeOK
  <2>2. TypeOK'
    BY <1>e, <1>1, Remainders DEF Accept, Enqueue, TypeOK, threadVars
  <2>3. QueueInOrder' /\ FlagsInOrder'
    BY <1>1, <2>1 DEF Accept, Enqueue, QueueInOrder, FlagsInOrder, threadVars
  <2>4. \A k \in KeeperIds, f \in Fd :
           Keeps(k, f)' <=> (Keeps(k, f) \/ (k = <<"queue", 0>> /\ f = new))
    BY <2>1 DEF Accept, Enqueue, Keeps, Given, Serves, threadVars
  <2>5. new \notin InCare /\ new \in InCare'
    BY <1>1, <2>2, WorkerPoolAssumption DEF InCare, LeftOpen, Accept, Enqueue, TypeOK
  <2>6. ASSUME NEW f \in Fd PROVE Kept(f)'
    <3>1. CASE f = new
      <4>1. \A x \in KeeperIds : Keeps(x, f)' <=> x = <<"queue", 0>>
        BY <1>1, <2>4, <2>5, <3>1, Sole
      <4> QED BY <1>2, <2>5, <3>1, <4>1 DEF Kept, Keepers
    <3>2. CASE f # new
      <4>1. f \in InCare <=> f \in InCare'
        BY <1>1, <3>2 DEF InCare, Accept, Enqueue, TypeOK
      <4> QED BY <1>1, <2>4, <3>2, <4>1, KeptKept
    <3> QED BY <3>1, <3>2
  <2> QED BY <1>e, <1>0, <2>2, <2>3, <2>6 DEF PoolInv
<1>4. CASE AcceptFails
  <2>1. TypeOK' /\ QueueInOrder' /\ FlagsInOrder'
    BY <1>e, <1>1, <1>4 DEF AcceptFails, TypeOK, QueueInOrder, FlagsInOrder, socketVars, queueVars,
       threadVars
  <2>2. \A k \in KeeperIds, f \in Fd : Keeps(k, f)' <=> Keeps(k, f)
    BY <1>4 DEF AcceptFails, Keeps, Given, Serves, queueVars, threadVars
  <2>3. InCare' = InCare
    BY <1>4 DEF AcceptFails, InCare, socketVars
  <2> QED BY <1>e, <1>0, <1>1, <2>1, <2>2, <2>3, KeptKept DEF PoolInv
<1>5. CASE Dequeue
  <2>1. /\ main = "dequeue" /\ main' = "probe" /\ hand' = task_queue[front_queue] /\ hand' \in Fd
        /\ front_queue' = (front_queue + 1) % MaxQueue /\ end_queue' = end_queue
    BY <1>1, <1>5 DEF Dequeue, QueueInOrder
  <2>2. TypeOK'
    BY <1>e, <1>1, <1>5, <2>1, Remainders, WorkerPoolAssumption DEF Dequeue, TypeOK, Worker, socketVars,
       threadVars
  <2>3. QueueInOrder' /\ FlagsInOrder'
    BY <1>1, <1>5, <2>1 DEF Dequeue, QueueInOrder, FlagsInOrder, threadVars
  <2>4. InCare' = InCare
    BY <1>5 DEF Dequeue, InCare, socketVars
  <2>5. ASSUME NEW f \in Fd PROVE Kept(f)'
    <3>1. CASE f = hand'
      <4>1. Keeps(<<"queue", 0>>, f)
        BY <2>1, <3>1 DEF Keeps
      <4>2. f \in InCare /\ \A x \in KeeperIds : Keeps(x, f) => x = <<"queue", 0>>
        BY <1>1, <1>2, <4>1, Sole
      <4>3. Keeps(<<"main", 0>>, f)'
        BY <2>1, <3>1 DEF Keeps
      <4>4. \A x \in KeeperIds : Keeps(x, f)' => x = <<"main", 0>>
        BY <1>5, <2>1, <4>2 DEF Dequeue, Keeps, Given, Serves, threadVars
      <4> QED BY <1>2, <2>4, <4>2, <4>3, <4>4 DEF Kept, Keepers
    <3>2. CASE f # hand'
      <4>1. \A k \in KeeperIds : Keeps(k, f)' <=> Keeps(k, f)
        BY <1>5, <2>1, <3>2 DEF Dequeue, Keeps, Given, Serves, threadVars
      <4> QED BY <1>1, <2>4, <4>1, KeptKept
    <3> QED BY <3>1, <3>2
  <2> QED BY <1>e, <1>0, <2>2, <2>3, <2>5 DEF PoolInv
<1>6. CASE HandOver
  <2> PICK w \in Worker : w = Probed
    BY <1>1, Remainders DEF Probed, TypeOK
  <2>1. /\ w \in Worker /\ main = "probe" /\ main' = "select" /\ hand \in Fd /\ hand' = hand
        /\ wait[w] = 1 /\ LockFree(w)
    BY <1>1, <1>6 DEF HandOver, FlagsInOrder
  <2>2. pc[w] = "waiting"
    BY <1>1, <2>1 DEF FlagsInOrder, LockFree
  <2>3. /\ pc' = [pc EXCEPT ![w] = "woken"] /\ wait' = [wait EXCEPT ![w] = 0]
        /\ sockfd' = [sockfd EXCEPT ![w] = hand] /\ fd' = fd
    BY <1>6, <2>2 DEF HandOver, Signalled
  <2>4. TypeOK'
    BY <1>e, <1>1, <1>6, <2>1, <2>3 DEF HandOver, TypeOK, socketVars, queueVars
  <2>5. QueueInOrder' /\ FlagsInOrder'
    BY <1>1, <1>6, <2>1, <2>3 DEF HandOver, QueueInOrder, FlagsInOrder, queueVars, TypeOK
  <2>6. InCare' = InCare
    BY <1>6 DEF HandOver, InCare, socketVars
  <2>7. \A v \in Worker, f \in Fd : /\ v # w => (Given(v, f)' <=> Given(v, f))
                                                /\ (Serves(v, f)' <=> Serves(v, f))
                                    /\ v = w => ~Given(v, f) /\ ~Serves(v, f) /\ ~Serves(v, f)'
                                                /\ (Given(v, f)' <=> f = hand)
    BY <1>1, <2>1, <2>2, <2>3 DEF Given, Serves, TypeOK
  <2>8. ASSUME NEW f \in Fd PROVE Kept(f)'
    <3>1. CASE f = hand
      <4>1. Keeps(<<"main", 0>>, f)
        BY <2>1, <3>1 DEF Keeps
      <4>2. f \in InCare /\ \A x \in KeeperIds : Keeps(x, f) => x = <<"main", 0>>
        BY <1>1, <1>2, <4>1, Sole
      <4>3. Keeps(<<"thread", w>>, f)'
        BY <2>1, <2>7, <3>1 DEF Keeps
      <4>4. \A x \in KeeperIds : Keeps(x, f)' => x = <<"thread", w>>
        <5> SUFFICES ASSUME NEW x \in KeeperIds, Keeps(x, f)' PROVE x = <<"thread", w>>
          OBVIOUS
        <5>1. x[1] = "thread" /\ x[2] \in Worker /\ x = <<"thread", x[2]>>
              /\ (Given(x[2], f)' \/ Serves(x[2], f)')
          BY <2>1 DEF Keeps, KeeperIds
        <5>2. x[2] # w => Keeps(x, f)
          BY <2>7, <5>1 DEF Keeps
        <5>3. x # <<"main", 0>>
          BY <5>1
        <5> QED BY <4>2, <5>1, <5>2, <5>3
      <4> QED BY <1>2, <2>1, <2>6, <4>2, <4>3, <4>4 DEF Kept, Keepers
    <3>2. CASE f # hand
      <4>1. \A k \in KeeperIds : Keeps(k, f)' <=> Keeps(k, f)
        BY <1>2, <2>1, <2>7, <3>2 DEF Keeps
      <4> QED BY <1>1, <2>6, <4>1, KeptKept
    <3> QED BY <3>1, <3>2
  <2> QED BY <1>e, <1>0, <2>4, <2>5, <2>8 DEF PoolInv
<1>7. CASE PassBy
  <2>1. TypeOK' /\ QueueInOrder' /\ FlagsInOrder'
    BY <1>e, <1>1, <1>7, Remainders DEF PassBy, TypeOK, QueueInOrder, FlagsInOrder, socketVars,
       queueVars, threadVars
  <2>2. \A k \in KeeperIds, f \in Fd : Keeps(k, f)' <=> Keeps(k, f)
    BY <1>7 DEF PassBy, Keeps, Given, Serves, queueVars, threadVars
  <2>3. InCare' = InCare
    BY <1>7 DEF PassBy, InCare, socketVars
  <2> QED BY <1>e, <1>0, <1>1, <2>1, <2>2, <2>3, KeptKept DEF PoolInv
<1> QED BY <1>3, <1>4, <1>5, <1>6, <1>7 DEF Main

LEMMA ThreadStep ==
  ASSUME PoolInv, NEW w \in Worker, Runs(w) \/ Leaves(w)
  PROVE  PoolInv'
<1>e. wakeups = "signalled" /\ wakeups' = "signalled"
  BY DEF PoolInv, Runs, Leaves
<1>1. TypeOK /\ QueueInOrder /\ FlagsInOrder /\ LeftOpen /\ \A f \in Fd : Kept(f)
  BY DEF PoolInv
<1>2. /\ <<"thread", w>> \in KeeperIds
      /\ \A k \in KeeperIds : k[1] = "thread" => k[2] \in Worker /\ k = <<"thread", k[2]>>
  BY DEF KeeperIds
<1>3. /\ queueVars' = queueVars /\ main' = main /\ hand' = hand /\ sockfd' = sockfd
      /\ shift' = shift /\ probe' = probe /\ accepted' = accepted
  BY DEF Runs, Leaves, Wait, Wake, Answer, HangUp, mainVars, socketVars
<1>4. \A v \in Worker \ {w} : pc'[v] = pc[v] /\ wait'[v] = wait[v] /\ fd'[v] = fd[v]
  BY <1>1 DEF Runs, Leaves, Wait, Wake, Answer, HangUp, GoTo, TypeOK
<1>5. QueueInOrder'
  BY <1>1, <1>3 DEF QueueInOrder, queueVars
<1>6. \A k \in KeeperIds, f \in Fd : k # <<"thread", w>> => (Keeps(k, f)' <=> Keeps(k, f))
  BY <1>2, <1>3, <1>4 DEF Keeps, Given, Serves, queueVars
<1>7. CASE Wait(w)
  <2>1. TypeOK' /\ FlagsInOrder' /\ LeftOpen'
    BY <1>e, <1>1, <1>3, <1>4, <1>7 DEF Wait, GoTo, TypeOK, FlagsInOrder, LeftOpen, socketVars, queueVars
  <2>2. \A f \in Fd : ~Keeps(<<"thread", w>>, f) /\ ~Keeps(<<"thread", w>>, f)'
    BY <1>1, <1>7 DEF Wait, GoTo, Keeps, Given, Serves, TypeOK
  <2>3. InCare' = InCare
    BY <1>7 DEF Wait, InCare, socketVars
  <2> QED BY <1>e, <1>1, <1>5, <1>6, <2>1, <2>2, <2>3, KeptKept DEF PoolInv
<1>8. CASE Wake(w)
  <2>1. pc[w] = "woken" /\ wait[w] = 0 /\ sockfd[w] \in Fd
    BY <1>1, <1>8 DEF Wake, FlagsInOrder
  <2>2. sockfd[w] \in InCare
    BY <1>1, <1>2, <2>1, Sole DEF Keeps, Given
  <2>3. /\ fd' = [fd EXCEPT ![w] = sockfd[w]] /\ pc' = [pc EXCEPT ![w] = "serving"]
        /\ wait' = wait /\ socketVars' = socketVars
    <3>1. sockfd[w] > 0
      BY <2>1, WorkerPoolAssumption DEF Fd
    <3>2. conn[sockfd[w]] # NoClient
      BY <2>2 DEF InCare
    <3>3. pc' = [pc EXCEPT ![w] = "serving"]
      BY <1>8, <3>1, <3>2 DEF Wake, GoTo
    <3> QED BY <1>8, <3>3 DEF Wake
  <2>4. TypeOK' /\ FlagsInOrder' /\ LeftOpen'
    BY <1>e, <1>1, <1>3, <2>1, <2>3 DEF TypeOK, FlagsInOrder, LeftOpen, socketVars, queueVars
  <2>5. \A f \in Fd : Keeps(<<"thread", w>>, f)' <=> Keeps(<<"thread", w>>, f)
    BY <1>1, <2>1, <2>3 DEF Keeps, Given, Serves, TypeOK
  <2>6. InCare' = InCare
    BY <2>3 DEF InCare, socketVars
  <2> QED BY <1>e, <1>1, <1>5, <1>6, <2>4, <2>5, <2>6, KeptKept DEF PoolInv
<1>9. CASE Answer(w) \/ HangUp(w)
  <2> PICK f \in Fd : f = fd[w]
    BY <1>1, <1>9 DEF Answer, HangUp, FlagsInOrder
  <2>1. /\ pc[w] = "serving" /\ pc' = [pc EXCEPT ![w] = "loop"]
        /\ wait' = wait /\ fd' = fd
        /\ \/ conn' = [conn EXCEPT ![f] = NoClient] /\ left' = left /\ f \notin left
              /\ answered' = answered \cup {conn[f]} /\ conn[f] # NoClient
           \/ conn' = conn /\ left' = left \cup {f} /\ answered' = answered
    BY <1>9 DEF Answer, HangUp, GoTo
  <2>2. f \in InCare /\ \A x \in KeeperIds : Keeps(x, f) => x = <<"thread", w>>
    BY <1>1, <1>2, <2>1, Sole DEF Keeps, Serves
  <2>3. f \notin InCare' /\ \A g \in Fd \ {f} : g \in InCare' <=> g \in InCare
    BY <1>1, <2>1 DEF InCare, TypeOK
  <2>4. TypeOK'
    BY <1>e, <1>1, <1>3, <2>1 DEF TypeOK, queueVars
  <2>5. FlagsInOrder' /\ LeftOpen'
    BY <1>1, <1>3, <2>1, <2>2 DEF FlagsInOrder, LeftOpen, InCare, TypeOK
  <2>6. \A g \in Fd : ~Keeps(<<"thread", w>>, g)'
    BY <1>1, <2>1 DEF Keeps, Given, Serves, TypeOK
  <2>7. ASSUME NEW g \in Fd PROVE Kept(g)'
    <3>1. CASE g = f
      BY <1>6, <2>2, <2>3, <2>6, <3>1 DEF Kept, Keepers
    <3>2. CASE g # f
      <4>1. ~Keeps(<<"thread", w>>, g)
        BY <2>1, <3>2 DEF Keeps, Given, Serves
      <4> QED BY <1>1, <1>6, <2>3, <2>6, <3>2, <4>1, KeptKept
    <3> QED BY <3>1, <3>2
  <2> QED BY <1>e, <1>5, <2>4, <2>5, <2>7 DEF PoolInv
<1> QED BY <1>7, <1>8, <1>9 DEF Runs, Leaves

LEMMA PoolStep == PoolInv /\ [Next]_vars => PoolInv' \/ wakeups' = "early"
<1> SUFFICES ASSUME PoolInv, [Next]_vars PROVE PoolInv' \/ wakeups' = "early"
  OBVIOUS
<1>1. CASE UNCHANGED vars
  <2>1. \A f \in Fd : (Kept(f)' <=> Kept(f))
    BY <1>1 DEF Kept, InCare, Keepers, Keeps, KeeperIds, Given, Serves, vars, socketVars,
       queueVars, mainVars, threadVars
  <2> QED BY <1>1, <2>1 DEF PoolInv, TypeOK, QueueInOrder, FlagsInOrder, LeftOpen, vars, socketVars,
       queueVars, mainVars, threadVars
<1>2. CASE \E w \in Worker : WakeEarly(w)
  BY <1>2 DEF WakeEarly
<1> QED BY <1>1, <1>2, MainStep, ThreadStep DEF Next, Thread

(* Once a thread has woken up early, it stays so. *)
LEMMA EarlyStep == wakeups = "early" /\ [Next]_vars => wakeups' = "early"
BY DEF Next, Main, Thread, Runs, Leaves, WakeEarly, vars

(* Until pthread_cond_wait returns without a signal, every connection in   *)
(* care has one keeper: main() never overwrites the socket it gave a       *)
(* thread, and no two threads serve one socket (webserver1.c:732-822).     *)
THEOREM KeptByOne == Spec => []OneKeeper
<1> DEFINE IInv == PoolInv \/ wakeups = "early"
<1>1. IInv => OneKeeper
  BY DEF PoolInv, Kept, OneKeeper, InCare
<1>2. IInv /\ [Next]_vars => IInv'
  BY PoolStep, EarlyStep
<1>3. Init => IInv
  BY PoolInit
<1> QED BY <1>1, <1>2, <1>3, PTL DEF Spec

-----------------------------------------------------------------------------
(* What holds of the queue and the threads even when threads wake up       *)
(* without a signal.                                                       *)
ThreadsInOrder ==
  /\ main = "probe" => hand \in Fd
  /\ \A w \in Worker : /\ pc[w] = "start" => wait[w] = 0
                       /\ pc[w] = "waiting" => wait[w] = 1
                       /\ pc[w] = "serving" => fd[w] \in Fd

HandlingInv == TypeOK /\ QueueInOrder /\ ThreadsInOrder

(* The keepers of a connection, told apart. *)
HasKeeper(f) ==
  \/ main = "dequeue" /\ task_queue[front_queue] = f
  \/ main = "probe" /\ hand = f
  \/ \E w \in Worker : Given(w, f) \/ Serves(w, f)

KeeperKnown == \A f \in Fd : Keepers(f) # {} <=> HasKeeper(f)

LEMMA KeeperCases == KeeperKnown
<1> SUFFICES ASSUME NEW f \in Fd PROVE Keepers(f) # {} <=> HasKeeper(f)
  BY DEF KeeperKnown
<1>1. /\ <<"queue", 0>> \in KeeperIds /\ <<"main", 0>> \in KeeperIds
      /\ \A w \in Worker : <<"thread", w>> \in KeeperIds
      /\ \A k \in KeeperIds : k[1] = "thread" => k[2] \in Worker
  BY DEF KeeperIds
<1>2. ASSUME HasKeeper(f) PROVE \E k \in KeeperIds : Keeps(k, f)
  <2>1. ASSUME NEW w \in Worker, Given(w, f) \/ Serves(w, f) PROVE Keeps(<<"thread", w>>, f)
    BY <2>1 DEF Keeps
  <2>2. (main = "dequeue" /\ task_queue[front_queue] = f) => Keeps(<<"queue", 0>>, f)
    BY DEF Keeps
  <2>3. (main = "probe" /\ hand = f) => Keeps(<<"main", 0>>, f)
    BY DEF Keeps
  <2> QED BY <1>1, <1>2, <2>1, <2>2, <2>3 DEF HasKeeper
<1>3. ASSUME NEW k \in KeeperIds, Keeps(k, f) PROVE HasKeeper(f)
  BY <1>1, <1>3 DEF Keeps, HasKeeper
<1> QED BY <1>2, <1>3 DEF Keepers

LEMMA KeeperCasesNext == KeeperKnown'
BY KeeperCases, PTL

LEMMA HandlingStep == HandlingInv /\ [Next]_vars => HandlingInv'
<1> SUFFICES ASSUME HandlingInv, [Next]_vars PROVE HandlingInv'
  OBVIOUS
<1>1. TypeOK /\ QueueInOrder /\ ThreadsInOrder
  BY DEF HandlingInv
<1>2. ASSUME NEW c \in Client, Accept(c), UNCHANGED wakeups PROVE HandlingInv'
  <2>1. main = "select" /\ main' = "dequeue" /\ front_queue = end_queue
        /\ front_queue' = front_queue /\ end_queue' = (end_queue + 1) % MaxQueue
        /\ front_queue \in Slot
    BY <1>1, <1>2 DEF Accept, Enqueue, QueueInOrder, TypeOK
  <2>2. TypeOK'
    BY <1>1, <1>2, Remainders DEF Accept, Enqueue, TypeOK, threadVars
  <2>3. QueueInOrder' /\ ThreadsInOrder'
    BY <1>1, <1>2, <2>1 DEF Accept, Enqueue, QueueInOrder, ThreadsInOrder, TypeOK, threadVars
  <2> QED BY <2>2, <2>3 DEF HandlingInv
<1>3. ASSUME AcceptFails, UNCHANGED wakeups PROVE HandlingInv'
  BY <1>1, <1>3 DEF HandlingInv, AcceptFails, TypeOK, QueueInOrder, ThreadsInOrder, socketVars,
     queueVars, threadVars
<1>4. ASSUME Dequeue, UNCHANGED wakeups PROVE HandlingInv'
  <2>1. 0 \in Worker /\ (front_queue + 1) % MaxQueue \in Slot
    BY <1>1, Remainders, WorkerPoolAssumption DEF TypeOK, Worker
  <2>2. TypeOK'
    BY <1>1, <1>4, <2>1 DEF Dequeue, TypeOK, QueueInOrder, socketVars, threadVars
  <2>3. QueueInOrder' /\ ThreadsInOrder'
    BY <1>1, <1>4 DEF Dequeue, QueueInOrder, ThreadsInOrder, threadVars
  <2> QED BY <2>2, <2>3 DEF HandlingInv
<1>5. ASSUME HandOver, UNCHANGED wakeups PROVE HandlingInv'
  <2> PICK w \in Worker : w = Probed
    BY <1>1, Remainders DEF Probed, TypeOK
  <2>1. /\ hand \in Fd /\ main' = "select" /\ main = "probe"
        /\ wait' = [wait EXCEPT ![w] = 0] /\ sockfd' = [sockfd EXCEPT ![w] = hand] /\ fd' = fd
        /\ pc' \in {pc, [pc EXCEPT ![w] = "woken"]}
        /\ pc'[w] # "waiting"
    BY <1>1, <1>5 DEF HandOver, Signalled, ThreadsInOrder, TypeOK
  <2>2. TypeOK'
    BY <1>1, <1>5, <2>1 DEF HandOver, TypeOK, socketVars, queueVars
  <2>3. QueueInOrder' /\ ThreadsInOrder'
    BY <1>1, <1>5, <2>1 DEF HandOver, QueueInOrder, ThreadsInOrder, TypeOK, queueVars
  <2> QED BY <2>2, <2>3 DEF HandlingInv
<1>6. ASSUME PassBy, UNCHANGED wakeups PROVE HandlingInv'
  BY <1>1, <1>6, Remainders DEF HandlingInv, PassBy, TypeOK, QueueInOrder, ThreadsInOrder,
     socketVars, queueVars, threadVars
<1>7. ASSUME NEW w \in Worker, Wait(w) \/ WakeEarly(w) \/ Wake(w), UNCHANGED wakeups \/ WakeEarly(w)
      PROVE HandlingInv'
  <2>1. /\ UNCHANGED <<socketVars, queueVars, mainVars, sockfd>>
        /\ fd' \in {fd, [fd EXCEPT ![w] = sockfd[w]]}
        /\ wait' \in {wait, [wait EXCEPT ![w] = 1]}
        /\ \E label \in {"waiting", "woken", "serving", "loop"} :
              /\ pc' = [pc EXCEPT ![w] = label]
              /\ label = "waiting" => wait' = [wait EXCEPT ![w] = 1]
              /\ label = "serving" => fd' = [fd EXCEPT ![w] = sockfd[w]] /\ sockfd[w] > 0
              /\ label # "serving" => pc[w] # "serving"
    BY <1>7 DEF Wait, WakeEarly, Wake, GoTo
  <2>2. sockfd[w] > 0 => sockfd[w] \in Fd
    BY <1>1 DEF TypeOK
  <2>3. wakeups' \in {"signalled", "early"}
    BY <1>1, <1>7 DEF WakeEarly, TypeOK
  <2>4. TypeOK'
    BY <1>1, <2>1, <2>3 DEF TypeOK, socketVars, queueVars, mainVars
  <2>5. QueueInOrder' /\ ThreadsInOrder'
    BY <1>1, <2>1, <2>2 DEF TypeOK, QueueInOrder, ThreadsInOrder, queueVars, mainVars
  <2> QED BY <2>4, <2>5 DEF HandlingInv
<1>8. ASSUME NEW w \in Worker, Answer(w) \/ HangUp(w), UNCHANGED wakeups PROVE HandlingInv'
  <2>1. /\ UNCHANGED <<accepted, queueVars, mainVars, wait, sockfd, fd>>
        /\ pc' = [pc EXCEPT ![w] = "loop"]
        /\ conn' \in {conn, [conn EXCEPT ![fd[w]] = NoClient]}
        /\ left' \in {left, left \cup {fd[w]}}
        /\ answered' = answered \/ (conn[fd[w]] # NoClient /\ answered' = answered \cup {conn[fd[w]]})
        /\ fd[w] \in Fd
    BY <1>1, <1>8 DEF Answer, HangUp, GoTo, ThreadsInOrder
  <2>2. TypeOK'
    BY <1>1, <1>8, <2>1 DEF TypeOK, queueVars, mainVars
  <2>3. QueueInOrder' /\ ThreadsInOrder'
    BY <1>1, <2>1 DEF TypeOK, QueueInOrder, ThreadsInOrder, queueVars, mainVars
  <2> QED BY <2>2, <2>3 DEF HandlingInv
<1>9. CASE UNCHANGED vars
  BY <1>1, <1>9 DEF HandlingInv, TypeOK, QueueInOrder, ThreadsInOrder, vars, socketVars, queueVars,
     mainVars, threadVars
<1> QED BY <1>2, <1>3, <1>4, <1>5, <1>6, <1>7, <1>8, <1>9
        DEF Next, Main, Thread, Runs, Leaves

LEMMA CareStep == HandlingInv /\ NotDropped /\ [Next]_vars => NotDropped'
<1> SUFFICES ASSUME HandlingInv, NotDropped, [Next]_vars, NEW f \in Fd, f \in InCare'
             PROVE  HasKeeper(f)'
  BY KeeperCasesNext DEF KeeperKnown, NotDropped, InCare
<1>1. TypeOK /\ QueueInOrder /\ ThreadsInOrder
  BY DEF HandlingInv
<1>2. f \in InCare => HasKeeper(f)
  BY KeeperCases DEF KeeperKnown, NotDropped
<1>3. ASSUME NEW c \in Client, Accept(c) PROVE HasKeeper(f)'
  <2> PICK new \in Fd : /\ conn' = [conn EXCEPT ![new] = c]
                        /\ task_queue' = [task_queue EXCEPT ![end_queue] = new]
    BY <1>3 DEF Accept, Enqueue
  <2>1. /\ main = "select" /\ main' = "dequeue" /\ task_queue'[front_queue'] = new
        /\ UNCHANGED <<left, threadVars>>
    BY <1>1, <1>3 DEF Accept, Enqueue, QueueInOrder, TypeOK
  <2>2. f # new => f \in InCare
    BY <1>1, <2>1 DEF InCare, TypeOK
  <2> QED BY <1>2, <2>1, <2>2 DEF HasKeeper, Given, Serves, threadVars
<1>4. ASSUME AcceptFails \/ PassBy PROVE HasKeeper(f)'
  <2>1. f \in InCare /\ UNCHANGED <<queueVars, hand, threadVars>>
        /\ (main = "dequeue" => main' = main) /\ (main = "probe" => main' = main)
    BY <1>4 DEF AcceptFails, PassBy, InCare, socketVars
  <2> QED BY <1>2, <2>1 DEF HasKeeper, Given, Serves, threadVars, queueVars
<1>5. ASSUME Dequeue PROVE HasKeeper(f)'
  <2>1. f \in InCare
    BY <1>5 DEF Dequeue, InCare, socketVars
  <2> QED BY <1>2, <1>5, <2>1 DEF Dequeue, HasKeeper, Given, Serves, threadVars
<1>6. ASSUME HandOver PROVE HasKeeper(f)'
  <2> PICK w \in Worker : w = Probed
    BY <1>1, Remainders DEF Probed, TypeOK
  <2>1. f \in InCare
    BY <1>6 DEF HandOver, InCare, socketVars
  <2>2. /\ main = "probe" /\ pc[w] \in {"waiting", "woken"} /\ wait[w] = 1
        /\ pc' = [pc EXCEPT ![w] = "woken"] /\ wait' = [wait EXCEPT ![w] = 0]
        /\ sockfd' = [sockfd EXCEPT ![w] = hand] /\ fd' = fd
    <3>1. pc[w] # "start"
      BY <1>1, <1>6 DEF HandOver, ThreadsInOrder
    <3>2. pc[w] = "woken" => pc = [pc EXCEPT ![w] = "woken"]
      BY <1>1 DEF TypeOK
    <3> QED BY <1>6, <3>1, <3>2 DEF HandOver, LockFree, Signalled
  <2>3. Given(w, hand)'
    BY <1>1, <1>6, <2>2 DEF HandOver, Given, TypeOK
  <2>4. \A v \in Worker : Given(v, f) \/ Serves(v, f) => Given(v, f)' \/ Serves(v, f)'
    BY <1>1, <2>2 DEF Given, Serves, TypeOK
  <2>5. hand' = hand
    BY <1>6 DEF HandOver
  <2> QED BY <1>2, <2>1, <2>2, <2>3, <2>4, <2>5 DEF HasKeeper
<1>7. ASSUME NEW w \in Worker, Wait(w) \/ WakeEarly(w) \/ Wake(w) PROVE HasKeeper(f)'
  <2>1. /\ f \in InCare
        /\ UNCHANGED <<task_queue, front_queue, main, hand, sockfd, conn>>
        /\ \A v \in Worker \ {w} : pc'[v] = pc[v] /\ wait'[v] = wait[v] /\ fd'[v] = fd[v]
    BY <1>1, <1>7 DEF Wait, WakeEarly, Wake, GoTo, InCare, TypeOK, socketVars, queueVars, mainVars
  <2>2. Given(w, f) => Serves(w, f)'
    <3> SUFFICES ASSUME Given(w, f) PROVE Serves(w, f)'
      OBVIOUS
    <3>1. Wake(w) /\ sockfd[w] = f /\ conn[f] # NoClient /\ f > 0
      BY <1>7, <2>1 DEF Given, Wait, WakeEarly, InCare, Fd
    <3> QED BY <1>1, <3>1 DEF Wake, GoTo, Serves, TypeOK
  <2>3. ~Serves(w, f)
    BY <1>7 DEF Serves, Wait, WakeEarly, Wake
  <2>4. \A v \in Worker \ {w} : /\ Given(v, f) => Given(v, f)'
                                /\ Serves(v, f) => Serves(v, f)'
    BY <2>1 DEF Given, Serves
  <2> QED BY <1>2, <2>1, <2>2, <2>3, <2>4 DEF HasKeeper
<1>8. ASSUME NEW w \in Worker, Answer(w) \/ HangUp(w) PROVE HasKeeper(f)'
  <2>1. /\ fd[w] \in Fd /\ pc[w] = "serving"
        /\ UNCHANGED <<task_queue, front_queue, main, hand, sockfd, wait, fd>>
        /\ pc' = [pc EXCEPT ![w] = "loop"]
        /\ \/ conn' = [conn EXCEPT ![fd[w]] = NoClient] /\ left' = left
           \/ conn' = conn /\ left' = left \cup {fd[w]}
    BY <1>1, <1>8 DEF Answer, HangUp, GoTo, ThreadsInOrder, queueVars, mainVars
  <2>2. f \in InCare /\ f # fd[w]
    BY <1>1, <2>1 DEF InCare, TypeOK
  <2>3. \A v \in Worker : Given(v, f) \/ Serves(v, f) => Given(v, f)' \/ Serves(v, f)'
    BY <1>1, <2>1, <2>2 DEF Given, Serves, TypeOK
  <2> QED BY <1>2, <2>1, <2>2, <2>3 DEF HasKeeper
<1>9. CASE UNCHANGED vars
  BY <1>2, <1>9 DEF HasKeeper, InCare, Given, Serves, vars, socketVars, queueVars, mainVars,
     threadVars
<1> QED BY <1>3, <1>4, <1>5, <1>6, <1>7, <1>8, <1>9 DEF Next, Main, Thread, Runs, Leaves

LEMMA HandlingInit == Init => HandlingInv
BY PoolInit DEF Init, PoolInv, HandlingInv, ThreadsInOrder

(* The variables keep their types, and every descriptor a thread works on  *)
(* is one accept() gave out, also when threads wake up without a signal.   *)
THEOREM PoolTypes == Spec => []TypeOK
<1>1. HandlingInv => TypeOK
  BY DEF HandlingInv
<1> QED BY <1>1, HandlingInit, HandlingStep, PTL DEF Spec

(* No connection is ever dropped: whenever threads wake, signalled or not, *)
(* the socket main() put into sockfd is taken over by that thread before   *)
(* main() can put the next one there (webserver1.c:748-751,795-808).       *)
THEOREM NothingDropped == Spec => []NotDropped
<1>1. Init => NotDropped
  BY DEF Init, NotDropped, InCare
<1> QED BY <1>1, HandlingInit, HandlingStep, CareStep, PTL DEF Spec
=============================================================================

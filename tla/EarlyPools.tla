----------------------------- MODULE EarlyPools -----------------------------
(***************************************************************************)
(* How the two earlier versions of the assignment 3 server hand accepted   *)
(* connections to their task threads; see WorkerPool for the last one.     *)
(*   stack  (assignment-3) accept_cb, called by main()'s event loop, pushes *)
(*          a socket on task_queue; a provider thread pops the latest and  *)
(*          spins until some thread has working = -1.  Both change         *)
(*          end_queue without a lock, and the provider takes no mutex.     *)
(*   ring   (a31) main() queues a socket and hands one over, spinning      *)
(*          until it gets the mutex of a thread, which serves with its     *)
(*          mutex held.                                                    *)
(* Neither asks whether the thread is in pthread_cond_wait: a signal that  *)
(* comes before or after is lost.  A connection stands for its descriptor; *)
(* what a thread does with a request is one step.                          *)
(***************************************************************************)
EXTENDS Integers, FiniteSets

CONSTANTS
  Versions,   \* of "stack", "ring", the ones to look at
  Clients,    \* how many connect, per version; client c is the c-th to be accepted
  Silent,     \* those that never get as far as a response
  Leaving,    \* those that may close their end
  N,          \* number of task threads, 10
  MaxQueue,   \* MAX_queue, 10000
  MaxFd       \* connections the process can hold open

ASSUME EarlyPoolsAssumption ==
  /\ Versions \subseteq {"stack", "ring"}
  /\ Clients \in [Versions -> Nat] /\ MaxFd \in Nat
  /\ Silent \cup Leaving \subseteq Nat
  /\ N \in Nat \ {0} /\ MaxQueue \in Nat \ {0, 1}

Worker == 0 .. N - 1
Slot == 0 .. MaxQueue - 1

VARIABLES
  version, up,
  accepted, handed,    \* how many were accepted, how many given to a thread
  served, left,        \* the clients answered; those that closed first
  task_queue, front_queue, end_queue,
  main, tmp,           \* where main() stands; what it loaded of end_queue
  provider, loaded,    \* the same of the provider thread of "stack"
  hand, probe,         \* fd being handed over; threads its loop has passed by
  pc, working, sockfd, \* per thread
  raced,               \* push and pop overlapped
  early                \* a thread was given a socket while it was not waiting

runVars    == <<version, up>>
clientVars == <<accepted, handed, served, left>>
queueVars  == <<task_queue, front_queue, end_queue>>
mainVars   == <<main, tmp>>
giverVars  == <<provider, loaded, hand, probe>>
threadVars == <<pc, working, sockfd>>
vars == <<runVars, clientVars, queueVars, mainVars, giverVars, threadVars, raced, early>>

Init ==
  /\ version \in Versions /\ up = TRUE
  /\ accepted = 0 /\ handed = 0 /\ served = {} /\ left = {}
  /\ task_queue = [i \in Slot |-> 0] /\ front_queue = 0 /\ end_queue = 0
  /\ main = "select" /\ tmp = 0
  /\ provider = "pop" /\ loaded = 0 /\ hand = 0 /\ probe = 0
  /\ pc = [w \in Worker |-> "loop"]
  /\ working = [w \in Worker |-> -1] /\ sockfd = [w \in Worker |-> -1]
  /\ raced = FALSE /\ early = FALSE

(* write_cb and event_cb both free the bufferevent, which closes. *)
Open == (1 .. accepted) \ (served \cup left)

MayAccept == up /\ main = "select" /\ accepted < Clients[version] /\ Cardinality(Open) < MaxFd

-----------------------------------------------------------------------------
(* stack: accept_cb. *)

(* It spins while the stack is full, then writes above the top. *)
Push ==
  /\ version = "stack" /\ MayAccept /\ end_queue # MaxQueue
  /\ accepted' = accepted + 1
  /\ task_queue' = [task_queue EXCEPT ![end_queue] = accepted']
  /\ main' = "load"
  /\ raced' = (raced \/ provider \in {"load", "store"})
  /\ UNCHANGED <<runVars, handed, served, left, front_queue, end_queue, tmp, giverVars,
                 threadVars, early>>

(* end_queue++, a load and a store. *)
PushLoad ==
  /\ up /\ main = "load"
  /\ tmp' = end_queue /\ main' = "store"
  /\ UNCHANGED <<runVars, clientVars, queueVars, giverVars, threadVars, raced, early>>

PushStore ==
  /\ up /\ main = "store"
  /\ end_queue' = tmp + 1 /\ main' = "select"
  /\ UNCHANGED <<runVars, clientVars, task_queue, front_queue, tmp, giverVars, threadVars,
                 raced, early>>

AcceptCb == Push \/ PushLoad \/ PushStore

-----------------------------------------------------------------------------
(* stack: provider_thread_task. *)

Pop ==
  /\ version = "stack" /\ up /\ provider = "pop" /\ end_queue # 0
  /\ hand' = task_queue[end_queue - 1]
  /\ provider' = "load"
  /\ raced' = (raced \/ main # "select")
  /\ UNCHANGED <<runVars, clientVars, queueVars, mainVars, loaded, probe, threadVars, early>>

(* end_queue--. *)
PopLoad ==
  /\ up /\ provider = "load"
  /\ loaded' = end_queue /\ provider' = "store"
  /\ UNCHANGED <<runVars, clientVars, queueVars, mainVars, hand, probe, threadVars, raced, early>>

(* Mutant: end_queue is not counted down. *)
TopAgain == loaded

Top == loaded - 1

PopStore ==
  /\ up /\ provider = "store"
  /\ end_queue' = Top /\ provider' = "hand" /\ probe' = 0
  /\ UNCHANGED <<runVars, clientVars, task_queue, front_queue, mainVars, loaded, hand,
                 threadVars, raced, early>>

-----------------------------------------------------------------------------
(* ring: main(), enqueue_task, dequeue_task. *)

(* The remainder of C has the sign of what is divided. *)
Rem(n) == IF n >= 0 THEN n % MaxQueue ELSE -((-n) % MaxQueue)

(* Mutant: no room is made. *)
FullNever == FALSE

Full == Rem(front_queue - end_queue) = 1

(* accept(); a full queue gives up its front first. *)
Accept ==
  /\ version = "ring" /\ MayAccept
  /\ accepted' = accepted + 1
  /\ main' = IF Full THEN "makeRoom" ELSE "enqueue"
  /\ UNCHANGED <<runVars, handed, served, left, queueVars, tmp, giverVars, threadVars, raced,
                 early>>

(* accept() fails without a descriptor, or the first time with whatever    *)
(* clientlen held; main() returns, and the threads end with it.            *)
AcceptFails ==
  /\ version = "ring" /\ up /\ main = "select" /\ accepted < Clients[version]
  /\ accepted = 0 \/ Cardinality(Open) = MaxFd
  /\ up' = FALSE
  /\ UNCHANGED <<version, clientVars, queueVars, mainVars, giverVars, threadVars, raced, early>>

(* The socket is queued; dequeue_task is called if the length of the queue *)
(* is positive, which it is not when end_queue has wrapped.                *)
Enqueue ==
  /\ up /\ main = "enqueue"
  /\ task_queue' = [task_queue EXCEPT ![end_queue] = accepted]
  /\ end_queue' = (end_queue + 1) % MaxQueue
  /\ main' = IF Rem(end_queue' - front_queue) > 0 THEN "dequeue" ELSE "select"
  /\ UNCHANGED <<runVars, clientVars, front_queue, tmp, giverVars, threadVars, raced, early>>

Dequeue ==
  /\ up /\ main \in {"makeRoom", "dequeue"}
  /\ hand' = task_queue[front_queue]
  /\ front_queue' = (front_queue + 1) % MaxQueue
  /\ probe' = 0
  /\ main' = IF main = "makeRoom" THEN "handFirst" ELSE "hand"
  /\ UNCHANGED <<runVars, clientVars, task_queue, end_queue, tmp, provider, loaded, threadVars,
                 raced, early>>

-----------------------------------------------------------------------------
(* Both: the loop over the threads, by main() from shift on or by the      *)
(* provider from 0 on.                                                     *)

Handing == IF version = "ring" THEN main \in {"handFirst", "hand"} ELSE provider = "hand"

Probed == (probe + (IF version = "ring" THEN accepted ELSE 0)) % N

(* trylock succeeds unless the thread serves; the provider looks at        *)
(* working, which write_cb sets back.                                      *)
Free(w) == IF version = "ring" THEN pc[w] # "serving" ELSE working[w] = -1

HandOver ==
  /\ up /\ Handing /\ Free(Probed)
  /\ sockfd' = [sockfd EXCEPT ![Probed] = hand]
  /\ working' = [working EXCEPT ![Probed] = 0]
  /\ pc' = IF pc[Probed] = "waiting" THEN [pc EXCEPT ![Probed] = "woken"] ELSE pc
  /\ early' = (early \/ pc[Probed] # "waiting")
  /\ handed' = handed + 1
  /\ IF version = "ring"
     THEN main' = (IF main = "handFirst" THEN "enqueue" ELSE "select") /\ UNCHANGED provider
     ELSE provider' = "pop" /\ UNCHANGED main
  /\ UNCHANGED <<runVars, accepted, served, left, queueVars, tmp, loaded, hand, probe, raced>>

(* Mutant: the loop over the threads runs past the last one. *)
PassByOn ==
  /\ up /\ Handing /\ ~Free(Probed)
  /\ probe' = probe + 1
  /\ UNCHANGED <<runVars, clientVars, queueVars, mainVars, provider, loaded, hand, threadVars,
                 raced, early>>

PassBy ==
  /\ up /\ Handing /\ ~Free(Probed)
  /\ probe' = (probe + 1) % N
  /\ UNCHANGED <<runVars, clientVars, queueVars, mainVars, provider, loaded, hand, threadVars,
                 raced, early>>

Provider == version = "stack" /\ (Pop \/ PopLoad \/ PopStore \/ HandOver \/ PassBy)
RingMain == version = "ring" /\ (Accept \/ Enqueue \/ Dequeue \/ HandOver \/ PassBy)

-----------------------------------------------------------------------------
(* thread_task of thread w. *)

Goto(w, label) == pc' = [pc EXCEPT ![w] = label]

Wait(w) ==
  /\ pc[w] = "loop"
  /\ Goto(w, "waiting")
  /\ UNCHANGED <<runVars, clientVars, queueVars, mainVars, giverVars, working, sockfd, raced,
                 early>>

Wake(w) ==
  /\ pc[w] = "woken"
  /\ Goto(w, "serving")
  /\ UNCHANGED <<runVars, clientVars, queueVars, mainVars, giverVars, working, sockfd, raced,
                 early>>

(* Mutant: write_cb does not set working back. *)
DoneKept(w) == working

(* write_cb says that the thread is free, before the thread is back at     *)
(* pthread_cond_wait.                                                      *)
Done(w) == [working EXCEPT ![w] = -1]

(* The response is written, and the event loop ends for want of events. *)
Answer(w) ==
  /\ pc[w] = "serving" /\ sockfd[w] \in Open \ Silent
  /\ served' = served \cup {sockfd[w]}
  /\ working' = Done(w)
  /\ Goto(w, "loop")
  /\ UNCHANGED <<runVars, accepted, handed, left, queueVars, mainVars, giverVars, sockfd, raced,
                 early>>

(* The client closes its end, or another thread closed the connection:     *)
(* event_cb frees the bufferevent and calls event_base_loopexit on p_info, *)
(* which is no event base.  The program may survive that; the loop ends    *)
(* then, and working stays.                                                *)
HangUp(w) ==
  /\ pc[w] = "serving" /\ sockfd[w] \in Leaving \cup served \cup left
  /\ left' = left \cup ({sockfd[w]} \ served)
  /\ \/ Goto(w, "loop") /\ UNCHANGED up
     \/ up' = FALSE /\ UNCHANGED pc
  /\ UNCHANGED <<version, accepted, handed, served, queueVars, mainVars, giverVars, working,
                 sockfd, raced, early>>

Runs(w) == up /\ (Wait(w) \/ Wake(w) \/ Answer(w))

-----------------------------------------------------------------------------
Next ==
  \/ AcceptCb \/ Provider \/ RingMain \/ AcceptFails
  \/ \E w \in Worker : Runs(w) \/ (up /\ HangUp(w))

Spec == Init /\ [][Next]_vars

(* main(), the provider and every thread run on. *)
Fairness ==
  /\ WF_vars(AcceptCb) /\ WF_vars(Provider) /\ WF_vars(RingMain)
  /\ \A w \in Worker : WF_vars(Runs(w))

FairSpec == Spec /\ Fairness

-----------------------------------------------------------------------------
TypeOK ==
  /\ version \in Versions /\ {up, raced, early} \subseteq BOOLEAN
  /\ accepted \in 0 .. Clients[version] /\ handed \in Nat
  /\ served \cup left \subseteq 1 .. accepted
  /\ task_queue \in [Slot -> 0 .. accepted]
  /\ front_queue \in Slot /\ end_queue \in 0 .. MaxQueue
  /\ main \in {"select", "load", "store", "makeRoom", "handFirst", "enqueue", "dequeue", "hand"}
  /\ provider \in {"pop", "load", "store", "hand"}
  /\ {tmp, loaded} \subseteq 0 .. MaxQueue
  /\ hand \in 0 .. accepted /\ probe \in Worker
  /\ pc \in [Worker -> {"loop", "waiting", "woken", "serving"}]
  /\ working \in [Worker -> {-1, 0}] /\ sockfd \in [Worker -> {-1} \cup (1 .. accepted)]

InUse(i) ==
  IF version = "stack" THEN i < end_queue
  ELSE (i - front_queue) % MaxQueue < (end_queue - front_queue) % MaxQueue

(* What is responsible for connection c: a slot of the queue, main() that  *)
(* accepted it, whoever hands it over, a thread that will serve it or does. *)
Keepers(c) ==
  {k \in {<<"main", 0>>, <<"giver", 0>>} \cup ({"slot"} \X Slot) \cup ({"thread"} \X Worker) :
     \/ k[1] = "slot" /\ InUse(k[2]) /\ task_queue[k[2]] = c
     \/ k[1] = "main" /\ main \notin {"select", "dequeue", "hand"} /\ accepted = c
     \/ k[1] = "giver" /\ Handing /\ hand = c
     \/ k[1] = "thread" /\ pc[k[2]] \in {"woken", "serving"} /\ sockfd[k[2]] = c}

(* As long as no push and pop overlap and no signal comes when its thread  *)
(* is not waiting, an open connection is neither dropped nor given to two  *)
(* threads, through every wrap of the ring and with slots used again       *)
(* (assignment-3/src/webserver1.c:693-735; a31:730-780).                   *)
Kept ==
  ~raced /\ ~early => \A c \in Open : \E k \in Keepers(c) : Keepers(c) = {k}

(* The ring hands connections over in the order they came, skips none and  *)
(* keeps none back before it first wraps; from then on the length of the   *)
(* queue comes out negative, and up to MaxQueue - 1 of them stay behind    *)
(* until others come (a31:733-736,763,770-779).                            *)
InTurn ==
  version = "ring" =>
    /\ Handing => hand = handed + 1
    /\ main = "select" =>
         accepted - handed <= IF accepted < MaxQueue THEN 0 ELSE MaxQueue - 1

(* With a thread left for it a client is answered, as long as no race, no  *)
(* lost signal and no wrapped ring leaves it lying; in the stack version a *)
(* client that closes first takes its thread along, working is not set     *)
(* back (assignment-3:64-79,99-106,706-719; a31:700-727,744-762).          *)
Answered ==
  \A v \in Versions : \A c \in (1 .. Clients[v]) \ (Silent \cup Leaving) :
    version = v /\ c <= accepted ~>
      \/ c \in served \/ raced \/ early \/ ~up
      \/ version = "stack" /\ left # {}
      \/ version = "ring" /\ main = "select" /\ accepted >= MaxQueue /\ c > handed
=============================================================================

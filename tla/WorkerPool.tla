----------------------------- MODULE WorkerPool -----------------------------
(***************************************************************************)
(* How the last version of the assignment 3 server (a32, webserver1.c)     *)
(* hands the connections it accepts to its task threads.                   *)
(*                                                                         *)
(* main() puts an accepted socket into task_queue, takes the front of the  *)
(* queue and spins over the threads until it finds one that waits for its  *)
(* signal.  A task thread holds its own mutex all the time, except inside  *)
(* pthread_cond_wait; wait says that it has not been given a socket since  *)
(* it went there.  The mutex handed to enqueue_task and dequeue_task is a  *)
(* copy (it is passed by value) and guards nothing; only main() calls      *)
(* them.  What a thread does with a request is one step here, see          *)
(* RedisPool.                                                              *)
(***************************************************************************)
EXTENDS Integers

CONSTANTS
  Client,     \* the clients that connect, once each
  Silent,     \* those of them that never send a whole request
  Leaving,    \* those that may close their end before they are answered
  NoClient,   \* a descriptor that is not open
  N,          \* number of task threads, 10
  MaxQueue,   \* MAX_queue, 10000
  MaxFd       \* bound on the number of open connections

ASSUME WorkerPoolAssumption ==
  /\ Silent \subseteq Client /\ Leaving \subseteq Client
  /\ NoClient \notin Client
  /\ N \in Nat \ {0}
  /\ MaxQueue \in Nat /\ MaxQueue >= 2
  /\ MaxFd \in Nat

Worker == 0 .. N - 1
Slot == 0 .. MaxQueue - 1
Fd == 1 .. MaxFd

VARIABLES
  conn,         \* the client behind each open descriptor
  accepted,     \* the clients accepted so far
  answered,     \* the clients that got their response
  left,         \* the descriptors whose client closed its end; never closed
  task_queue, front_queue, end_queue,
  main,         \* where main() stands
  hand,         \* fd in dequeue_task
  shift,        \* shift in main()
  probe,        \* how many threads the loop of dequeue_task has passed by
  pc,           \* where each task thread stands
  wait, sockfd, \* p_info[i].wait, p_info[i].sockfd
  fd,           \* fd in thread_task
  wakeups       \* "early" once a pthread_cond_wait returned without a signal

socketVars == <<conn, accepted, answered, left>>
queueVars  == <<task_queue, front_queue, end_queue>>
mainVars   == <<main, hand, shift, probe>>
threadVars == <<pc, wait, sockfd, fd>>
vars == <<socketVars, queueVars, mainVars, threadVars, wakeups>>

-----------------------------------------------------------------------------
Init ==
  /\ conn = [f \in Fd |-> NoClient]
  /\ accepted = {} /\ answered = {} /\ left = {}
  /\ task_queue = [i \in Slot |-> 0] /\ front_queue = 0 /\ end_queue = 0
  /\ main = "select" /\ hand = 0 /\ shift = 0 /\ probe = 0
  /\ pc = [w \in Worker |-> "start"]
  /\ wait = [w \in Worker |-> 0]
  /\ sockfd = [w \in Worker |-> -1]
  /\ fd = [w \in Worker |-> -1]
  /\ wakeups = "signalled"

-----------------------------------------------------------------------------
(* main().                                                                 *)

(* enqueue_task.  The queue is empty whenever it is called, so the test    *)
(* for a full queue is false.                                              *)
Enqueue(f) ==
  /\ task_queue' = [task_queue EXCEPT ![end_queue] = f]
  /\ end_queue' = (end_queue + 1) % MaxQueue
  /\ UNCHANGED front_queue

(* accept() gives the lowest free descriptor. *)
Accept(c) ==
  /\ main = "select"
  /\ c \notin accepted
  /\ \E f \in Fd :
       /\ conn[f] = NoClient
       /\ \A g \in Fd : conn[g] = NoClient => f <= g
       /\ conn' = [conn EXCEPT ![f] = c]
       /\ Enqueue(f)
  /\ accepted' = accepted \cup {c}
  /\ shift' = (shift + 1) % N
  /\ main' = "dequeue"
  /\ UNCHANGED <<answered, left, hand, probe, threadVars>>

(* accept() fails when no descriptor is left, and it may fail the first    *)
(* time, when clientlen is whatever the stack held (a success sets it).    *)
(* main() returns, and with it the program ends.                           *)
AcceptFails ==
  /\ main = "select"
  /\ accepted # Client
  /\ accepted = {} \/ \A f \in Fd : conn[f] # NoClient
  /\ main' = "exit"
  /\ UNCHANGED <<socketVars, queueVars, hand, shift, probe, threadVars>>

(* Mutant: front_queue is not moved on. *)
DequeueSame ==
  /\ main = "dequeue"
  /\ hand' = task_queue[front_queue]
  /\ probe' = 0
  /\ main' = "probe"
  /\ UNCHANGED <<socketVars, queueVars, shift, threadVars>>

Dequeue ==
  /\ main = "dequeue"
  /\ hand' = task_queue[front_queue]
  /\ front_queue' = (front_queue + 1) % MaxQueue
  /\ probe' = 0
  /\ main' = "probe"
  /\ UNCHANGED <<socketVars, task_queue, end_queue, shift, threadVars>>

(* The mutex of a thread is free before it is first taken and while the    *)
(* thread is in pthread_cond_wait.                                         *)
LockFree(w) == pc[w] \in {"start", "waiting", "woken"}

Probed == (shift + probe) % N

Signalled(w) == IF pc[w] = "waiting" THEN [pc EXCEPT ![w] = "woken"] ELSE pc

(* Mutant: the flag wait is not looked at. *)
HandOverUnasked ==
  /\ main = "probe"
  /\ LockFree(Probed)
  /\ wait' = [wait EXCEPT ![Probed] = 0]
  /\ sockfd' = [sockfd EXCEPT ![Probed] = hand]
  /\ pc' = Signalled(Probed)
  /\ main' = "select"
  /\ UNCHANGED <<socketVars, queueVars, hand, shift, probe, fd>>

(* The mutex is free and the thread waits: it gets the socket, and the    *)
(* signal if it is in pthread_cond_wait already.                           *)
HandOver ==
  /\ main = "probe"
  /\ LockFree(Probed) /\ wait[Probed] = 1
  /\ wait' = [wait EXCEPT ![Probed] = 0]
  /\ sockfd' = [sockfd EXCEPT ![Probed] = hand]
  /\ pc' = Signalled(Probed)
  /\ main' = "select"
  /\ UNCHANGED <<socketVars, queueVars, hand, shift, probe, fd>>

(* Mutant: the loop over the threads runs past the last one. *)
PassByOn ==
  /\ main = "probe"
  /\ ~(LockFree(Probed) /\ wait[Probed] = 1)
  /\ probe' = probe + 1
  /\ UNCHANGED <<socketVars, queueVars, main, hand, shift, threadVars>>

PassBy ==
  /\ main = "probe"
  /\ ~(LockFree(Probed) /\ wait[Probed] = 1)
  /\ probe' = (probe + 1) % N
  /\ UNCHANGED <<socketVars, queueVars, main, hand, shift, threadVars>>

Main ==
  /\ (\E c \in Client : Accept(c)) \/ AcceptFails \/ Dequeue \/ HandOver \/ PassBy
  /\ UNCHANGED wakeups

-----------------------------------------------------------------------------
(* thread_task of thread w.                                                *)

GoTo(w, label) == pc' = [pc EXCEPT ![w] = label]

(* Mutant: wait is set again only once the thread is signalled. *)
WaitUnmarked(w) ==
  /\ pc[w] \in {"start", "loop"}
  /\ GoTo(w, "waiting")
  /\ wait' = IF pc[w] = "start" THEN [wait EXCEPT ![w] = 1] ELSE wait
  /\ UNCHANGED <<socketVars, queueVars, mainVars, sockfd, fd>>

Wait(w) ==
  /\ pc[w] \in {"start", "loop"}
  /\ wait' = [wait EXCEPT ![w] = 1]
  /\ GoTo(w, "waiting")
  /\ UNCHANGED <<socketVars, queueVars, mainVars, sockfd, fd>>

(* pthread_cond_wait returns without a signal. *)
WakeEarly(w) ==
  /\ pc[w] = "waiting"
  /\ GoTo(w, "woken")
  /\ wakeups' = "early"
  /\ UNCHANGED <<socketVars, queueVars, mainVars, wait, sockfd, fd>>

(* Back from pthread_cond_wait: the socket found in sockfd gets a          *)
(* bufferevent and the event loop runs.  On a descriptor that is not open  *)
(* it ends at once.                                                        *)
Wake(w) ==
  /\ pc[w] = "woken"
  /\ fd' = [fd EXCEPT ![w] = sockfd[w]]
  /\ GoTo(w, IF sockfd[w] > 0 /\ conn[sockfd[w]] # NoClient THEN "serving" ELSE "loop")
  /\ UNCHANGED <<socketVars, queueVars, mainVars, wait, sockfd>>

(* The request is read and answered; write_cb frees the bufferevent, which *)
(* closes the socket, and the event loop ends for want of events.          *)
Answer(w) ==
  /\ pc[w] = "serving"
  /\ conn[fd[w]] \notin Silent \cup {NoClient}
  /\ fd[w] \notin left
  /\ answered' = answered \cup {conn[fd[w]]}
  /\ conn' = [conn EXCEPT ![fd[w]] = NoClient]
  /\ GoTo(w, "loop")
  /\ UNCHANGED <<accepted, left, queueVars, mainVars, wait, sockfd, fd>>

(* The client closes its end before a whole request: event_cb frees        *)
(* nothing, the event loop ends and the descriptor stays open.             *)
HangUp(w) ==
  /\ pc[w] = "serving"
  /\ conn[fd[w]] \in Leaving
  /\ left' = left \cup {fd[w]}
  /\ GoTo(w, "loop")
  /\ UNCHANGED <<conn, accepted, answered, queueVars, mainVars, wait, sockfd, fd>>

(* When main() has returned there are no threads any more. *)
Runs(w) ==
  /\ main # "exit"
  /\ Wait(w) \/ Wake(w) \/ Answer(w)
  /\ UNCHANGED wakeups

Leaves(w) == main # "exit" /\ HangUp(w) /\ UNCHANGED wakeups

Thread(w) == Runs(w) \/ Leaves(w) \/ (main # "exit" /\ WakeEarly(w))

-----------------------------------------------------------------------------
Next == Main \/ \E w \in Worker : Thread(w)

Spec == Init /\ [][Next]_vars

(* The operating system runs main() and every thread; the clients that are *)
(* neither silent nor leaving send their requests.                         *)
Fairness ==
  /\ WF_vars(Main)
  /\ \A w \in Worker : WF_vars(Runs(w))

FairSpec == Spec /\ Fairness

-----------------------------------------------------------------------------
TypeOK ==
  /\ accepted \subseteq Client
  /\ conn \in [Fd -> accepted \cup {NoClient}]
  /\ answered \subseteq accepted
  /\ left \subseteq Fd
  /\ task_queue \in [Slot -> Fd \cup {0}]
  /\ front_queue \in Slot /\ end_queue \in Slot
  /\ main \in {"select", "dequeue", "probe", "exit"}
  /\ hand \in Fd \cup {0}
  /\ shift \in Worker /\ probe \in Worker
  /\ pc \in [Worker -> {"start", "waiting", "woken", "serving", "loop"}]
  /\ wait \in [Worker -> {0, 1}]
  /\ sockfd \in [Worker -> Fd \cup {-1}]
  /\ fd \in [Worker -> Fd \cup {-1}]
  /\ wakeups \in {"signalled", "early"}

(* Who is responsible for the connection f: the queue, main(), a thread    *)
(* that was given it and has not run yet, a thread that serves it.         *)
Given(w, f)  == pc[w] = "woken" /\ wait[w] = 0 /\ sockfd[w] = f
Serves(w, f) == pc[w] = "serving" /\ fd[w] = f

KeeperIds == {<<"queue", 0>>, <<"main", 0>>} \cup ({"thread"} \X Worker)

Keeps(k, f) ==
  \/ k = <<"queue", 0>> /\ main = "dequeue" /\ task_queue[front_queue] = f
  \/ k = <<"main", 0>> /\ main = "probe" /\ hand = f
  \/ k[1] = "thread" /\ (Given(k[2], f) \/ Serves(k[2], f))

Keepers(f) == {k \in KeeperIds : Keeps(k, f)}

InCare == {f \in Fd : conn[f] # NoClient /\ f \notin left}

(* No connection is dropped: a socket handed to a thread is never          *)
(* overwritten by the next one before the thread has run, even when        *)
(* threads wake up without a signal (webserver1.c:748-751,795-808).        *)
NotDropped == \A f \in InCare : Keepers(f) # {}

(* As long as threads wake only when they are signalled, every connection  *)
(* has one keeper only: no two threads read from one socket, though        *)
(* descriptors are used again as soon as they are closed.  The comment at  *)
(* webserver1.c:750 has it that "when the signal is come thread wakes and  *)
(* get socket fd of client".                                               *)
OneKeeper ==
  wakeups = "signalled" =>
    \A f \in InCare : \E k \in Keepers(f) : Keepers(f) = {k}

(* With more threads than silent clients, every client that is accepted    *)
(* and stays is answered, whichever threads the others block, as long as   *)
(* threads wake only when they are signalled: no signal is lost            *)
(* (webserver1.c:745-749,795-808).                                         *)
EveryoneAnswered ==
  \A c \in Client \ (Silent \cup Leaving) :
    c \in accepted ~> (c \in answered \/ wakeups = "early")
=============================================================================

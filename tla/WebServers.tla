----------------------------- MODULE WebServers -----------------------------
(***************************************************************************)
(* The three web servers of assignment 2 in front of Redis, which differ   *)
(* in who serves a connection:                                             *)
(*   fork      a process for each; the parent keeps its copy of the socket *)
(*   thread    a thread for each, which main() joins and which detaches    *)
(*             itself: when it does so first, the join fails and main()    *)
(*             goes on, else main() waits for the end of the thread        *)
(*   libevent  one thread, whose callbacks read and write blockingly.      *)
(* All three connect to Redis first, then read the request byte by byte,   *)
(* and for a POST store each pair as soon as it is read.  A request comes  *)
(* as units: its header, then the key and the value of each pair.          *)
(***************************************************************************)
EXTENDS Integers, Sequences, FiniteSets

CONSTANTS
  Kinds,       \* the servers to look at
  Client,
  Requests,    \* what a client may ask: [method, pairs]; of a GET the key of one pair
  Stalling,    \* the clients that may stop sending, or never start
  Leaving,     \* those that may close their end before they are answered
  NoClient, NoValue,
  MaxFd        \* descriptors a process has for connections

ASSUME WebServersAssumption ==
  /\ Stalling \subseteq Client /\ Leaving \subseteq Client /\ NoClient \notin Client
  /\ Kinds \subseteq {"fork", "thread", "libevent"} /\ MaxFd \in Nat
  /\ \A c \in Client : \A r \in Requests[c] :
       /\ Len(r.pairs) \in Nat /\ DOMAIN r.pairs = 1 .. Len(r.pairs)
       /\ r.method = "GET" => Len(r.pairs) >= 1

Padded == "padded"   \* a value cut by the end of the stream: zero bytes follow

VARIABLES
  kind, request,       \* the server; what each client asks
  sent, gone,          \* per client: units sent; those that closed their end
  pc, done, response,  \* per connection: the handler, pairs read, what is answered
  accepted, connected, \* sequence of the connections; those with a Redis socket
  up, busy,            \* the main thread: runs; the connection it waits for
  joined, detached,    \* threads, by what came first
  store, troubled      \* Redis; connections with an error or a value in parts

clientVars  == <<request, sent, gone>>
handlerVars == <<pc, done, response, connected>>
mainVars    == <<kind, accepted, up, busy, joined, detached>>
redisVars   == <<store, troubled>>
vars == <<clientVars, handlerVars, mainVars, redisVars>>

Pairs(c) == request[c].pairs
KeyOf(c, i) == Pairs(c)[i][1]
ValueOf(c, i) == Pairs(c)[i][2]
Posters == {c \in Client : request[c].method = "POST"}
Key == UNION {UNION {{r.pairs[i][1] : i \in DOMAIN r.pairs} : r \in Requests[c]} : c \in Client}
Whole(c) == IF request[c].method = "POST" THEN 1 + 2 * Len(Pairs(c)) ELSE 1

Init ==
  /\ kind \in Kinds /\ request \in {r \in [Client -> UNION {Requests[c] : c \in Client}] :
                                       \A c \in Client : r[c] \in Requests[c]}
  /\ sent = [c \in Client |-> 0] /\ gone = {}
  /\ pc = [c \in Client |-> "none"] /\ done = [c \in Client |-> 0]
  /\ response = [c \in Client |-> "none"]
  /\ accepted = <<>> /\ connected = {}
  /\ up = TRUE /\ busy = NoClient /\ joined = {} /\ detached = {}
  /\ store = [k \in Key |-> NoValue] /\ troubled = {}

-----------------------------------------------------------------------------
(* The clients: connected from the start, in the backlog of the server.    *)
(* The units of one that neither stalls nor leaves arrive together; how    *)
(* long a handler waits for the next it may as well wait before it.        *)

Send(c) ==
  /\ c \notin gone /\ sent[c] < Whole(c)
  /\ sent' = [sent EXCEPT ![c] = IF c \in Stalling \cup Leaving THEN @ + 1 ELSE Whole(c)]
  /\ UNCHANGED <<request, gone, handlerVars, mainVars, redisVars>>

Leave(c) ==
  /\ c \in Leaving \ gone /\ response[c] = "none"
  /\ gone' = gone \cup {c}
  /\ UNCHANGED <<request, sent, handlerVars, mainVars, redisVars>>

-----------------------------------------------------------------------------
(* The main threads. *)

Accepted == {accepted[i] : i \in DOMAIN accepted}
Position(c) == CHOOSE i \in DOMAIN accepted : accepted[i] = c

(* Descriptors of the process that serves c: a forked one inherits those   *)
(* the parent held, and no server closes any.                              *)
InUse(c) == IF kind = "fork" THEN Position(c) ELSE Len(accepted) + Cardinality(connected)

(* Mutant: the sockets to Redis are closed. *)
HeldClients == Len(accepted)

HeldByMain == Len(accepted) + (IF kind = "fork" THEN 0 ELSE Cardinality(connected))

Take(c, label) ==
  /\ up /\ busy = NoClient
  /\ c \notin Accepted /\ HeldByMain < MaxFd
  /\ accepted' = Append(accepted, c)
  /\ pc' = [pc EXCEPT ![c] = label]
  /\ UNCHANGED <<kind, clientVars, done, response, connected, up, joined, detached, redisVars>>

(* Mutant: the parent waits for its child. *)
ForkAcceptWait(c) == kind = "fork" /\ Take(c, "start") /\ busy' = c

ForkAccept(c) == kind = "fork" /\ Take(c, "start") /\ UNCHANGED busy

(* pthread_create; the join comes next. *)
ThreadAccept(c) == kind = "thread" /\ Take(c, "start") /\ busy' = c

(* The event of the new socket is triggered at once: it can be written.    *)
EventAccept(c) == kind = "libevent" /\ Take(c, "event") /\ UNCHANGED busy

(* accept() without a descriptor, fork() or pthread_create() that fails:   *)
(* main() returns; threads end with it.  The libevent server tries again.  *)
AcceptFails ==
  /\ kind # "libevent" /\ up /\ busy = NoClient
  /\ Accepted # Client /\ HeldByMain = MaxFd
  /\ up' = FALSE
  /\ UNCHANGED <<kind, clientVars, handlerVars, accepted, busy, joined, detached, redisVars>>

(* pthread_join: of a detached thread it fails at once. *)
Join(c) ==
  /\ kind = "thread" /\ up /\ busy = c /\ c \notin joined
  /\ IF c \in detached THEN busy' = NoClient /\ UNCHANGED joined
                       ELSE joined' = joined \cup {c} /\ UNCHANGED busy
  /\ UNCHANGED <<kind, clientVars, handlerVars, accepted, up, detached, redisVars>>

(* Mutant: the join does not wait. *)
FinishedNow(c) == TRUE

Finished(c) == pc[c] = "ended"

(* The joined thread, or the callback, has returned. *)
Resume ==
  /\ up /\ busy # NoClient
  /\ kind = "thread" => busy \in joined
  /\ Finished(busy)
  /\ busy' = NoClient
  /\ UNCHANGED <<kind, clientVars, handlerVars, accepted, up, joined, detached, redisVars>>

(* event_base_dispatch: one callback at a time. *)
Dispatch(c) ==
  /\ kind = "libevent" /\ busy = NoClient /\ pc[c] = "event"
  /\ busy' = c
  /\ pc' = [pc EXCEPT ![c] = "start"]
  /\ UNCHANGED <<kind, clientVars, done, response, connected, accepted, up, joined, detached,
                 redisVars>>

ForkMain   == \E c \in Client : ForkAccept(c)
ThreadMain == \E c \in Client : ThreadAccept(c) \/ Join(c)
EventMain  == \E c \in Client : EventAccept(c) \/ Dispatch(c)
Main == ForkMain \/ ThreadMain \/ EventMain \/ Resume

-----------------------------------------------------------------------------
(* The handler of connection c. *)

Goto(c, label) == pc' = [pc EXCEPT ![c] = label]
Answer(c, r) == response' = [response EXCEPT ![c] = r] /\ Goto(c, "ended")

(* redis_server. *)
Connect(c) ==
  /\ pc[c] = "start" /\ InUse(c) < MaxFd
  /\ connected' = connected \cup {c}
  /\ Goto(c, IF kind = "thread" THEN "detach" ELSE "request")
  /\ UNCHANGED <<clientVars, done, response, mainVars, redisVars>>

(* No descriptor, or no Redis: the handler returns without an answer and   *)
(* the connection stays open.  A thread detaches itself all the same.      *)
ConnectFails(c) ==
  /\ pc[c] = "start"
  /\ Goto(c, IF kind = "thread" THEN "detach" ELSE "ended")
  /\ UNCHANGED <<clientVars, done, response, connected, mainVars, redisVars>>

(* pthread_detach of a thread that is being joined does nothing. *)
Detach(c) ==
  /\ pc[c] = "detach"
  /\ detached' = IF c \in joined THEN detached ELSE detached \cup {c}
  /\ Goto(c, IF c \in connected THEN "request" ELSE "ended")
  /\ UNCHANGED <<clientVars, done, response, connected, kind, accepted, up, busy, joined,
                 redisVars>>

EmptyPost == IF kind = "thread" THEN "closed" ELSE "404"

(* http_read_request: a header, or the end of the stream, which leaves the *)
(* line growing until it is too long.                                      *)
ReadRequest(c) ==
  /\ pc[c] = "request" /\ (sent[c] >= 1 \/ c \in gone)
  /\ IF sent[c] = 0 THEN Answer(c, "404")
     ELSE CASE request[c].method = "GET" -> Goto(c, "get") /\ UNCHANGED response
            [] request[c].method = "POST" /\ Pairs(c) # <<>> ->
                 Goto(c, "post") /\ UNCHANGED response
            [] request[c].method = "POST" /\ Pairs(c) = <<>> -> Answer(c, EmptyPost)
            [] OTHER -> Answer(c, "404")
  /\ UNCHANGED <<clientVars, done, connected, mainVars, redisVars>>

(* The next pair of the body is there to the last byte. *)
PairCame(c) == sent[c] >= 2 * done[c] + 3

(* The stream ended in the value: zero bytes fill it up.                   *)
PairCut(c) == c \in gone /\ sent[c] = 2 * done[c] + 2

(* redis_set_request and redis_set_response.  An error of Redis counts as  *)
(* success: the response is 1 or 0, the test is for less than 0.           *)
StorePair(c) ==
  /\ pc[c] = "post" /\ done[c] < Len(Pairs(c))
  /\ PairCame(c) \/ PairCut(c)
  /\ LET v == IF sent[c] >= 2 * done[c] + 3 THEN ValueOf(c, done[c] + 1) ELSE Padded IN
       \/ store' = [store EXCEPT ![KeyOf(c, done[c] + 1)] = v] /\ UNCHANGED troubled
       \/ troubled' = troubled \cup {c} /\ UNCHANGED store
  /\ done' = [done EXCEPT ![c] = IF PairCut(c) THEN Len(Pairs(c)) ELSE @ + 1]
  /\ UNCHANGED <<clientVars, pc, response, connected, mainVars>>

(* Mutant: the response leaves when the last pair is still to come. *)
BodyReadEarly(c) == done[c] + 1 >= Len(Pairs(c))

(* All pairs are stored; at the end of the stream the rest of the body is  *)
(* zero bytes, which hold no '='.                                          *)
BodyRead(c) == done[c] = Len(Pairs(c)) \/ (c \in gone /\ sent[c] = 2 * done[c] + 1)

PostDone(c) ==
  /\ pc[c] = "post" /\ BodyRead(c)
  /\ Answer(c, "ok")
  /\ UNCHANGED <<clientVars, done, connected, mainVars, redisVars>>

(* redis_get_request and redis_get_response; the value is read by one      *)
(* read(), and 404 is sent for one that is not there or comes in parts.    *)
Get(c) ==
  LET v == store[KeyOf(c, 1)] IN
  /\ pc[c] = "get"
  /\ \/ v = NoValue /\ Answer(c, "404") /\ UNCHANGED troubled
     \/ v # NoValue /\ Answer(c, v) /\ UNCHANGED troubled
     \/ v # NoValue /\ Answer(c, "404") /\ troubled' = troubled \cup {c}
  /\ UNCHANGED <<clientVars, done, connected, mainVars, store>>

Handle(c) ==
  (up \/ kind = "fork") /\ (Connect(c) \/ ConnectFails(c) \/ ReadRequest(c)
                             \/ StorePair(c) \/ PostDone(c) \/ Get(c))

ForkTask(c)   == kind = "fork" /\ Handle(c)
ThreadTask(c) == kind = "thread" /\ (Handle(c) \/ (up /\ Detach(c)))
EventTask(c)  == kind = "libevent" /\ Handle(c)
Task(c) == ForkTask(c) \/ ThreadTask(c) \/ EventTask(c)

-----------------------------------------------------------------------------
Next ==
  \/ Main \/ AcceptFails
  \/ \E c \in Client : Send(c) \/ Leave(c) \/ Task(c)

Spec == Init /\ [][Next]_vars

(* Processes and threads run; the clients that do not stall send all they  *)
(* have to.                                                                *)
Fairness ==
  /\ WF_vars(Main)
  /\ \A c \in Client : WF_vars(Task(c))
  /\ \A c \in Client \ Stalling : WF_vars(Send(c))

FairSpec == Spec /\ Fairness

-----------------------------------------------------------------------------
Value == (UNION {{ValueOf(c, i) : i \in DOMAIN Pairs(c)} : c \in Posters}) \cup {NoValue, Padded}

TypeOK ==
  /\ pc \in [Client -> {"none", "event", "start", "detach", "request", "get", "post", "ended"}]
  /\ response \in [Client -> {"none", "ok", "404", "closed"} \cup (Value \ {NoValue})]
  /\ \A c \in Client : done[c] <= Len(Pairs(c)) /\ sent[c] <= Whole(c)
  /\ gone \cup connected \cup joined \cup detached \cup troubled \subseteq Client
  /\ busy \in Client \cup {NoClient} /\ up \in BOOLEAN
  /\ store \in [Key -> Value]
  /\ Len(accepted) + (IF kind = "fork" THEN 0 ELSE Cardinality(connected)) <= MaxFd

Begun(c, k) == c \in Posters /\ pc[c] # "none" /\ \E i \in DOMAIN Pairs(c) : KeyOf(c, i) = k

Holds(c, i) == store[KeyOf(c, i)] = ValueOf(c, i)

(* Of the pairs of c with one key the last. *)
Last(c, i) == \A j \in DOMAIN Pairs(c) : j > i => KeyOf(c, j) # KeyOf(c, i)

(* A client that stayed to hear OK, with no error of Redis, has every one  *)
(* of its values stored (the last one, of a key it sent twice); another    *)
(* POST of that key may have come after it                                 *)
(* (webserver_fork.c:133-201; test.py:41-48 reads the values after OK).    *)
OkStored ==
  \A c \in Posters \ (gone \cup troubled) : response[c] = "ok" =>
    \A i \in DOMAIN Pairs(c) : Last(c, i) =>
      \/ Holds(c, i)
      \/ \E d \in Client \ {c} : Begun(d, KeyOf(c, i))

(* Whether main() has waited for each handler before it took the next. *)
Serial == kind = "libevent" \/ (kind = "thread" /\ detached = {})

Idle == \A c \in Client : pc[c] \in {"none", "event", "ended"}

Fresh == store = [k \in Key |-> NoValue]

(* POSTs do not mix where requests are served one after the other: between *)
(* handlers there is one POST all of whose values are in the store; when   *)
(* all POSTs have the same keys, all values are of one POST.  (In the fork *)
(* server, and with a thread that detaches itself before it is joined,     *)
(* they do mix; webserver_thread.c:104, webserver_libevent.c:94.)          *)
PostsApart ==
  Serial /\ Idle /\ (gone \cup troubled) \cap Posters = {} =>
    \/ Fresh
    \/ \E c \in Posters : Pairs(c) # <<>> /\ \A i \in DOMAIN Pairs(c) : Last(c, i) => Holds(c, i)

Stuck == kind # "fork" /\ busy # NoClient /\ sent[busy] < Whole(busy)

(* A client that sends its whole request is answered, with the exceptions  *)
(* the code has: no Redis connection, no descriptor left, the server gone, *)
(* or, but in the fork server, a client ahead of it that sends nothing     *)
(* (webserver_fork.c:88, webserver_thread.c:104,123,                       *)
(* webserver_libevent.c:147).                                              *)
Served ==
  \A c \in Client :
    sent[c] = Whole(c) ~>
      \/ response[c] # "none"
      \/ pc[c] = "ended" /\ c \notin connected
      \/ ~up \/ HeldByMain = MaxFd \/ Stuck
=============================================================================

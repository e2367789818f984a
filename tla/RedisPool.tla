----------------------------- MODULE RedisPool -----------------------------
(***************************************************************************)
(* The connections to Redis of the last assignment 3 server (a32,          *)
(* webserver1.c) and the two kinds of threads that use them.               *)
(*                                                                         *)
(* Task thread w has PerThread connections of its own; one Redis thread    *)
(* reads what comes back on them.  To serve a request the task thread      *)
(* looks for a connection whose field working is -1, takes it by setting   *)
(* working to 0, writes a command and spins until redis_read_cb has set    *)
(* result; then it sets both fields back.  No mutex guards any of it.      *)
(*                                                                         *)
(* A request is the sequence of the commands it takes: a GET, or the       *)
(* APPENDs of a POST.  The connection for an APPEND is one of the thread's *)
(* own, except for the last piece of a value that arrived in several       *)
(* pieces, for which all connections are looked at.  A reply of Redis is   *)
(* the sequence of its pieces: a count, a nil, or the line with the length *)
(* of a value, ValueLen bytes and the end; it may arrive cut anywhere      *)
(* between them.                                                           *)
(***************************************************************************)
EXTENDS Integers, Sequences, FiniteSets

CONSTANTS
  N,            \* number of task threads, 10
  PerThread,    \* connections of a thread, 4
  Requests,     \* the requests clients send, sequences of "get", "own", "any"
  MaxRequests,  \* bound on the number of requests a thread serves
  ValueLen      \* number of bytes of a value

ASSUME RedisPoolAssumption ==
  /\ N \in Nat \ {0} /\ PerThread \in Nat \ {0}
  /\ Requests \subseteq Seq({"get", "own", "any"}) \ {<<>>}
  /\ MaxRequests \in Nat /\ ValueLen \in Nat \ {0}

Worker == 0 .. N - 1
Conn == 0 .. N * PerThread - 1
NoConn == -1

(* The Redis thread of a connection, num in main(). *)
RedisThread(c) == c \div PerThread

VARIABLES
  pc,       \* where each task thread stands
  request,  \* the commands still to be done, the first one being done
  served,   \* number of requests answered
  out,      \* what was written to the client of the request
  scan,     \* how many connections the search has passed over
  shift,    \* redis_shift, modulo PerThread
  held,     \* redis_index
  redis,    \* redis_info[c] with its bufferevent
  wire,     \* commands on their way to Redis
  reply,    \* pieces of replies on their way back
  halfway   \* the connection for which a callback has still to set working

workerVars == <<pc, request, served, out, scan, shift, held>>
vars == <<workerVars, redis, wire, reply, halfway>>

-----------------------------------------------------------------------------
Init ==
  /\ pc = [w \in Worker |-> "idle"]
  /\ request = [w \in Worker |-> <<>>]
  /\ served = [w \in Worker |-> 0]
  /\ out = [w \in Worker |-> <<>>]
  /\ scan = [w \in Worker |-> 0]
  /\ shift = [w \in Worker |-> 0]
  /\ held = [w \in Worker |-> NoConn]
  /\ redis = [c \in Conn |-> [working |-> -1, result |-> -1, length |-> -1, sock |-> -1,
                              reading |-> TRUE, input |-> <<>>]]
  /\ wire = [c \in Conn |-> <<>>]
  /\ reply = [c \in Conn |-> <<>>]
  /\ halfway = [w \in Worker |-> NoConn]

-----------------------------------------------------------------------------
(* The task threads (read_cb).                                             *)

Goto(w, label) == pc' = [pc EXCEPT ![w] = label]
Me(w) == <<w, served[w]>>

Take(w) ==
  /\ pc[w] = "idle"
  /\ served[w] < MaxRequests
  /\ \E r \in Requests : request' = [request EXCEPT ![w] = r]
  /\ Goto(w, "look")
  /\ UNCHANGED <<served, out, scan, shift, held, redis, wire, reply, halfway>>

(* The connections looked at, in order.                                    *)
Candidates(w) == IF Head(request[w]) = "any" THEN N * PerThread ELSE PerThread

Candidate(w) ==
  IF Head(request[w]) = "any" THEN scan[w]
                              ELSE ((scan[w] + shift[w]) % PerThread) + w * PerThread

PassOver(w) ==
  /\ pc[w] = "look"
  /\ redis[Candidate(w)].working # -1
  /\ scan' = [scan EXCEPT ![w] = (@ + 1) % Candidates(w)]
  /\ UNCHANGED <<pc, request, served, out, shift, held, redis, wire, reply, halfway>>

(* Mutant: the next search goes on where this one ended. *)
FindOn(w) ==
  /\ pc[w] = "look"
  /\ redis[Candidate(w)].working = -1
  /\ held' = [held EXCEPT ![w] = Candidate(w)]
  /\ Goto(w, "claim")
  /\ UNCHANGED <<request, served, out, scan, shift, redis, wire, reply, halfway>>

Find(w) ==
  /\ pc[w] = "look"
  /\ redis[Candidate(w)].working = -1
  /\ held' = [held EXCEPT ![w] = Candidate(w)]
  /\ scan' = [scan EXCEPT ![w] = 0]
  /\ Goto(w, "claim")
  /\ UNCHANGED <<request, served, out, shift, redis, wire, reply, halfway>>

(* Mutant: redis_shift is never moved on. *)
ShiftedNot(w) == shift[w]

(* redis_shift moves on, so that the next search starts elsewhere. *)
Shifted(w) == IF Head(request[w]) = "any" THEN shift[w] ELSE (shift[w] + 1) % PerThread

Claim(w) ==
  /\ pc[w] = "claim"
  /\ redis' = [redis EXCEPT ![held[w]].reading = FALSE, ![held[w]].working = 0,
                            ![held[w]].sock = IF Head(request[w]) = "any" THEN @ ELSE w]
  /\ shift' = [shift EXCEPT ![w] = Shifted(w)]
  /\ Goto(w, "send")
  /\ UNCHANGED <<request, served, out, scan, held, wire, reply, halfway>>

(* Mutant: the bufferevent is not enabled again. *)
SendDeaf(w) ==
  /\ pc[w] = "send"
  /\ wire' = [wire EXCEPT ![held[w]] = Append(@, [of |-> Me(w), cmd |-> Head(request[w])])]
  /\ Goto(w, "wait")
  /\ UNCHANGED <<request, served, out, scan, shift, held, redis, reply, halfway>>

Send(w) ==
  /\ pc[w] = "send"
  /\ wire' = [wire EXCEPT ![held[w]] = Append(@, [of |-> Me(w), cmd |-> Head(request[w])])]
  /\ redis' = [redis EXCEPT ![held[w]].reading = TRUE]
  /\ Goto(w, "wait")
  /\ UNCHANGED <<request, served, out, scan, shift, held, reply, halfway>>

(* The loop that waits ends with result 0: the client gets an error and    *)
(* the connection is not given back.                                       *)
Fail(w) ==
  /\ pc[w] = "wait"
  /\ redis[held[w]].result = 0
  /\ out' = [out EXCEPT ![w] = Append(@, [of |-> Me(w), part |-> "error"])]
  /\ request' = [request EXCEPT ![w] = <<>>]
  /\ held' = [held EXCEPT ![w] = NoConn]
  /\ Goto(w, "respond")
  /\ UNCHANGED <<served, scan, shift, redis, wire, reply, halfway>>

(* ... or ends because there is a result, or because working is -1. *)
Succeed(w) ==
  /\ pc[w] = "wait"
  /\ LET r == redis[held[w]] IN r.result = 1 \/ (r.result = -1 /\ r.working = -1)
  /\ redis' = [redis EXCEPT ![held[w]].result = -1]
  /\ Goto(w, "free")
  /\ UNCHANGED <<request, served, out, scan, shift, held, wire, reply, halfway>>

Okay(w) == IF Head(request[w]) = "get" THEN <<>> ELSE <<[of |-> Me(w), part |-> "OK"]>>

(* The connection is given back.  A POST goes on with its next value, or   *)
(* is answered.                                                            *)
Free(w) ==
  /\ pc[w] = "free"
  /\ redis' = [redis EXCEPT ![held[w]].working = -1]
  /\ held' = [held EXCEPT ![w] = NoConn]
  /\ request' = [request EXCEPT ![w] = Tail(@)]
  /\ IF Len(request[w]) > 1 THEN Goto(w, "look") /\ UNCHANGED out
     ELSE Goto(w, "respond") /\ out' = [out EXCEPT ![w] = @ \o Okay(w)]
  /\ UNCHANGED <<served, scan, shift, wire, reply, halfway>>

(* write_cb: the client has its response. *)
Respond(w) ==
  /\ pc[w] = "respond"
  /\ served' = [served EXCEPT ![w] = @ + 1]
  /\ out' = [out EXCEPT ![w] = <<>>]
  /\ Goto(w, "idle")
  /\ UNCHANGED <<request, scan, shift, held, redis, wire, reply, halfway>>

Serve(w) == PassOver(w) \/ Find(w) \/ Claim(w) \/ Send(w) \/ Fail(w) \/ Succeed(w)
            \/ Free(w) \/ Respond(w)

-----------------------------------------------------------------------------
(* Redis.                                                                  *)

Bytes == [i \in 1 .. ValueLen |-> "byte"]

Replies(cmd) == IF cmd = "get" THEN {<<"nil">>, <<"value">> \o Bytes \o <<"end">>}
                               ELSE {<<"count">>}

Execute(c) ==
  /\ wire[c] # <<>>
  /\ wire' = [wire EXCEPT ![c] = Tail(@)]
  /\ LET cmd == Head(wire[c])
     IN  \E parts \in Replies(cmd.cmd) :
           reply' = [reply EXCEPT ![c] =
                       @ \o [i \in DOMAIN parts |-> [of |-> cmd.of, part |-> parts[i]]]]
  /\ UNCHANGED <<workerVars, redis, halfway>>

-----------------------------------------------------------------------------
(* The Redis threads (redis_read_cb).                                      *)

(* What evbuffer_remove leaves after the first line: lines are every piece *)
(* but the bytes of a value, which end with the line after them.           *)
Lines(s) == {i \in DOMAIN s : s[i].part # "byte"}
AfterLine(s) ==
  LET i == CHOOSE i \in Lines(s) : \A j \in Lines(s) : i <= j
  IN  SubSeq(s, i + 1, Len(s))

(* A value, or more of it: length is what is still expected.               *)
Body(r) ==
  IF Len(r.input) <= r.length
    THEN [r EXCEPT !.input = <<>>,
                   !.length = IF r.length = 0 THEN -1 ELSE @ - Len(r.input),
                   !.result = IF r.length = 0 THEN 1 ELSE @]
    ELSE [r EXCEPT !.input = <<>>, !.length = -1, !.result = 1]

(* Mutant: everything that arrived is written, the end too. *)
BodyWrittenAll(r) == r.input

BodyWritten(r) == IF Len(r.input) <= r.length THEN r.input ELSE SubSeq(r.input, 1, r.length)

Header(r) == [r EXCEPT !.input = AfterLine(@), !.length = ValueLen, !.working = 1]

(* The record of a connection after the callback, and what the callback    *)
(* writes to the client.  With working -1 it does nothing and the input    *)
(* stays where it is.                                                      *)
Starts(r, part) == r.working = 0 /\ Head(r.input).part = part

Called(r) ==
  CASE Starts(r, "count") -> [r EXCEPT !.input = AfterLine(@), !.result = 1]
    [] Starts(r, "nil")   -> [r EXCEPT !.input = AfterLine(@), !.result = 0, !.length = -1]
    [] Starts(r, "value") -> Body(Header(r))
    [] r.working = 1      -> Body(r)
    [] r.working = -1     -> r
    [] OTHER              -> [r EXCEPT !.input = AfterLine(@)]

Written(r) ==
  CASE Starts(r, "value") -> <<Head(r.input)>> \o BodyWritten(Header(r))
    [] r.working = 1      -> BodyWritten(r)
    [] OTHER              -> <<>>

(* Some of the reply arrives and the callback runs.  The bufferevent of a  *)
(* client that was answered is freed and allocated again for the next      *)
(* client of the thread.                                                   *)
Arrive(c) ==
  /\ halfway[RedisThread(c)] = NoConn
  /\ redis[c].reading
  /\ \E k \in 1 .. Len(reply[c]) :
       LET r == [redis[c] EXCEPT !.input = @ \o SubSeq(reply[c], 1, k)]
       IN  /\ r.working = 0 => Lines(r.input) # {}
           /\ reply' = [reply EXCEPT ![c] = SubSeq(@, k + 1, Len(@))]
           /\ redis' = [redis EXCEPT ![c] = Called(r)]
           /\ out' = [w \in Worker |-> IF w = r.sock /\ pc[w] # "idle" THEN out[w] \o Written(r)
                                       ELSE out[w]]
           /\ halfway' = [halfway EXCEPT ![RedisThread(c)] =
                            IF Starts(r, "count") THEN c ELSE @]
  /\ UNCHANGED <<pc, request, served, scan, shift, held, wire>>

(* After a count: result is set, and then working. *)
FinishCount(t) ==
  /\ halfway[t] # NoConn
  /\ redis' = [redis EXCEPT ![halfway[t]].working = -1, ![halfway[t]].length = -1]
  /\ halfway' = [halfway EXCEPT ![t] = NoConn]
  /\ UNCHANGED <<workerVars, wire, reply>>

-----------------------------------------------------------------------------
Next ==
  \/ \E w \in Worker : Take(w) \/ Serve(w) \/ FinishCount(w)
  \/ \E c \in Conn : Execute(c) \/ Arrive(c)

Spec == Init /\ [][Next]_vars

(* The threads run, Redis answers.  Clients need not send requests. *)
Fairness ==
  /\ \A w \in Worker : WF_vars(Serve(w)) /\ WF_vars(FinishCount(w))
  /\ \A c \in Conn : WF_vars(Execute(c)) /\ WF_vars(Arrive(c))

FairSpec == Spec /\ Fairness

-----------------------------------------------------------------------------
Id == Worker \X (0 .. MaxRequests)
Part == {"count", "nil", "value", "byte", "end", "error", "OK"}
Piece == [of : Id, part : Part]

TypeOK ==
  /\ pc \in [Worker -> {"idle", "look", "claim", "send", "wait", "free", "respond"}]
  /\ request \in [Worker -> Seq({"get", "own", "any"})]
  /\ served \in [Worker -> 0 .. MaxRequests]
  /\ out \in [Worker -> Seq(Piece)]
  /\ scan \in [Worker -> Conn] /\ \A w \in Worker : pc[w] # "look" => scan[w] = 0
  /\ shift \in [Worker -> 0 .. PerThread - 1]
  /\ held \in [Worker -> Conn \cup {NoConn}]
  /\ redis \in [Conn -> [working : {-1, 0, 1}, result : {-1, 0, 1}, length : -1 .. ValueLen,
                         sock : Worker \cup {-1}, reading : BOOLEAN, input : Seq(Piece)]]
  /\ wire \in [Conn -> Seq([of : Id, cmd : {"get", "own", "any"}])]
  /\ reply \in [Conn -> Seq(Piece)]
  /\ halfway \in [Worker -> Conn \cup {NoConn}]

Uses(w, c) == held[w] = c /\ pc[w] \in {"send", "wait", "free"}

(* A connection that answered nil is never given back.  When one is gone   *)
(* the search may come upon the same connection twice running.             *)
Lost(c) == redis[c].working = 0 /\ redis[c].result = 0 /\ \A w \in Worker : ~Uses(w, c)
Own(w) == {c \in Conn : RedisThread(c) = w}
Worn(w) == \E c \in Own(w) : Lost(c)

(* What is on its way on a connection, in either direction. *)
Underway(c) == {wire[c][i].of : i \in DOMAIN wire[c]}
               \cup {reply[c][i].of : i \in DOMAIN reply[c]}
               \cup {redis[c].input[i].of : i \in DOMAIN redis[c].input}

(* A connection has one user at a time and carries nothing but the command *)
(* of that user and its reply: the callback that sets working late, when   *)
(* the task thread has given the connection back already, does no harm as  *)
(* long as the thread goes round all of its connections                    *)
(* (webserver1.c:314-331,355-366,542-560,611-618).                         *)
InStep ==
  \A w \in Worker : ~Worn(w) => \A c \in Own(w) :
    /\ \A v \in Worker : Uses(v, c) => v = w
    /\ Underway(c) \subseteq {Me(v) : v \in {u \in Worker : Uses(u, c)}}

(* The answer to a request: an error, "OK" when Redis has executed its     *)
(* commands, or the whole value that was asked for and nothing else.       *)
ItsValue(w) ==
  out[w] = [i \in 1 .. ValueLen + 1 |->
              [of |-> Me(w), part |-> IF i = 1 THEN "value" ELSE "byte"]]
RightAnswer(w) ==
  \/ out[w] = <<[of |-> Me(w), part |-> "error"]>>
  \/ /\ out[w] = <<[of |-> Me(w), part |-> "OK"]>>
     /\ \A c \in Conn : \A i \in DOMAIN wire[c] : wire[c][i].of # Me(w)
  \/ ItsValue(w)

(* Nobody gets another's value, part of one, nothing, or an early OK, as   *)
(* long as the thread has lost no connection (webserver1.c:278-591).       *)
AnswersRight == \A w \in Worker : pc[w] = "respond" /\ ~Worn(w) => RightAnswer(w)

(* Every request is answered while two connections are left to the thread, *)
(* in whatever order replies arrive and callbacks are run (its loops at    *)
(* webserver1.c:312-332,385-387,501-503,540-571 wait without a bound).     *)
AnsweredWhileTwo ==
  \A w \in Worker :
    pc[w] = "look" ~> (pc[w] = "idle" \/ Cardinality({c \in Own(w) : ~Lost(c)}) <= 1)

(* What was answered with OK is stored: test.py:43-51 posts values of 8000 *)
(* bytes, gets an ok response and then reads Redis: "if vb != stored:      *)
(* return False".                                                          *)
StoredOnceOkay ==
  \A w \in Worker : \A i \in DOMAIN out[w] : out[w][i].part = "OK" =>
    \A c \in Conn : \A k \in DOMAIN wire[c] : wire[c][k].of # out[w][i].of
=============================================================================

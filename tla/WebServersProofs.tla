-------------------------- MODULE WebServersProofs --------------------------
(***************************************************************************)
(* For any number of clients with requests of any length: what OK promises *)
(* a POST in each of the three servers, and that POSTs do not mix where    *)
(* requests are served one after the other.                                *)
(***************************************************************************)
EXTENDS WebServers, FiniteSetTheorems, TLAPS

Answers == {"none", "ok", "404", "closed"} \cup (Value \ {NoValue})

(* What the handler of c has reached goes with what it was asked.          *)
HandlerOf(c) ==
  /\ request[c] \in Requests[c]
  /\ Len(Pairs(c)) \in Nat /\ DOMAIN Pairs(c) = 1 .. Len(Pairs(c))
  /\ done[c] \in 0 .. Len(Pairs(c)) /\ sent[c] \in 0 .. Whole(c)
  /\ pc[c] # "post" /\ pc[c] # "ended" => done[c] = 0
  /\ pc[c] = "post" => c \in Posters /\ Pairs(c) # <<>>
  /\ pc[c] = "get" => c \notin Posters /\ Len(Pairs(c)) >= 1
  /\ \A i \in DOMAIN Pairs(c) : KeyOf(c, i) \in Key
  /\ response[c] = "ok" /\ c \in Posters /\ c \notin gone => done[c] = Len(Pairs(c))

Types ==
  /\ kind \in {"fork", "thread", "libevent"}
  /\ pc \in [Client -> {"none", "event", "start", "detach", "request", "get", "post", "ended"}]
  /\ response \in [Client -> Answers]
  /\ sent \in [Client -> Nat] /\ done \in [Client -> Nat]
  /\ gone \cup connected \cup joined \cup detached \cup troubled \subseteq Client
  /\ busy \in Client \cup {NoClient} /\ up \in BOOLEAN
  /\ store \in [Key -> Value]
  /\ Len(accepted) \in Nat /\ accepted \in Seq(Client) /\ IsFiniteSet(connected)
  /\ HeldByMain <= MaxFd

HandlerInv == Types /\ \A c \in Client : HandlerOf(c)

(* Only a connection that was accepted has a handler. *)
Untaken == \A c \in Client : pc[c] # "none" => c \in Accepted

(* Of the pairs of c up to n with one key the last. *)
LastOf(c, i, n) == \A j \in 1 .. n : j > i => KeyOf(c, j) # KeyOf(c, i)

(* What has been read of a POST is stored, or another has come. *)
StoredSoFar ==
  \A c \in Posters \ (gone \cup troubled) : \A i \in 1 .. done[c] : LastOf(c, i, done[c]) =>
    \/ Holds(c, i)
    \/ \E d \in Client \ {c} : Begun(d, KeyOf(c, i))

(* One after the other: the handler that runs is the one that main() waits *)
(* for; what it has read of a POST is stored; before it stores anything,   *)
(* the store is that of the last POST.                                     *)
Clear == (gone \cup troubled) \cap Posters = {}

OneAtATime == \A c \in Client : pc[c] \notin {"none", "event", "ended"} => busy = c

Settled ==
  \/ Fresh
  \/ \E c \in Posters : Pairs(c) # <<>> /\ \A i \in DOMAIN Pairs(c) : Last(c, i) => Holds(c, i)

Apart ==
  /\ \A c \in Client : pc[c] = "post" =>
       \A i \in 1 .. done[c] : LastOf(c, i, done[c]) => Holds(c, i)
  /\ (\A c \in Client : pc[c] = "post" => done[c] = 0) => Settled

SerialInv == (Serial => OneAtATime) /\ (Serial /\ Clear => Apart)

-----------------------------------------------------------------------------
(* What a client asks never changes. *)
LEMMA SameRequest ==
  ASSUME UNCHANGED request
  PROVE  /\ \A c : Pairs(c)' = Pairs(c) /\ Whole(c)' = Whole(c)
         /\ \A c, i : KeyOf(c, i)' = KeyOf(c, i) /\ ValueOf(c, i)' = ValueOf(c, i)
         /\ Posters' = Posters /\ Value' = Value /\ Answers' = Answers
<1>1. /\ \A c : Pairs(c)' = Pairs(c) /\ Whole(c)' = Whole(c)
      /\ \A c, i : KeyOf(c, i)' = KeyOf(c, i) /\ ValueOf(c, i)' = ValueOf(c, i)
      /\ Posters' = Posters
  BY DEF Pairs, Whole, KeyOf, ValueOf, Posters
<1>2. Value' = Value
  BY DEF Value, ValueOf, Posters, Pairs
<1> QED
  BY <1>1, <1>2 DEF Answers

(* A handler that is not touched stays as it is. *)
LEMMA Untouched ==
  ASSUME NEW c, HandlerOf(c), UNCHANGED request,
         done'[c] = done[c], sent'[c] = sent[c], pc'[c] = pc[c], response'[c] = response[c],
         gone \subseteq gone'
  PROVE  HandlerOf(c)'
<1>1. Pairs(c)' = Pairs(c) /\ Whole(c)' = Whole(c) /\ Posters' = Posters
      /\ \A i : KeyOf(c, i)' = KeyOf(c, i)
  BY SameRequest
<1> QED
  BY <1>1 DEF HandlerOf

LEMMA InitHandlers == Init => HandlerInv
<1> SUFFICES ASSUME Init PROVE HandlerInv
  OBVIOUS
<1>1. \A c \in Client : request[c] \in Requests[c]
  BY DEF Init
<1>2. Types
  <2>1. store \in [Key -> Value]
    BY DEF Init, Value
  <2>2. HeldByMain <= MaxFd
    BY FS_EmptySet, WebServersAssumption DEF Init, HeldByMain
  <2>3. IsFiniteSet(connected)
    BY FS_EmptySet DEF Init
  <2> QED
    BY <2>1, <2>2, <2>3, WebServersAssumption DEF Init, Types, Answers
<1>3. ASSUME NEW c \in Client PROVE HandlerOf(c)
  <2>1. Len(Pairs(c)) \in Nat /\ DOMAIN Pairs(c) = 1 .. Len(Pairs(c))
    BY <1>1, WebServersAssumption DEF Pairs
  <2>2. \A i \in DOMAIN Pairs(c) : KeyOf(c, i) \in Key
    BY <1>1 DEF Key, KeyOf, Pairs
  <2>3. Whole(c) \in Nat
    BY <2>1 DEF Whole
  <2> QED
    BY <2>1, <2>2, <2>3 DEF Init, HandlerOf
<1> QED
  BY <1>2, <1>3 DEF HandlerInv

-----------------------------------------------------------------------------
(* The clients. *)
LEMMA SendHandlers ==
  ASSUME HandlerInv, NEW c \in Client, Send(c)
  PROVE  HandlerInv'
<1>1. UNCHANGED request /\ gone' = gone
  BY DEF Send
<1>2. HandlerOf(c) /\ Types
  BY DEF HandlerInv
<1>3. Len(Pairs(c)) \in Nat /\ Whole(c) \in Nat
  BY <1>2 DEF HandlerOf, Whole
<1>4. sent'[c] \in 0 .. Whole(c)
  BY <1>2, <1>3 DEF Send, HandlerOf, Types
<1>5. Types'
  <2>1. sent' \in [Client -> Nat]
    BY <1>2, <1>3 DEF Send, Types
  <2> QED
    BY <1>1, <1>2, <2>1, SameRequest
       DEF Send, Types, handlerVars, mainVars, redisVars, HeldByMain, Key
<1>6. HandlerOf(c)'
  <2>1. UNCHANGED <<pc, done, response>>
    BY DEF Send, handlerVars
  <2>2. Pairs(c)' = Pairs(c) /\ Whole(c)' = Whole(c) /\ Posters' = Posters
        /\ \A i : KeyOf(c, i)' = KeyOf(c, i)
    BY <1>1, SameRequest
  <2> QED
    BY <1>1, <1>2, <1>4, <2>1, <2>2 DEF HandlerOf
<1>7. ASSUME NEW d \in Client, d # c PROVE HandlerOf(d)'
  <2>1. HandlerOf(d)
    BY DEF HandlerInv
  <2>2. sent'[d] = sent[d] /\ UNCHANGED <<pc, done, response>>
    BY <1>2, <1>7 DEF Send, Types, handlerVars
  <2> QED
    BY <1>1, <2>1, <2>2, Untouched
<1> QED
  BY <1>5, <1>6, <1>7 DEF HandlerInv

(* A step that changes nothing of what HandlerOf looks at but gone. *)
LEMMA QuietHandlers ==
  ASSUME HandlerInv, UNCHANGED <<request, sent, done, response, pc>>,
         gone \subseteq gone', Types'
  PROVE  HandlerInv'
<1>1. ASSUME NEW d \in Client PROVE HandlerOf(d)'
  <2>1. HandlerOf(d)
    BY DEF HandlerInv
  <2> QED
    BY <2>1, Untouched
<1> QED
  BY <1>1 DEF HandlerInv

LEMMA LeaveHandlers ==
  ASSUME HandlerInv, NEW c \in Client, Leave(c)
  PROVE  HandlerInv'
<1>1. Types'
  BY SameRequest
     DEF Leave, HandlerInv, Types, handlerVars, mainVars, redisVars, HeldByMain, Key
<1> QED
  BY <1>1, QuietHandlers DEF Leave, handlerVars

-----------------------------------------------------------------------------
(* The main threads. *)

(* A step that moves a connection between the labels before its request. *)
LEMMA MovedHandlers ==
  ASSUME HandlerInv, UNCHANGED <<request, sent, done, response, gone>>, Types',
         NEW c \in Client, NEW label \in {"event", "start", "detach", "request"},
         pc[c] \in {"none", "event", "start", "detach"},
         pc' = [pc EXCEPT ![c] = label]
  PROVE  HandlerInv'
<1>0. Types /\ HandlerOf(c)
  BY DEF HandlerInv
<1>1. HandlerOf(c)'
  <2>1. Pairs(c)' = Pairs(c) /\ Whole(c)' = Whole(c) /\ Posters' = Posters
        /\ \A i : KeyOf(c, i)' = KeyOf(c, i)
    BY SameRequest
  <2>2. pc'[c] = label
    BY <1>0 DEF Types
  <2>3. done[c] = 0
    BY <1>0 DEF HandlerOf
  <2> QED
    BY <1>0, <2>1, <2>2, <2>3 DEF HandlerOf
<1>2. ASSUME NEW d \in Client, d # c PROVE HandlerOf(d)'
  <2>1. HandlerOf(d) /\ pc'[d] = pc[d]
    BY <1>0, <1>2 DEF HandlerInv, Types
  <2> QED
    BY <2>1, Untouched
<1> QED
  BY <1>1, <1>2 DEF HandlerInv

(* A connection that has not been taken has no handler. *)
LEMMA TakeHandlers ==
  ASSUME HandlerInv, NEW c \in Client, NEW label \in {"event", "start"}, Take(c, label),
         pc[c] = "none", busy' \in Client \cup {NoClient}
  PROVE  HandlerInv'
<1>0. Types
  BY DEF HandlerInv
<1>1. UNCHANGED request
  BY DEF Take, clientVars
<1>2. Len(accepted') = Len(accepted) + 1 /\ accepted' \in Seq(Client)
  BY <1>0 DEF Take, Types
<1>3. HeldByMain' <= MaxFd
  <2>1. HeldByMain < MaxFd /\ UNCHANGED <<kind, connected>>
    BY DEF Take
  <2>2. Cardinality(connected) \in Nat /\ Len(accepted) \in Nat
    BY <1>0, FS_CardinalityType DEF Types
  <2> QED
    BY <1>2, <2>1, <2>2, WebServersAssumption DEF HeldByMain
<1>4. Types'
  BY <1>0, <1>1, <1>2, <1>3, SameRequest DEF Take, Types, clientVars, redisVars, Key
<1> QED
  BY <1>4, MovedHandlers DEF Take, clientVars

LEMMA JoinHandlers ==
  ASSUME HandlerInv, NEW c \in Client, Join(c)
  PROVE  HandlerInv'
<1>1. Types'
  BY SameRequest
     DEF Join, HandlerInv, Types, handlerVars, clientVars, redisVars, HeldByMain, Key
<1> QED
  BY <1>1, QuietHandlers DEF Join, handlerVars, clientVars

LEMMA ResumeHandlers ==
  ASSUME HandlerInv, Resume
  PROVE  HandlerInv'
<1>1. Types'
  BY SameRequest
     DEF Resume, HandlerInv, Types, handlerVars, clientVars, redisVars, HeldByMain, Key
<1> QED
  BY <1>1, QuietHandlers DEF Resume, handlerVars, clientVars

LEMMA AcceptFailsHandlers ==
  ASSUME HandlerInv, AcceptFails
  PROVE  HandlerInv'
<1>1. Types'
  BY SameRequest
     DEF AcceptFails, HandlerInv, Types, handlerVars, clientVars, redisVars, HeldByMain, Key
<1> QED
  BY <1>1, QuietHandlers DEF AcceptFails, handlerVars, clientVars

LEMMA DispatchHandlers ==
  ASSUME HandlerInv, NEW c \in Client, Dispatch(c)
  PROVE  HandlerInv'
<1>1. Types'
  BY SameRequest
     DEF Dispatch, HandlerInv, Types, clientVars, redisVars, HeldByMain, Key
<1> QED
  BY <1>1, MovedHandlers DEF Dispatch, clientVars

LEMMA MainHandlers ==
  ASSUME HandlerInv, Untaken, Main
  PROVE  HandlerInv'
<1>1. ASSUME NEW c \in Client, NEW label, Take(c, label) PROVE pc[c] = "none"
  BY <1>1 DEF Take, Untaken
<1>2. CASE ForkMain
  <2>1. PICK c \in Client : ForkAccept(c)
    BY <1>2 DEF ForkMain
  <2>2. busy' \in Client \cup {NoClient}
    BY <2>1 DEF ForkAccept, HandlerInv, Types
  <2> QED
    BY <1>1, <2>1, <2>2, TakeHandlers DEF ForkAccept
<1>3. CASE ThreadMain
  <2>1. ASSUME NEW c \in Client, ThreadAccept(c) PROVE HandlerInv'
    BY <1>1, <2>1, TakeHandlers DEF ThreadAccept
  <2> QED
    BY <1>3, <2>1, JoinHandlers DEF ThreadMain
<1>4. CASE EventMain
  <2>1. ASSUME NEW c \in Client, EventAccept(c) PROVE HandlerInv'
    <3>1. busy' \in Client \cup {NoClient}
      BY <2>1 DEF EventAccept, HandlerInv, Types
    <3> QED
      BY <1>1, <2>1, <3>1, TakeHandlers DEF EventAccept
  <2> QED
    BY <1>4, <2>1, DispatchHandlers DEF EventMain
<1> QED
  BY <1>2, <1>3, <1>4, ResumeHandlers DEF Main

-----------------------------------------------------------------------------
(* The handlers. *)

LEMMA ConnectHandlers ==
  ASSUME HandlerInv, NEW c \in Client, Connect(c)
  PROVE  HandlerInv'
<1>0. Types /\ UNCHANGED request
  BY DEF HandlerInv, Connect, clientVars
<1>1. /\ IsFiniteSet(connected') /\ Cardinality(connected') \in Nat
      /\ Cardinality(connected') <= Cardinality(connected) + 1
  <2>1. connected' = connected \cup {c} /\ IsFiniteSet(connected)
    BY <1>0 DEF Types, Connect
  <2>2. IsFiniteSet(connected \cup {c})
        /\ (Cardinality(connected \cup {c}) = Cardinality(connected)
              \/ Cardinality(connected \cup {c}) = Cardinality(connected) + 1)
    BY <2>1, FS_AddElement
  <2>3. Cardinality(connected) \in Nat
    BY <2>1, FS_CardinalityType
  <2>4. Cardinality(connected') = Cardinality(connected \cup {c})
    BY <2>1
  <2> QED
    BY <2>1, <2>2, <2>3, <2>4
<1>2. HeldByMain' <= MaxFd
  <2>1. InUse(c) < MaxFd /\ UNCHANGED <<kind, accepted>>
    BY DEF Connect, mainVars
  <2>2. Cardinality(connected) \in Nat /\ Len(accepted) \in Nat
    BY <1>0, FS_CardinalityType DEF Types
  <2>3. CASE kind = "fork"
    BY <1>0, <2>1, <2>3 DEF Types, HeldByMain
  <2>4. CASE kind # "fork"
    BY <1>1, <2>1, <2>2, <2>4, WebServersAssumption DEF HeldByMain, InUse
  <2> QED
    BY <2>3, <2>4
<1>3. Types'
  BY <1>0, <1>1, <1>2, SameRequest DEF Connect, Goto, Types, clientVars, mainVars, redisVars, Key
<1>4. PICK label \in {"detach", "request"} : pc' = [pc EXCEPT ![c] = label]
  BY DEF Connect, Goto
<1> QED
  BY <1>3, <1>4, MovedHandlers DEF Connect, clientVars

(* A step of handler c that neither reads a pair nor changes what Types    *)
(* bounds but its label and its answer.                                    *)
LEMMA HandlerMoved ==
  ASSUME HandlerInv, NEW c \in Client, UNCHANGED <<clientVars, done, connected, mainVars, store>>,
         NEW label \in {"detach", "request", "get", "post", "ended"},
         pc' = [pc EXCEPT ![c] = label],
         NEW r \in Answers, response' = [response EXCEPT ![c] = r] \/ UNCHANGED response,
         troubled' \subseteq Client,
         label \notin {"post", "ended"} => done[c] = 0,
         label = "post" => c \in Posters /\ Pairs(c) # <<>>,
         label = "get" => c \notin Posters /\ Len(Pairs(c)) >= 1,
         r = "ok" /\ c \in Posters /\ c \notin gone => done[c] = Len(Pairs(c))
  PROVE  HandlerInv'
<1>0. Types /\ HandlerOf(c) /\ UNCHANGED <<request, sent, gone>>
  BY DEF HandlerInv, clientVars
<1>1. Types'
  <2>1. response' \in [Client -> Answers]
    BY <1>0 DEF Types
  <2> QED
    BY <1>0, <2>1, SameRequest DEF Types, mainVars, HeldByMain, Key
<1>2. HandlerOf(c)'
  <2>1. Pairs(c)' = Pairs(c) /\ Whole(c)' = Whole(c) /\ Posters' = Posters
        /\ \A i : KeyOf(c, i)' = KeyOf(c, i)
    BY <1>0, SameRequest
  <2>2. pc'[c] = label
    BY <1>0 DEF Types
  <2>3. response'[c] = r \/ response'[c] = response[c]
    BY <1>0 DEF Types
  <2>4. done[c] = 0 => (label # "post" /\ label # "ended" => done'[c] = 0)
    OBVIOUS
  <2> QED
    BY <1>0, <2>1, <2>2, <2>3, <2>4 DEF HandlerOf
<1>3. ASSUME NEW d \in Client, d # c PROVE HandlerOf(d)'
  <2>1. HandlerOf(d) /\ pc'[d] = pc[d] /\ response'[d] = response[d]
    BY <1>0, <1>3 DEF HandlerInv, Types
  <2> QED
    BY <1>0, <2>1, Untouched
<1> QED
  BY <1>1, <1>2, <1>3 DEF HandlerInv

LEMMA ConnectFailsHandlers ==
  ASSUME HandlerInv, NEW c \in Client, ConnectFails(c)
  PROVE  HandlerInv'
<1>0. Types /\ HandlerOf(c)
  BY DEF HandlerInv
<1>1. PICK label \in {"detach", "ended"} : pc' = [pc EXCEPT ![c] = label]
  BY DEF ConnectFails, Goto
<1>2. done[c] = 0
  BY <1>0 DEF ConnectFails, HandlerOf
<1> QED
  BY <1>0, <1>1, <1>2, HandlerMoved
     DEF ConnectFails, redisVars, Types, Answers

LEMMA DetachHandlers ==
  ASSUME HandlerInv, NEW c \in Client, Detach(c)
  PROVE  HandlerInv'
<1>0. Types /\ HandlerOf(c)
  BY DEF HandlerInv
<1>1. Types'
  BY <1>0, SameRequest
     DEF Detach, Types, Goto, clientVars, redisVars, HeldByMain, Key
<1>2. PICK label \in {"request", "ended"} : pc' = [pc EXCEPT ![c] = label]
  BY DEF Detach, Goto
<1>3. HandlerOf(c)'
  <2>1. UNCHANGED <<request, sent, gone, done, response>>
    BY DEF Detach, clientVars
  <2>2. Pairs(c)' = Pairs(c) /\ Whole(c)' = Whole(c) /\ Posters' = Posters
        /\ \A i : KeyOf(c, i)' = KeyOf(c, i)
    BY <2>1, SameRequest
  <2>3. pc'[c] = label
    BY <1>0, <1>2 DEF Types
  <2>4. done[c] = 0
    BY <1>0 DEF Detach, HandlerOf
  <2> QED
    BY <1>0, <2>1, <2>2, <2>3, <2>4 DEF HandlerOf
<1>4. ASSUME NEW d \in Client, d # c PROVE HandlerOf(d)'
  <2>1. HandlerOf(d) /\ pc'[d] = pc[d]
    BY <1>0, <1>2, <1>4 DEF HandlerInv, Types
  <2> QED
    BY <2>1, Untouched DEF Detach, clientVars
<1> QED
  BY <1>1, <1>3, <1>4 DEF HandlerInv

LEMMA ReadRequestHandlers ==
  ASSUME HandlerInv, NEW c \in Client, ReadRequest(c)
  PROVE  HandlerInv'
<1>0. Types /\ HandlerOf(c) /\ done[c] = 0 /\ EmptyPost \in Answers /\ EmptyPost # "ok"
      /\ "404" \in Answers
  BY DEF HandlerInv, HandlerOf, ReadRequest, EmptyPost, Answers
<1>1. UNCHANGED <<clientVars, done, connected, mainVars, store, troubled>>
  BY DEF ReadRequest, redisVars
<1>2. troubled' \subseteq Client
  BY <1>0, <1>1 DEF Types
<1>3. ASSUME NEW r \in Answers, r # "ok", Answer(c, r) PROVE HandlerInv'
  BY <1>0, <1>1, <1>2, <1>3, HandlerMoved DEF Answer, Goto
<1>4. ASSUME UNCHANGED response, Goto(c, "get"), request[c].method = "GET" PROVE HandlerInv'
  <2>1. Len(Pairs(c)) >= 1 /\ c \notin Posters
    BY <1>0, <1>4, WebServersAssumption DEF Posters, Pairs, HandlerOf
  <2> QED
    BY <1>0, <1>1, <1>2, <1>4, <2>1, HandlerMoved DEF Goto
<1>5. ASSUME UNCHANGED response, Goto(c, "post"), request[c].method = "POST", Pairs(c) # <<>>
      PROVE  HandlerInv'
  <2>1. c \in Posters
    BY <1>5 DEF Posters
  <2> QED
    BY <1>0, <1>1, <1>2, <1>5, <2>1, HandlerMoved DEF Goto
<1>6. \/ Answer(c, "404") \/ Answer(c, EmptyPost)
      \/ UNCHANGED response /\ Goto(c, "get") /\ request[c].method = "GET"
      \/ UNCHANGED response /\ Goto(c, "post") /\ request[c].method = "POST" /\ Pairs(c) # <<>>
  BY DEF ReadRequest
<1> QED
  BY <1>0, <1>3, <1>4, <1>5, <1>6

LEMMA GetHandlers ==
  ASSUME HandlerInv, NEW c \in Client, Get(c)
  PROVE  HandlerInv'
<1>0. Types /\ HandlerOf(c)
  BY DEF HandlerInv
<1>1. KeyOf(c, 1) \in Key /\ c \notin Posters
  BY <1>0 DEF Get, HandlerOf
<1>2. store[KeyOf(c, 1)] \in Value /\ "404" \in Answers
  BY <1>0, <1>1 DEF Types, Answers
<1>3. PICK r \in Answers : Answer(c, r)
  BY <1>2 DEF Get, Answers
<1>4. troubled' \subseteq Client /\ UNCHANGED <<clientVars, done, connected, mainVars, store>>
  BY <1>0 DEF Get, Types
<1> QED
  BY <1>0, <1>1, <1>3, <1>4, HandlerMoved DEF Answer, Goto

LEMMA PostDoneHandlers ==
  ASSUME HandlerInv, NEW c \in Client, PostDone(c)
  PROVE  HandlerInv'
<1>0. Types /\ HandlerOf(c) /\ "ok" \in Answers
  BY DEF HandlerInv, Answers
<1>1. c \notin gone => done[c] = Len(Pairs(c))
  BY DEF PostDone, BodyRead
<1>2. troubled' \subseteq Client /\ UNCHANGED <<clientVars, done, connected, mainVars, store>>
  BY <1>0 DEF PostDone, redisVars, Types
<1> QED
  BY <1>0, <1>1, <1>2, HandlerMoved DEF PostDone, Answer, Goto

LEMMA StorePairHandlers ==
  ASSUME HandlerInv, NEW c \in Client, StorePair(c)
  PROVE  HandlerInv'
<1>0. Types /\ HandlerOf(c) /\ UNCHANGED <<request, sent, gone, pc, response, connected, mainVars>>
  BY DEF HandlerInv, StorePair, clientVars
<1>1. Pairs(c)' = Pairs(c) /\ Whole(c)' = Whole(c) /\ Posters' = Posters
      /\ \A i : KeyOf(c, i)' = KeyOf(c, i)
  BY <1>0, SameRequest
<1>2. done[c] + 1 \in DOMAIN Pairs(c) /\ done[c] \in Nat /\ Len(Pairs(c)) \in Nat
      /\ c \in Posters
  BY <1>0 DEF StorePair, HandlerOf
<1>3. done'[c] \in 0 .. Len(Pairs(c)) /\ done' \in [Client -> Nat]
      /\ \A d \in Client \ {c} : done'[d] = done[d]
  <2>1. CASE PairCut(c)
    <3>1. done' = [done EXCEPT ![c] = Len(Pairs(c))]
      BY <2>1 DEF StorePair
    <3> QED
      BY <1>0, <1>2, <3>1 DEF Types
  <2>2. CASE ~PairCut(c)
    <3>1. done' = [done EXCEPT ![c] = @ + 1]
      BY <2>2 DEF StorePair
    <3>2. done[c] + 1 <= Len(Pairs(c))
      BY <1>0, <1>2 DEF HandlerOf
    <3> QED
      BY <1>0, <1>2, <3>1, <3>2 DEF Types
  <2> QED
    BY <2>1, <2>2
<1>4. store' \in [Key -> Value] /\ troubled' \subseteq Client
  <2>1. ValueOf(c, done[c] + 1) \in Value /\ Padded \in Value
    BY <1>2 DEF Value
  <2>2. \/ \E v \in Value : store' = [store EXCEPT ![KeyOf(c, done[c] + 1)] = v]
                            /\ UNCHANGED troubled
        \/ troubled' = troubled \cup {c} /\ UNCHANGED store
    BY <2>1 DEF StorePair
  <2> QED
    BY <1>0, <2>2 DEF Types
<1>5. Types'
  BY <1>0, <1>3, <1>4, SameRequest DEF Types, mainVars, HeldByMain, Key
<1>6. HandlerOf(c)'
  <2>1. pc[c] = "post" /\ (c \notin gone /\ response[c] = "ok" => FALSE)
    BY <1>0, <1>2 DEF StorePair, HandlerOf
  <2> QED
    BY <1>0, <1>1, <1>2, <1>3, <2>1 DEF HandlerOf
<1>7. ASSUME NEW d \in Client, d # c PROVE HandlerOf(d)'
  <2>1. HandlerOf(d) /\ done'[d] = done[d]
    BY <1>3, <1>7 DEF HandlerInv
  <2> QED
    BY <1>0, <2>1, Untouched
<1> QED
  BY <1>5, <1>6, <1>7 DEF HandlerInv

LEMMA TaskHandlers ==
  ASSUME HandlerInv, NEW c \in Client, Task(c)
  PROVE  HandlerInv'
<1>1. Handle(c) \/ Detach(c)
  BY DEF Task, ForkTask, ThreadTask, EventTask
<1> QED
  BY <1>1, ConnectHandlers, ConnectFailsHandlers, ReadRequestHandlers, StorePairHandlers,
     PostDoneHandlers, GetHandlers, DetachHandlers DEF Handle

LEMMA StepHandlers == HandlerInv /\ Untaken /\ [Next]_vars => HandlerInv'
<1> SUFFICES ASSUME HandlerInv, Untaken, [Next]_vars PROVE HandlerInv'
  OBVIOUS
<1>1. CASE UNCHANGED vars
  <2>1. Types'
    BY <1>1, SameRequest
       DEF vars, clientVars, handlerVars, mainVars, redisVars, HandlerInv, Types, HeldByMain, Key
  <2> QED
    BY <1>1, <2>1, QuietHandlers DEF vars, clientVars, handlerVars
<1> QED
  BY <1>1, MainHandlers, AcceptFailsHandlers, SendHandlers, LeaveHandlers, TaskHandlers DEF Next

-----------------------------------------------------------------------------
(* What every step leaves alone, and what it only adds to. *)

LEMMA TakeUntaken ==
  ASSUME Types, Untaken, NEW c \in Client, NEW label, Take(c, label)
  PROVE  Untaken'
<1>1. accepted \in Seq(Client) /\ accepted' = Append(accepted, c)
      /\ pc' = [pc EXCEPT ![c] = label]
  BY DEF Types, Take
<1>2. \A i \in DOMAIN accepted : i \in DOMAIN accepted' /\ accepted'[i] = accepted[i]
  BY <1>1
<1>3. Len(accepted) + 1 \in DOMAIN accepted' /\ accepted'[Len(accepted) + 1] = c
  BY <1>1
<1>4. Accepted \subseteq Accepted'
  BY <1>2 DEF Accepted
<1>5. c \in Accepted'
  BY <1>3 DEF Accepted
<1> QED
  BY <1>1, <1>4, <1>5 DEF Types, Untaken

LEMMA StepUntaken == HandlerInv /\ Untaken /\ [Next]_vars => Untaken'
<1> SUFFICES ASSUME HandlerInv, Untaken, [Next]_vars PROVE Untaken'
  OBVIOUS
<1>0. Types
  BY DEF HandlerInv
<1>1. CASE \E c \in Client : ForkAccept(c) \/ ThreadAccept(c) \/ EventAccept(c)
  BY <1>0, <1>1, TakeUntaken DEF ForkAccept, ThreadAccept, EventAccept
<1>2. ASSUME NEW c \in Client, UNCHANGED accepted,
             \A d \in Client \ {c} : pc'[d] = pc[d], pc[c] # "none"
      PROVE  Untaken'
  BY <1>2 DEF Untaken, Accepted
<1>3. ASSUME UNCHANGED <<accepted, pc>> PROVE Untaken'
  BY <1>3 DEF Untaken, Accepted
<1>4. ASSUME NEW c \in Client, Task(c) PROVE Untaken'
  <2>1. Handle(c) \/ Detach(c)
    BY <1>4 DEF Task, ForkTask, ThreadTask, EventTask
  <2>2. UNCHANGED accepted /\ pc[c] # "none"
        /\ (UNCHANGED pc \/ \E label : pc' = [pc EXCEPT ![c] = label])
    BY <2>1 DEF Handle, Connect, ConnectFails, Detach, ReadRequest, StorePair, PostDone, Get,
                Answer, Goto, mainVars
  <2> QED
    BY <1>0, <1>2, <2>2 DEF Types
<1>5. ASSUME NEW c \in Client, Dispatch(c) PROVE Untaken'
  BY <1>0, <1>2, <1>5 DEF Dispatch, Types
<1>6. CASE AcceptFails \/ Resume \/ UNCHANGED vars
           \/ \E c \in Client : Send(c) \/ Leave(c) \/ Join(c)
  BY <1>3, <1>6 DEF AcceptFails, Resume, Send, Leave, Join, vars, handlerVars, mainVars
<1> QED
  BY <1>1, <1>4, <1>5, <1>6 DEF Next, Main, ForkMain, ThreadMain, EventMain

LEMMA HandlersHold == Spec => [](HandlerInv /\ Untaken)
<1>1. Init => HandlerInv /\ Untaken
  BY InitHandlers DEF Init, Untaken
<1> QED
  BY <1>1, StepHandlers, StepUntaken, PTL DEF Spec

LEMMA TypesHold == HandlerInv => TypeOK
<1> SUFFICES ASSUME HandlerInv PROVE TypeOK
  OBVIOUS
<1>1. ASSUME NEW c \in Client PROVE done[c] <= Len(Pairs(c)) /\ sent[c] <= Whole(c)
  <2>1. HandlerOf(c)
    BY DEF HandlerInv
  <2>2. Len(Pairs(c)) \in Nat /\ Whole(c) \in Nat
    BY <2>1 DEF HandlerOf, Whole
  <2> QED
    BY <2>1, <2>2 DEF HandlerOf
<1> QED
  BY <1>1 DEF HandlerInv, Types, TypeOK, Answers, HeldByMain

(* The labels, answers and descriptors in range: no handler reads more     *)
(* pairs than its request has, whatever of it comes, and no process has    *)
(* more than MaxFd sockets (webserver_fork.c:88-114).                      *)
THEOREM ServerTypes == Spec => []TypeOK
BY HandlersHold, TypesHold, PTL

-----------------------------------------------------------------------------
(* What was begun, lost or detached stays so; only StorePair stores.       *)
LEMMA Onwards ==
  ASSUME HandlerInv, [Next]_vars
  PROVE  /\ UNCHANGED <<request, kind>>
         /\ gone \subseteq gone' /\ troubled \subseteq troubled' /\ detached \subseteq detached'
         /\ \A c \in Client : pc[c] # "none" => pc'[c] # "none"
         /\ UNCHANGED <<store, done>> \/ \E c \in Client : StorePair(c)
<1>0. Types
  BY DEF HandlerInv
<1> DEFINE Goal ==
      /\ UNCHANGED <<request, kind>>
      /\ gone \subseteq gone' /\ troubled \subseteq troubled' /\ detached \subseteq detached'
      /\ \A c \in Client : pc[c] # "none" => pc'[c] # "none"
      /\ UNCHANGED <<store, done>> \/ \E c \in Client : StorePair(c)
<1>1. ASSUME NEW c \in Client, NEW label \in {"start", "event"}, Take(c, label) PROVE Goal
  BY <1>0, <1>1 DEF Take, clientVars, redisVars, Types
<1>2. ASSUME NEW c \in Client, Send(c) \/ Leave(c) \/ Join(c) \/ Dispatch(c) PROVE Goal
  BY <1>0, <1>2 DEF Send, Leave, Join, Dispatch, clientVars, handlerVars, mainVars, redisVars, Types
<1>3. CASE AcceptFails \/ Resume \/ UNCHANGED vars
  BY <1>3 DEF AcceptFails, Resume, vars, clientVars, handlerVars, mainVars, redisVars
<1>4. ASSUME NEW c \in Client, Task(c) PROVE Goal
  <2>1. Handle(c) \/ Detach(c)
    BY <1>4 DEF Task, ForkTask, ThreadTask, EventTask
  <2>2. CASE StorePair(c)
    BY <2>2 DEF StorePair, clientVars, mainVars
  <2>3. CASE Connect(c) \/ ConnectFails(c)
    BY <1>0, <2>3 DEF Connect, ConnectFails, Goto, clientVars, mainVars, redisVars, Types
  <2>4. CASE Detach(c)
    BY <1>0, <2>4 DEF Detach, Goto, clientVars, redisVars, Types
  <2>5. CASE ReadRequest(c)
    BY <1>0, <2>5 DEF ReadRequest, Answer, Goto, clientVars, mainVars, redisVars, Types
  <2>6. CASE PostDone(c) \/ Get(c)
    BY <1>0, <2>6 DEF PostDone, Get, Answer, Goto, clientVars, mainVars, redisVars, Types
  <2> QED
    BY <2>1, <2>2, <2>3, <2>4, <2>5, <2>6 DEF Handle
<1> QED
  BY <1>1, <1>2, <1>3, <1>4 DEF Next, Main, ForkMain, ThreadMain, EventMain,
     ForkAccept, ThreadAccept, EventAccept

(* One pair more: it is in the store, and no other key has changed; unless *)
(* the client is gone or Redis has failed.                                 *)
LEMMA OneMore ==
  ASSUME HandlerInv, NEW c \in Client, StorePair(c)
  PROVE  /\ c \in Posters /\ done[c] + 1 \in DOMAIN Pairs(c) /\ done[c] \in Nat
         /\ \A d \in Client \ {c} : done'[d] = done[d]
         /\ \A k \in Key \ {KeyOf(c, done[c] + 1)} : store'[k] = store[k]
         /\ c \notin gone => done'[c] = done[c] + 1
         /\ c \notin gone \cup troubled' =>
              store'[KeyOf(c, done[c] + 1)] = ValueOf(c, done[c] + 1)
<1>0. Types /\ HandlerOf(c)
  BY DEF HandlerInv
<1>1. c \in Posters /\ done[c] + 1 \in DOMAIN Pairs(c) /\ done[c] \in Nat
  BY <1>0 DEF StorePair, HandlerOf
<1>2. KeyOf(c, done[c] + 1) \in Key
  BY <1>0, <1>1 DEF HandlerOf
<1>3. \A d \in Client \ {c} : done'[d] = done[d]
  BY <1>0 DEF StorePair, Types
<1>4. \A k \in Key \ {KeyOf(c, done[c] + 1)} : store'[k] = store[k]
  BY <1>0 DEF StorePair, Types
<1>5. c \notin gone => done'[c] = done[c] + 1
  BY <1>0 DEF StorePair, PairCut, Types
<1>6. ASSUME c \notin gone \cup troubled'
      PROVE  store'[KeyOf(c, done[c] + 1)] = ValueOf(c, done[c] + 1)
  <2>1. sent[c] >= 2 * done[c] + 3
    BY <1>6 DEF StorePair, PairCut, PairCame
  <2>2. store' = [store EXCEPT ![KeyOf(c, done[c] + 1)] = ValueOf(c, done[c] + 1)]
    BY <1>6, <2>1 DEF StorePair
  <2> QED
    BY <1>0, <1>2, <2>2 DEF Types
<1> QED
  BY <1>1, <1>3, <1>4, <1>5, <1>6

LEMMA StepStored == HandlerInv /\ StoredSoFar /\ [Next]_vars => StoredSoFar'
<1> SUFFICES ASSUME HandlerInv, StoredSoFar, [Next]_vars,
                    NEW e \in Posters', e \notin gone' \cup troubled', NEW i \in 1 .. done'[e],
                    LastOf(e, i, done[e])' 
             PROVE  \/ Holds(e, i)'
                    \/ \E d \in Client \ {e} : Begun(d, KeyOf(e, i))'
  BY DEF StoredSoFar
<1>0. /\ UNCHANGED request /\ gone \subseteq gone' /\ troubled \subseteq troubled'
      /\ \A d \in Client : pc[d] # "none" => pc'[d] # "none"
  BY Onwards
<1>1. /\ Posters' = Posters
      /\ \A d : Pairs(d)' = Pairs(d)
      /\ \A d, j : KeyOf(d, j)' = KeyOf(d, j) /\ ValueOf(d, j)' = ValueOf(d, j)
  BY <1>0, SameRequest
<1>2. e \in Client /\ e \in Posters \ (gone \cup troubled)
  BY <1>0, <1>1 DEF Posters
<1>3. \A d, k : Begun(d, k) /\ d \in Client => Begun(d, k)'
  BY <1>0, <1>1 DEF Begun
<1>4. CASE UNCHANGED <<store, done>>
  <2>1. LastOf(e, i, done[e])
    BY <1>1, <1>4 DEF LastOf
  <2>2. Holds(e, i) \/ \E d \in Client \ {e} : Begun(d, KeyOf(e, i))
    BY <1>2, <1>4, <2>1 DEF StoredSoFar
  <2> QED
    BY <1>1, <1>3, <1>4, <2>2 DEF Holds
<1>5. ASSUME NEW c \in Client, StorePair(c), e # c
      PROVE  Holds(e, i)' \/ \E d \in Client \ {e} : Begun(d, KeyOf(e, i))'
  <2>1. /\ c \in Posters /\ done[c] + 1 \in DOMAIN Pairs(c) /\ done'[e] = done[e]
        /\ \A k \in Key \ {KeyOf(c, done[c] + 1)} : store'[k] = store[k]
    BY <1>2, <1>5, OneMore
  <2>2. LastOf(e, i, done[e])
    BY <1>1, <2>1 DEF LastOf
  <2>3. Holds(e, i) \/ \E d \in Client \ {e} : Begun(d, KeyOf(e, i))
    BY <1>2, <2>1, <2>2 DEF StoredSoFar
  <2>4. CASE KeyOf(e, i) = KeyOf(c, done[c] + 1)
    <3>1. Begun(c, KeyOf(e, i))
      BY <1>5, <2>1, <2>4 DEF Begun, StorePair
    <3> QED
      BY <1>1, <1>3, <1>5, <3>1
  <2>5. CASE KeyOf(e, i) # KeyOf(c, done[c] + 1)
    <3>1. HandlerOf(e)
      BY <1>2 DEF HandlerInv
    <3>2. KeyOf(e, i) \in Key
      BY <2>1, <3>1 DEF HandlerOf
    <3> QED
      BY <1>1, <1>3, <2>1, <2>3, <2>5, <3>2 DEF Holds
  <2> QED
    BY <2>4, <2>5
<1>6. ASSUME StorePair(e)
      PROVE  Holds(e, i)' \/ \E d \in Client \ {e} : Begun(d, KeyOf(e, i))'
  <2>1. /\ done[e] + 1 \in DOMAIN Pairs(e) /\ done[e] \in Nat /\ done'[e] = done[e] + 1
        /\ \A k \in Key \ {KeyOf(e, done[e] + 1)} : store'[k] = store[k]
        /\ store'[KeyOf(e, done[e] + 1)] = ValueOf(e, done[e] + 1)
    BY <1>0, <1>2, <1>6, OneMore
  <2>2. CASE i = done[e] + 1
    BY <1>1, <2>1, <2>2 DEF Holds
  <2>3. CASE i # done[e] + 1
    <3>1. i \in 1 .. done[e] /\ done[e] + 1 > i /\ done[e] + 1 \in 1 .. done'[e]
      BY <2>1, <2>3
    <3>2. KeyOf(e, i) # KeyOf(e, done[e] + 1)
      BY <1>1, <3>1 DEF LastOf
    <3>3. LastOf(e, i, done[e])
      <4>1. \A j \in 1 .. done[e] : j \in 1 .. done'[e]
        BY <2>1
      <4> QED
        BY <1>1, <4>1 DEF LastOf
    <3>4. Holds(e, i) \/ \E d \in Client \ {e} : Begun(d, KeyOf(e, i))
      BY <1>2, <3>1, <3>3 DEF StoredSoFar
    <3>5. KeyOf(e, i) \in Key
      <4>1. HandlerOf(e)
        BY <1>2 DEF HandlerInv
      <4> QED
        BY <2>1, <3>1, <4>1 DEF HandlerOf
    <3> QED
      BY <1>1, <1>3, <2>1, <3>2, <3>4, <3>5 DEF Holds
  <2> QED
    BY <2>2, <2>3
<1> QED
  BY <1>4, <1>5, <1>6, Onwards

LEMMA OkHolds == HandlerInv /\ StoredSoFar => OkStored
<1> SUFFICES ASSUME HandlerInv, StoredSoFar, NEW c \in Posters \ (gone \cup troubled),
                    response[c] = "ok", NEW i \in DOMAIN Pairs(c), Last(c, i)
             PROVE  Holds(c, i) \/ \E d \in Client \ {c} : Begun(d, KeyOf(c, i))
  BY DEF OkStored
<1>1. HandlerOf(c) /\ c \in Posters
  BY DEF HandlerInv, Posters
<1>2. done[c] = Len(Pairs(c)) /\ DOMAIN Pairs(c) = 1 .. done[c]
  BY <1>1 DEF HandlerOf
<1>3. LastOf(c, i, done[c])
  BY <1>2 DEF Last, LastOf
<1> QED
  BY <1>2, <1>3 DEF StoredSoFar

(* In each of the three servers a client that stays to hear OK has every   *)
(* value of its request in the store, but for a key that another POST has  *)
(* as well: what is answered is answered behind the last store             *)
(* (webserver_fork.c:133-201).                                             *)
THEOREM OkMeansStored == Spec => []OkStored
<1>1. Init => StoredSoFar
  BY DEF Init, StoredSoFar, Posters
<1> QED
  BY <1>1, HandlersHold, StepStored, OkHolds, PTL DEF Spec

-----------------------------------------------------------------------------
(* One after the other. *)

Running(c) == pc[c] \notin {"none", "event", "ended"}

LEMMA StepOne ==
  ASSUME HandlerInv, SerialInv, [Next]_vars, Serial'
  PROVE  OneAtATime'
<1>0. Types /\ Serial /\ OneAtATime
  <2>1. Serial
    BY Onwards DEF Serial
  <2> QED
    BY <2>1 DEF HandlerInv, SerialInv
<1> SUFFICES ASSUME NEW d \in Client, Running(d)' PROVE busy' = d
  BY DEF OneAtATime, Running
<1>1. ASSUME Running(d), UNCHANGED busy PROVE busy' = d
  BY <1>0, <1>1 DEF OneAtATime, Running
<1>2. ASSUME NEW c \in Client, Task(c) PROVE busy' = d
  <2>1. Handle(c) \/ Detach(c)
    BY <1>2 DEF Task, ForkTask, ThreadTask, EventTask
  <2>2. Running(c) /\ UNCHANGED busy
        /\ (UNCHANGED pc \/ \E label : pc' = [pc EXCEPT ![c] = label])
    BY <2>1 DEF Handle, Connect, ConnectFails, Detach, ReadRequest, StorePair, PostDone, Get,
                Answer, Goto, mainVars, Running
  <2>3. Running(d)
    BY <1>0, <2>2 DEF Types, Running
  <2> QED
    BY <1>1, <2>2, <2>3
<1>3. ASSUME NEW c \in Client, ThreadAccept(c) PROVE busy' = d
  <2>1. busy = NoClient /\ pc' = [pc EXCEPT ![c] = "start"] /\ busy' = c
    BY <1>3 DEF ThreadAccept, Take
  <2>2. ~Running(d)
    BY <1>0, <2>1, WebServersAssumption DEF OneAtATime, Running
  <2> QED
    BY <1>0, <2>1, <2>2 DEF Types, Running
<1>4. ASSUME NEW c \in Client, EventAccept(c) PROVE busy' = d
  <2>1. UNCHANGED busy /\ pc' = [pc EXCEPT ![c] = "event"]
    BY <1>4 DEF EventAccept, Take
  <2>2. Running(d)
    BY <1>0, <2>1 DEF Types, Running
  <2> QED
    BY <1>1, <2>1, <2>2
<1>5. ASSUME NEW c \in Client, ForkAccept(c) PROVE FALSE
  BY <1>0, <1>5 DEF ForkAccept, Serial
<1>6. ASSUME NEW c \in Client, Join(c) PROVE busy' = d
  <2>1. detached = {} /\ UNCHANGED pc
    BY <1>0, <1>6 DEF Join, Serial, handlerVars
  <2>2. UNCHANGED busy
    BY <1>6, <2>1 DEF Join
  <2> QED
    BY <1>1, <2>1, <2>2 DEF Running
<1>7. ASSUME Resume PROVE busy' = d
  <2>1. UNCHANGED pc /\ pc[busy] = "ended"
    BY <1>7 DEF Resume, handlerVars, Finished
  <2>2. busy = d
    BY <1>0, <2>1 DEF OneAtATime, Running
  <2> QED
    BY <2>1, <2>2 DEF Running
<1>8. ASSUME NEW c \in Client, Dispatch(c) PROVE busy' = d
  <2>1. busy = NoClient /\ pc' = [pc EXCEPT ![c] = "start"] /\ busy' = c
    BY <1>8 DEF Dispatch
  <2>2. ~Running(d)
    BY <1>0, <2>1, WebServersAssumption DEF OneAtATime, Running
  <2> QED
    BY <1>0, <2>1, <2>2 DEF Types, Running
<1>9. CASE AcceptFails \/ UNCHANGED vars \/ \E c \in Client : Send(c) \/ Leave(c)
  BY <1>1, <1>9 DEF AcceptFails, Send, Leave, vars, handlerVars, mainVars, Running
<1> QED
  BY <1>2, <1>3, <1>4, <1>5, <1>6, <1>7, <1>8, <1>9
     DEF Next, Main, ForkMain, ThreadMain, EventMain

(* Where no POST is stored or answered, what is stored stays settled. *)
LEMMA ApartKept ==
  ASSUME Apart, UNCHANGED <<request, store, done>>,
         \A d \in Client : pc'[d] = "post" => pc[d] = "post" \/ done[d] = 0,
         \A d \in Client : pc[d] = "post" /\ done[d] # 0 => pc'[d] = "post"
  PROVE  Apart'
<1>1. Posters' = Posters /\ (\A d : Pairs(d)' = Pairs(d))
      /\ (\A d, i : KeyOf(d, i)' = KeyOf(d, i) /\ ValueOf(d, i)' = ValueOf(d, i))
  BY SameRequest
<1>2. \A d, i : /\ \A n : LastOf(d, i, n)' <=> LastOf(d, i, n)
                /\ Last(d, i)' <=> Last(d, i)
                /\ Holds(d, i)' <=> Holds(d, i)
  BY <1>1 DEF LastOf, Last, Holds
<1>3. ASSUME NEW d \in Client, pc'[d] = "post", NEW i \in 1 .. done'[d], LastOf(d, i, done[d])'
      PROVE  Holds(d, i)'
  <2>1. pc[d] = "post"
    <3>1. 1 .. done'[d] # {} => done[d] # 0
      OBVIOUS
    <3> QED
      BY <1>3, <3>1
  <2> QED
    BY <1>2, <1>3, <2>1 DEF Apart
<1>4. ASSUME \A d \in Client : pc'[d] = "post" => done'[d] = 0 PROVE Settled'
  <2>1. Settled
    BY <1>4 DEF Apart
  <2>2. Key' = Key
    BY DEF Key
  <2> QED
    BY <1>1, <1>2, <2>1, <2>2 DEF Settled, Fresh
<1> QED
  BY <1>3, <1>4 DEF Apart

(* The handler stores a pair: no other one has anything of a POST in its   *)
(* hands.                                                                  *)
LEMMA StoreApart ==
  ASSUME HandlerInv, OneAtATime, Apart, Clear', NEW c \in Client, StorePair(c), [Next]_vars
  PROVE  Apart'
<1>0. Types /\ UNCHANGED <<request, gone, pc>> /\ pc[c] = "post"
  BY DEF HandlerInv, StorePair, clientVars
<1>1. Posters' = Posters /\ (\A d : Pairs(d)' = Pairs(d))
      /\ (\A d, i : KeyOf(d, i)' = KeyOf(d, i) /\ ValueOf(d, i)' = ValueOf(d, i))
  BY <1>0, SameRequest
<1>2. c \in Posters /\ c \notin gone /\ c \notin gone \cup troubled'
  BY <1>0, <1>1, OneMore DEF Clear
<1>3. /\ done[c] + 1 \in DOMAIN Pairs(c) /\ done[c] \in Nat /\ done'[c] = done[c] + 1
      /\ \A k \in Key \ {KeyOf(c, done[c] + 1)} : store'[k] = store[k]
      /\ store'[KeyOf(c, done[c] + 1)] = ValueOf(c, done[c] + 1)
  BY <1>2, OneMore
<1>4. ASSUME NEW d \in Client, pc'[d] = "post" PROVE d = c
  BY <1>0, <1>4 DEF OneAtATime
<1>5. ASSUME NEW i \in 1 .. done'[c], LastOf(c, i, done[c])' PROVE Holds(c, i)'
  <2>1. CASE i = done[c] + 1
    BY <1>1, <1>3, <2>1 DEF Holds
  <2>2. CASE i # done[c] + 1
    <3>1. i \in 1 .. done[c] /\ done[c] + 1 > i /\ done[c] + 1 \in 1 .. done'[c]
      BY <1>3, <2>2
    <3>2. KeyOf(c, i) # KeyOf(c, done[c] + 1)
      BY <1>1, <1>5, <3>1 DEF LastOf
    <3>3. \A j \in 1 .. done[c] : j \in 1 .. done'[c]
      BY <1>3
    <3>4. LastOf(c, i, done[c])
      BY <1>1, <1>5, <3>3 DEF LastOf
    <3>5. Holds(c, i)
      BY <1>0, <3>1, <3>4 DEF Apart
    <3>6. KeyOf(c, i) \in Key
      <4>1. HandlerOf(c)
        BY DEF HandlerInv
      <4> QED
        BY <1>3, <3>1, <4>1 DEF HandlerOf
    <3> QED
      BY <1>1, <1>3, <3>2, <3>5, <3>6 DEF Holds
  <2> QED
    BY <2>1, <2>2
<1>6. ~\A d \in Client : pc'[d] = "post" => done'[d] = 0
  <2>1. done'[c] # 0 /\ pc'[c] = "post"
    BY <1>0, <1>3
  <2> QED
    BY <2>1
<1> QED
  BY <1>4, <1>5, <1>6 DEF Apart

(* The handler is done with its POST: it is the one the store now holds.   *)
LEMMA DoneApart ==
  ASSUME HandlerInv, OneAtATime, Apart, Clear', NEW c \in Client, PostDone(c)
  PROVE  Apart'
<1>0. Types /\ UNCHANGED <<request, gone, store, done>> /\ pc[c] = "post" /\ HandlerOf(c)
  BY DEF HandlerInv, PostDone, clientVars, redisVars
<1>1. Posters' = Posters /\ (\A d : Pairs(d)' = Pairs(d))
      /\ (\A d, i : KeyOf(d, i)' = KeyOf(d, i) /\ ValueOf(d, i)' = ValueOf(d, i))
  BY <1>0, SameRequest
<1>2. c \in Posters /\ c \notin gone /\ Pairs(c) # <<>>
  BY <1>0, <1>1 DEF Clear, HandlerOf
<1>3. done[c] = Len(Pairs(c)) /\ DOMAIN Pairs(c) = 1 .. done[c]
  BY <1>0, <1>2 DEF PostDone, BodyRead, HandlerOf
<1>4. ASSUME NEW d \in Client, pc'[d] = "post" PROVE FALSE
  <2>1. pc' = [pc EXCEPT ![c] = "ended"]
    BY DEF PostDone, Answer, Goto
  <2>2. d # c /\ pc[d] = "post"
    BY <1>0, <1>4, <2>1 DEF Types
  <2> QED
    BY <1>0, <2>2 DEF OneAtATime
<1>5. ASSUME NEW i \in DOMAIN Pairs(c)', Last(c, i)' PROVE Holds(c, i)'
  <2>1. LastOf(c, i, done[c]) /\ i \in 1 .. done[c]
    BY <1>1, <1>3, <1>5 DEF Last, LastOf
  <2>2. Holds(c, i)
    BY <1>0, <2>1 DEF Apart
  <2> QED
    BY <1>0, <1>1, <2>2 DEF Holds
<1>6. Settled'
  <2>1. c \in Posters' /\ Pairs(c)' # <<>>
    BY <1>1, <1>2
  <2> QED
    BY <1>5, <2>1 DEF Settled
<1> QED
  BY <1>4, <1>6 DEF Apart

LEMMA StepApart ==
  ASSUME HandlerInv, Untaken, OneAtATime, Apart, Clear', [Next]_vars
  PROVE  Apart'
<1>0. Types
  BY DEF HandlerInv
<1>1. CASE UNCHANGED pc /\ UNCHANGED <<store, done>>
  BY <1>1, ApartKept, Onwards
<1>2. ASSUME NEW c \in Client, NEW label, label # "post", pc[c] # "post",
             pc' = [pc EXCEPT ![c] = label], UNCHANGED <<store, done>>
      PROVE  Apart'
  BY <1>0, <1>2, ApartKept, Onwards DEF Types
<1>3. ASSUME NEW c \in Client, Task(c) PROVE Apart'
  <2>1. Handle(c) \/ Detach(c)
    BY <1>3 DEF Task, ForkTask, ThreadTask, EventTask
  <2>2. CASE Connect(c) \/ ConnectFails(c) \/ Detach(c) \/ Get(c)
    <3>1. pc[c] # "post" /\ UNCHANGED <<store, done>>
          /\ \E label : label # "post" /\ pc' = [pc EXCEPT ![c] = label]
      BY <2>2 DEF Connect, ConnectFails, Detach, Get, Answer, Goto, redisVars
    <3> QED
      BY <1>2, <3>1
  <2>3. CASE ReadRequest(c)
    <3>1. done[c] = 0 /\ pc[c] # "post"
      BY <2>3 DEF HandlerInv, HandlerOf, ReadRequest
    <3>2. UNCHANGED <<store, done>> /\ \E label : pc' = [pc EXCEPT ![c] = label]
      BY <2>3 DEF ReadRequest, Answer, Goto, redisVars
    <3> QED
      BY <1>0, <3>1, <3>2, ApartKept, Onwards DEF Types
  <2> QED
    BY <2>1, <2>2, <2>3, StoreApart, DoneApart DEF Handle
<1>4. ASSUME NEW c \in Client, NEW label \in {"start", "event"}, Take(c, label) PROVE Apart'
  <2>1. UNCHANGED <<store, done>> /\ pc' = [pc EXCEPT ![c] = label] /\ pc[c] # "post"
    BY <1>4 DEF Take, redisVars, Untaken
  <2> QED
    BY <1>2, <2>1
<1>5. ASSUME NEW c \in Client, Dispatch(c) PROVE Apart'
  <2>1. UNCHANGED <<store, done>> /\ pc' = [pc EXCEPT ![c] = "start"] /\ pc[c] # "post"
    BY <1>5 DEF Dispatch, redisVars
  <2> QED
    BY <1>2, <2>1
<1>6. CASE AcceptFails \/ Resume \/ UNCHANGED vars
           \/ \E c \in Client : Send(c) \/ Leave(c) \/ Join(c)
  BY <1>1, <1>6 DEF AcceptFails, Resume, Send, Leave, Join, vars, handlerVars, redisVars
<1> QED
  BY <1>3, <1>4, <1>5, <1>6
     DEF Next, Main, ForkMain, ThreadMain, EventMain, ForkAccept, ThreadAccept, EventAccept

LEMMA StepSerial == HandlerInv /\ Untaken /\ SerialInv /\ [Next]_vars => SerialInv'
<1> SUFFICES ASSUME HandlerInv, Untaken, SerialInv, [Next]_vars, Serial'
             PROVE  OneAtATime' /\ (Clear' => Apart')
  BY DEF SerialInv
<1>1. OneAtATime'
  BY StepOne
<1>2. ASSUME Clear' PROVE Apart'
  <2>1. /\ UNCHANGED <<request, kind>>
        /\ gone \subseteq gone' /\ troubled \subseteq troubled' /\ detached \subseteq detached'
    BY Onwards
  <2>2. Serial
    BY <2>1 DEF Serial
  <2>3. Posters' = Posters
    BY <2>1, SameRequest
  <2>4. Clear
    BY <1>2, <2>1, <2>3 DEF Clear
  <2> QED
    BY <1>2, <2>2, <2>4, StepApart DEF SerialInv
<1> QED
  BY <1>1, <1>2

LEMMA ApartHolds == SerialInv => PostsApart
<1> SUFFICES ASSUME SerialInv, Serial, Idle, Clear PROVE Settled
  BY DEF PostsApart, Clear, Settled
<1>1. \A c \in Client : pc[c] # "post"
  BY DEF Idle
<1> QED
  BY <1>1 DEF SerialInv, Apart

(* Where main() waits for each handler before it takes the next, two POSTs *)
(* never mix: with no handler at work the store is that of the start or    *)
(* holds all values of one POST (webserver_libevent.c:94,                  *)
(* webserver_thread.c:104,123).                                            *)
THEOREM OneAfterTheOther == Spec => []PostsApart
<1>1. Init => SerialInv
  BY DEF Init, SerialInv, OneAtATime, Apart, Settled, Fresh
<1> QED
  BY <1>1, HandlersHold, StepSerial, ApartHolds, PTL DEF Spec

=============================================================================

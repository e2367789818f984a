-------------------------- MODULE RedisPoolProofs --------------------------
(***************************************************************************)
(* For any number of task threads, of connections each (two at least),     *)
(* of requests and of bytes of a value, with no value sent in pieces:      *)
(* connections to Redis stay in step with the threads that use them, and   *)
(* each client gets the answer to its own request.                         *)
(***************************************************************************)
EXTENDS RedisPool, SequenceTheorems, WellFoundedInduction, TLAPS

Cmd == {"get", "own", "any"}
Label == {"idle", "look", "claim", "send", "wait", "free", "respond"}
Conns == [working : {-1, 0, 1}, result : {-1, 0, 1}, length : -1 .. ValueLen,
          sock : Worker \cup {-1}, reading : BOOLEAN, input : Seq(Piece)]

-----------------------------------------------------------------------------
(* What holds of every thread, whatever was lost. *)
Holding(w) == pc[w] \in {"claim", "send", "wait", "free"}
Busy(w) == Holding(w) \/ pc[w] = "look"

ThreadTypes(w) ==
  /\ Busy(w) => request[w] # <<>>
  /\ pc[w] # "idle" => served[w] < MaxRequests
  /\ Holding(w) => held[w] \in Conn

PoolTypes == TypeOK /\ \A w \in Worker : ThreadTypes(w)

(* No value comes in pieces: a request is a GET or one APPEND after the    *)
(* other, on the connections of the thread.                                *)
WholeOnly ==
  /\ PerThread >= 2
  /\ \A r \in Requests : r = <<"get">> \/ r \in Seq({"own"})

Asked(r) == r = <<"get">> \/ (r \in Seq({"own"}) /\ r # <<>>)

OfThread(s, w) == \A i \in DOMAIN s : s[i].of[1] = w

Carries(c, w) ==
  /\ redis[c].sock \in {-1, w}
  /\ OfThread(wire[c], w) /\ OfThread(reply[c], w) /\ OfThread(redis[c].input, w)

Apart(w) ==
  /\ held[w] \in Own(w) \cup {NoConn} /\ halfway[w] \in Own(w) \cup {NoConn}
  /\ Busy(w) => Asked(request[w])
  /\ pc[w] = "claim" => redis[held[w]].working = -1
  /\ \A c \in Own(w) : Carries(c, w)

OwnInv == \A w \in Worker : Apart(w)

-----------------------------------------------------------------------------
(* A thread that has lost no connection. *)

Empty(c) == wire[c] = <<>> /\ reply[c] = <<>> /\ redis[c].input = <<>>
IdleConn(c) == Empty(c) /\ redis[c].working = -1 /\ redis[c].result = -1

(* Where the next search begins. *)
Mine(w) == shift[w] + w * PerThread

From(w, part) == [of |-> Me(w), part |-> part]

(* What the client has when the command is done, but for the OK. *)
Result(w) == IF Head(request[w]) = "get" THEN ItsValue(w) ELSE out[w] = <<>>

AtRedis(w, c) ==
  /\ wire[c] = <<[of |-> Me(w), cmd |-> Head(request[w])]>>
  /\ reply[c] = <<>> /\ redis[c].working = 0

(* The bytes of the value and its end, or as many of them as are left. *)
Rest(w, s, n) ==
  /\ Len(s) = n + 1 /\ s[n + 1] = From(w, "end")
  /\ \A i \in 1 .. n : s[i] = From(w, "byte")

Coming(w, c) ==
  /\ wire[c] = <<>> /\ redis[c].working = 0
  /\ IF Head(request[w]) = "get"
     THEN \/ reply[c] = <<From(w, "nil")>>
          \/ reply[c] # <<>> /\ Head(reply[c]) = From(w, "value")
             /\ Rest(w, Tail(reply[c]), ValueLen)
     ELSE reply[c] = <<From(w, "count")>>

(* The length of the value and its bytes but for the last n. *)
Begun(w, s, n) ==
  /\ s \in Seq(Piece) /\ s # <<>> /\ Head(s) = From(w, "value")
  /\ Len(s) = 1 + ValueLen - n /\ \A i \in 2 .. Len(s) : s[i] = From(w, "byte")

Flowing(w, c) ==
  /\ wire[c] = <<>> /\ redis[c].working = 1 /\ Head(request[w]) = "get"
  /\ redis[c].length \in 0 .. ValueLen /\ Rest(w, reply[c], redis[c].length)
  /\ Begun(w, out[w], redis[c].length)

Waits(w, c) ==
  \/ /\ redis[c].result = -1 /\ redis[c].input = <<>>
     /\ halfway[w] # c
     /\ \/ (AtRedis(w, c) \/ Coming(w, c)) /\ out[w] = <<>>
        \/ Flowing(w, c)
  \/ redis[c].result = 1 /\ Empty(c) /\ Result(w) /\ halfway[w] \in {c, NoConn}
  \/ /\ redis[c].result = 0 /\ redis[c].working = 0 /\ Empty(c)
     /\ out[w] = <<>> /\ halfway[w] = NoConn

Uphold(w) ==
  CASE pc[w] \in {"idle", "look"} -> out[w] = <<>> /\ halfway[w] # Mine(w)
    [] pc[w] = "respond" -> halfway[w] # Mine(w)
         /\ (out[w] = <<From(w, "error")>> \/ out[w] = <<From(w, "OK")>> \/ ItsValue(w))
    [] pc[w] = "claim" -> held[w] = Mine(w) /\ halfway[w] # held[w] /\ out[w] = <<>>
    [] pc[w] = "send" ->
         /\ Empty(held[w]) /\ redis[held[w]].working = 0 /\ redis[held[w]].result = -1
         /\ halfway[w] # held[w] /\ out[w] = <<>>
    [] pc[w] = "wait" -> Waits(w, held[w])
    [] pc[w] = "free" ->
         /\ Empty(held[w]) /\ redis[held[w]].result = -1
         /\ halfway[w] \in {held[w], NoConn} /\ Result(w)

Good(w) ==
  /\ \A c \in Own(w) : Uses(w, c) \/ IdleConn(c)
  /\ pc[w] = "look" => scan[w] = 0
  /\ pc[w] \in {"send", "wait", "free"} => held[w] # Mine(w) /\ redis[held[w]].sock = w
  /\ Uphold(w)

(* A connection that is lost for good, with nothing more to come on it. *)
Gone(w) ==
  \E c \in Own(w) : /\ redis[c].working = 0 /\ redis[c].result = 0 /\ ~Uses(w, c)
                    /\ Empty(c) /\ halfway[w] # c

StepInv == \A w \in Worker : Gone(w) \/ Good(w)

-----------------------------------------------------------------------------
(* The connections of a thread, by number. *)

LEMMA Product ==
  ASSUME NEW a \in Nat, NEW b \in Nat, a < b, NEW p \in Nat
  PROVE  a * p + p <= b * p
<1>1. b * p = (a + 1) * p + (b - (a + 1)) * p
  OBVIOUS
<1>2. b - (a + 1) \in Nat
  OBVIOUS
<1>3. (b - (a + 1)) * p \in Nat
  BY <1>2
<1>4. (a + 1) * p = a * p + p
  OBVIOUS
<1>5. a * p \in Nat /\ b * p \in Nat
  OBVIOUS
<1> QED
  BY <1>1, <1>3, <1>4, <1>5

LEMMA Division ==
  ASSUME NEW p \in Nat \ {0}, NEW w \in Nat, NEW s \in 0 .. p - 1
  PROVE  (s + w * p) \div p = w
<1> PICK q \in Int : q = (s + w * p) \div p
  OBVIOUS
<1>1. w * p \in Nat
  OBVIOUS
<1>2. p * q <= s + w * p /\ s + w * p < p * q + p
  OBVIOUS
<1> QED
  BY <1>1, <1>2

LEMMA OwnConn ==
  ASSUME NEW w \in Worker, NEW s \in 0 .. PerThread - 1
  PROVE  s + w * PerThread \in Own(w)
<1>1. PerThread \in Nat \ {0} /\ N \in Nat \ {0} /\ w \in Nat /\ w < N
  BY RedisPoolAssumption DEF Worker
<1>2. w * PerThread + PerThread <= N * PerThread
  BY <1>1, Product
<1>3. w * PerThread \in Nat /\ N * PerThread \in Nat
  BY <1>1
<1>4. s + w * PerThread \in Conn
  BY <1>1, <1>2, <1>3 DEF Conn
<1>5. RedisThread(s + w * PerThread) = w
  BY <1>1, Division DEF RedisThread
<1> QED
  BY <1>4, <1>5 DEF Own

LEMMA ThreadOfConn ==
  ASSUME NEW c \in Conn
  PROVE  RedisThread(c) \in Worker /\ c \in Own(RedisThread(c)) /\ c \in Nat
<1>1. PerThread \in Nat \ {0} /\ N \in Nat \ {0}
  BY RedisPoolAssumption
<1>2. N * PerThread \in Nat
  BY <1>1
<1>3. c \in Nat /\ c < N * PerThread
  BY <1>2 DEF Conn
<1> PICK q \in Int : q = c \div PerThread
  BY <1>1, <1>3
<1>4. PerThread * q <= c /\ c < PerThread * q + PerThread
  BY <1>1, <1>3
<1>5. q \in Nat
  BY <1>1, <1>3, <1>4
<1>6. q < N
  <2> SUFFICES ASSUME N <= q PROVE FALSE
    BY <1>1, <1>5
  <2>1. CASE N = q
    BY <1>1, <1>3, <1>4, <2>1
  <2>2. CASE N # q
    <3>1. N * PerThread + PerThread <= q * PerThread
      BY <1>1, <1>5, <2>2, Product
    <3> QED
      BY <1>1, <1>2, <1>3, <1>4, <1>5, <3>1
  <2> QED
    BY <2>1, <2>2
<1> QED
  BY <1>1, <1>3, <1>5, <1>6 DEF RedisThread, Own, Worker

LEMMA NextShift ==
  ASSUME NEW s \in 0 .. PerThread - 1
  PROVE  /\ (s + 1) % PerThread \in 0 .. PerThread - 1
         /\ PerThread >= 2 => (s + 1) % PerThread # s
<1>1. PerThread \in Nat \ {0}
  BY RedisPoolAssumption
<1>2. CASE s + 1 = PerThread
  BY <1>1, <1>2
<1>3. CASE s + 1 # PerThread
  BY <1>1, <1>3
<1> QED
  BY <1>2, <1>3

-----------------------------------------------------------------------------
(* What the callback of a Redis thread does with any input. *)

LEMMA Smallest ==
  ASSUME NEW T \in SUBSET Nat, T # {}
  PROVE  \E x \in T : \A y \in T : x <= y
<1> DEFINE R == OpToRel(<, Nat)
<1>1. IsWellFoundedOn(R, Nat)
  BY NatLessThanWellFounded
<1>2. \A x, y \in Nat : y < x => <<y, x>> \in R
  BY DEF OpToRel
<1> HIDE DEF R
<1>3. PICK x \in T : \A y \in T : ~(<<y, x>> \in R)
  BY <1>1, WFMin
<1>4. ASSUME NEW y \in T PROVE x <= y
  <2>1. x \in Nat /\ y \in Nat
    OBVIOUS
  <2>2. ~(y < x)
    BY <1>2, <1>3, <2>1
  <2> QED
    BY <2>1, <2>2
<1> QED
  BY <1>4

(* Pieces of t are pieces of s. *)
Within(t, s) == \A i \in DOMAIN t : \E j \in DOMAIN s : t[i] = s[j]

LEMMA SubSeqWithin ==
  ASSUME NEW s \in Seq(Piece), NEW m \in Nat \ {0}, NEW n \in 0 .. Len(s)
  PROVE  SubSeq(s, m, n) \in Seq(Piece) /\ Within(SubSeq(s, m, n), s)
<1>1. DOMAIN s = 1 .. Len(s) /\ Len(s) \in Nat
  BY LenProperties
<1>2. \A i \in m .. n : i \in DOMAIN s /\ s[i] \in Piece
  BY <1>1, ElementOfSeq
<1> DEFINE t == SubSeq(s, m, n)
<1>3. /\ t \in Seq(Piece)
      /\ Len(t) = IF m <= n THEN n - m + 1 ELSE 0
      /\ \A i \in 1 .. n - m + 1 : t[i] = s[m + i - 1]
  BY <1>2, SubSeqProperties, m \in Int, n \in Int
<1>4. DOMAIN t = 1 .. Len(t)
  BY <1>3, LenProperties
<1> HIDE DEF t
<1>5. ASSUME NEW i \in DOMAIN t PROVE m + i - 1 \in DOMAIN s /\ t[i] = s[m + i - 1]
  BY <1>1, <1>3, <1>4
<1> QED
  BY <1>3, <1>5 DEF t, Within

LEMMA AfterLineWithin ==
  ASSUME NEW s \in Seq(Piece), Lines(s) # {}
  PROVE  AfterLine(s) \in Seq(Piece) /\ Within(AfterLine(s), s)
<1>1. DOMAIN s = 1 .. Len(s) /\ Len(s) \in Nat
  BY LenProperties
<1>2. Lines(s) \in SUBSET Nat
  BY <1>1 DEF Lines
<1>3. \E i \in Lines(s) : \A j \in Lines(s) : i <= j
  BY <1>2, Smallest
<1> DEFINE i == CHOOSE x \in Lines(s) : \A j \in Lines(s) : x <= j
<1>4. i \in Lines(s)
  BY <1>3
<1>5. i + 1 \in Nat \ {0}
  BY <1>2, <1>4
<1> HIDE DEF i
<1>6. SubSeq(s, i + 1, Len(s)) \in Seq(Piece) /\ Within(SubSeq(s, i + 1, Len(s)), s)
  BY <1>1, <1>5, SubSeqWithin
<1> QED
  BY <1>6 DEF AfterLine, i

(* When the first piece is a line, it is what is removed. *)
LEMMA AfterFirst ==
  ASSUME NEW s \in Seq(Piece), s # <<>>, Head(s).part # "byte"
  PROVE  Lines(s) # {} /\ AfterLine(s) = SubSeq(s, 2, Len(s))
<1>1. DOMAIN s = 1 .. Len(s) /\ Len(s) \in Nat \ {0} /\ Head(s) = s[1]
  BY LenProperties, EmptySeq
<1>2. 1 \in Lines(s) /\ \A j \in Lines(s) : j \in Nat /\ 1 <= j
  BY <1>1 DEF Lines
<1> DEFINE i == CHOOSE x \in Lines(s) : \A j \in Lines(s) : x <= j
<1>3. i \in Lines(s) /\ \A j \in Lines(s) : i <= j
  BY <1>2
<1>4. i = 1
  BY <1>2, <1>3
<1>5. AfterLine(s) = SubSeq(s, i + 1, Len(s))
  BY DEF AfterLine
<1> HIDE DEF i
<1> QED
  BY <1>2, <1>4, <1>5

LEMMA BodyTypes ==
  ASSUME NEW r \in Conns, r.working = 1
  PROVE  /\ Body(r) \in Conns /\ Body(r).input = <<>> /\ Body(r).sock = r.sock
         /\ BodyWritten(r) \in Seq(Piece)
<1>1. ValueLen \in Nat \ {0}
  BY RedisPoolAssumption
<1>2. r.input \in Seq(Piece) /\ Len(r.input) \in Nat /\ r.length \in -1 .. ValueLen
  BY LenProperties DEF Conns
<1>3. <<>> \in Seq(Piece)
  BY EmptySeq
<1>4. BodyWritten(r) \in Seq(Piece)
  <2>1. CASE Len(r.input) <= r.length
    BY <1>2, <2>1 DEF BodyWritten
  <2>2. CASE ~(Len(r.input) <= r.length) /\ r.length >= 0
    <3>1. r.length \in 0 .. Len(r.input)
      BY <1>1, <1>2, <2>2
    <3> QED
      BY <1>2, <2>2, <3>1, SubSeqWithin, 1 \in Nat \ {0} DEF BodyWritten
  <2>3. CASE ~(Len(r.input) <= r.length) /\ ~(r.length >= 0)
    <3>1. SubSeq(r.input, 1, r.length) = <<>>
      BY <1>1, <1>2, <2>3, SubSeqEmpty
    <3> QED
      BY <1>3, <2>3, <3>1 DEF BodyWritten
  <2> QED
    BY <2>1, <2>2, <2>3
<1>5. CASE Len(r.input) <= r.length
  <2>1. r.length - Len(r.input) \in -1 .. ValueLen
    BY <1>1, <1>2, <1>5
  <2> DEFINE n == IF r.length = 0 THEN -1 ELSE r.length - Len(r.input)
  <2> DEFINE q == IF r.length = 0 THEN 1 ELSE r.result
  <2>2. Body(r) = [r EXCEPT !.input = <<>>, !.length = n, !.result = q]
    BY <1>5 DEF Body
  <2>3. n \in -1 .. ValueLen /\ q \in {-1, 0, 1}
    BY <1>1, <2>1 DEF Conns
  <2> HIDE DEF n, q
  <2> QED
    BY <1>3, <1>4, <2>2, <2>3 DEF Conns
<1>6. CASE ~(Len(r.input) <= r.length)
  <2>1. Body(r) = [r EXCEPT !.input = <<>>, !.length = -1, !.result = 1]
    BY <1>6 DEF Body
  <2>2. -1 \in -1 .. ValueLen
    BY <1>1
  <2> QED
    BY <1>3, <1>4, <2>1, <2>2 DEF Conns
<1> QED
  BY <1>5, <1>6

LEMMA CallTypes ==
  ASSUME NEW r \in Conns, r.working = 0 => Lines(r.input) # {}
  PROVE  /\ Called(r) \in Conns /\ Called(r).sock = r.sock
         /\ Within(Called(r).input, r.input)
         /\ r.working = -1 => Called(r) = r
         /\ Written(r) \in Seq(Piece)
<1>1. ValueLen \in Nat \ {0}
  BY RedisPoolAssumption
<1>2. r.input \in Seq(Piece) /\ r.working \in {-1, 0, 1}
  BY DEF Conns
<1>3. <<>> \in Seq(Piece) /\ Within(<<>>, r.input)
  BY EmptySeq DEF Within
<1>4. -1 \in -1 .. ValueLen /\ ValueLen \in -1 .. ValueLen
  BY <1>1
<1>5. CASE r.working = 0
  <2> DEFINE rest == AfterLine(r.input)
  <2>1. rest \in Seq(Piece) /\ Within(rest, r.input)
    BY <1>2, <1>5, AfterLineWithin
  <2>2. r.input # <<>>
    BY <1>5 DEF Lines
  <2>3. Head(r.input) \in Piece
    BY <1>2, <2>2, HeadTailProperties
  <2> HIDE DEF rest
  <2>4. CASE Starts(r, "count")
    <3>1. Called(r) = [r EXCEPT !.input = rest, !.result = 1] /\ Written(r) = <<>>
      BY <1>5, <2>4 DEF Called, Written, Starts, rest
    <3>2. Called(r) \in Conns /\ Called(r).sock = r.sock /\ Called(r).input = rest
      BY <2>1, <3>1 DEF Conns
    <3> QED
      BY <1>3, <1>5, <2>1, <3>1, <3>2
  <2>5. CASE Starts(r, "nil")
    <3>1. /\ Called(r) = [r EXCEPT !.input = rest, !.result = 0, !.length = -1]
          /\ Written(r) = <<>>
      BY <1>5, <2>5 DEF Called, Written, Starts, rest
    <3>2. Called(r) \in Conns /\ Called(r).sock = r.sock /\ Called(r).input = rest
      BY <1>4, <2>1, <3>1 DEF Conns
    <3> QED
      BY <1>3, <1>5, <2>1, <3>1, <3>2
  <2>6. CASE Starts(r, "value")
    <3>1. Header(r) = [r EXCEPT !.input = rest, !.length = ValueLen, !.working = 1]
      BY DEF Header, rest
    <3>2. Header(r) \in Conns /\ Header(r).working = 1 /\ Header(r).sock = r.sock
      BY <1>4, <2>1, <3>1 DEF Conns
    <3>3. /\ Body(Header(r)) \in Conns /\ Body(Header(r)).input = <<>>
          /\ Body(Header(r)).sock = r.sock
          /\ BodyWritten(Header(r)) \in Seq(Piece)
      BY <3>2, BodyTypes
    <3>4. /\ Called(r) = Body(Header(r))
          /\ Written(r) = <<Head(r.input)>> \o BodyWritten(Header(r))
      BY <1>5, <2>6 DEF Called, Written, Starts
    <3>5. <<Head(r.input)>> \in Seq(Piece)
      BY <2>3
    <3>6. Written(r) \in Seq(Piece)
      BY <3>3, <3>4, <3>5, ConcatProperties
    <3> QED
      BY <1>3, <1>5, <3>3, <3>4, <3>6
  <2>7. CASE ~Starts(r, "count") /\ ~Starts(r, "nil") /\ ~Starts(r, "value")
    <3>1. Called(r) = [r EXCEPT !.input = rest] /\ Written(r) = <<>>
      BY <1>5, <2>7 DEF Called, Written, rest
    <3> QED
      BY <1>3, <1>5, <2>1, <3>1 DEF Conns
  <2> QED
    BY <2>4, <2>5, <2>6, <2>7
<1>6. CASE r.working = 1
  <2>1. Called(r) = Body(r) /\ Written(r) = BodyWritten(r)
    BY <1>6 DEF Called, Written, Starts
  <2>2. /\ Body(r) \in Conns /\ Body(r).input = <<>> /\ Body(r).sock = r.sock
        /\ BodyWritten(r) \in Seq(Piece)
    BY <1>6, BodyTypes
  <2>3. Within(Called(r).input, r.input)
    BY <1>3, <2>1, <2>2
  <2> QED
    BY <1>6, <2>1, <2>2, <2>3
<1>7. CASE r.working = -1
  <2>1. Called(r) = r /\ Written(r) = <<>>
    BY <1>7 DEF Called, Written, Starts
  <2>2. Within(r.input, r.input)
    BY DEF Within
  <2> QED
    BY <1>3, <1>7, <2>1, <2>2
<1> QED
  BY <1>2, <1>5, <1>6, <1>7

-----------------------------------------------------------------------------
(* Types.                                                                  *)

LEMMA Numbers ==
  /\ 0 \in Worker /\ 0 \in Conn /\ 0 \in 0 .. PerThread - 1 /\ NoConn \notin Conn
  /\ N * PerThread \in Nat \ {0} /\ PerThread <= N * PerThread
  /\ \A w \in Worker : Own(w) \subseteq Conn
<1>1. PerThread \in Nat \ {0} /\ N \in Nat \ {0}
  BY RedisPoolAssumption
<1>2. 0 * PerThread + PerThread <= N * PerThread
  BY <1>1, Product
<1>3. N * PerThread \in Nat
  BY <1>1
<1> QED
  BY <1>1, <1>2, <1>3 DEF Worker, Conn, NoConn, Own

LEMMA Choices ==
  ASSUME NEW w \in Worker, TypeOK, request[w] # <<>>
  PROVE  /\ Head(request[w]) \in Cmd /\ Tail(request[w]) \in Seq(Cmd)
         /\ Candidate(w) \in Conn
         /\ (scan[w] + 1) % Candidates(w) \in Conn
         /\ Shifted(w) \in 0 .. PerThread - 1
<1>1. PerThread \in Nat \ {0} /\ N \in Nat \ {0} /\ w \in Nat
  BY RedisPoolAssumption DEF Worker
<1>2. N * PerThread \in Nat \ {0} /\ PerThread <= N * PerThread
  BY Numbers
<1>3. /\ scan[w] \in Conn /\ scan[w] \in Nat
      /\ shift[w] \in 0 .. PerThread - 1 /\ request[w] \in Seq(Cmd)
  BY <1>2 DEF TypeOK, Conn, Cmd
<1>4. Head(request[w]) \in Cmd /\ Tail(request[w]) \in Seq(Cmd)
  BY <1>3, HeadTailProperties
<1>5. Candidate(w) \in Conn
  <2>1. scan[w] + shift[w] \in Nat
    BY <1>1, <1>3
  <2> DEFINE n == (scan[w] + shift[w]) % PerThread
  <2>2. n \in 0 .. PerThread - 1
    BY <1>1, <2>1
  <2> HIDE DEF n
  <2>3. n + w * PerThread \in Conn
    BY <2>2, OwnConn, Numbers
  <2> QED
    BY <1>3, <2>3 DEF Candidate, n
<1>6. (scan[w] + 1) % Candidates(w) \in Conn
  <2>1. Candidates(w) \in Nat \ {0} /\ Candidates(w) <= N * PerThread
    BY <1>1, <1>2 DEF Candidates
  <2> DEFINE n == (scan[w] + 1) % Candidates(w)
  <2>2. n \in 0 .. Candidates(w) - 1
    BY <1>3, <2>1
  <2> HIDE DEF n
  <2> QED
    BY <1>2, <2>1, <2>2 DEF Conn, n
<1>7. Shifted(w) \in 0 .. PerThread - 1
  BY <1>3, NextShift DEF Shifted
<1> QED
  BY <1>4, <1>5, <1>6, <1>7

LEMMA TypesInit == Init => PoolTypes
<1> SUFFICES ASSUME Init PROVE PoolTypes
  OBVIOUS
<1>1. /\ <<>> \in Seq(Cmd) /\ <<>> \in Seq(Piece)
      /\ <<>> \in Seq([of : Id, cmd : Cmd])
  BY EmptySeq
<1>2. MaxRequests \in Nat /\ ValueLen \in Nat \ {0}
  BY RedisPoolAssumption
<1>3. -1 \in -1 .. ValueLen /\ 0 \in 0 .. MaxRequests
  BY <1>2
<1> QED
  BY <1>1, <1>3, Numbers DEF Init, PoolTypes, TypeOK, ThreadTypes, Holding, Busy, Cmd, NoConn

LEMMA TakeTypes ==
  ASSUME PoolTypes, NEW w \in Worker, Take(w) PROVE PoolTypes'
<1>1. PICK r \in Requests : request' = [request EXCEPT ![w] = r]
  BY DEF Take
<1>2. r \in Seq(Cmd) /\ r # <<>>
  BY <1>1, RedisPoolAssumption DEF Cmd
<1>3. TypeOK'
  BY <1>1, <1>2 DEF PoolTypes, TypeOK, Take, Goto, Cmd
<1>4. ASSUME NEW v \in Worker PROVE ThreadTypes(v)'
  <2>1. served[w] \in 0 .. MaxRequests /\ MaxRequests \in Nat
    BY RedisPoolAssumption DEF PoolTypes, TypeOK
  <2> QED
    BY <1>1, <1>2, <2>1 DEF PoolTypes, TypeOK, ThreadTypes, Holding, Busy, Take, Goto
<1> QED
  BY <1>3, <1>4 DEF PoolTypes

LEMMA SearchTypes ==
  ASSUME PoolTypes, NEW w \in Worker, PassOver(w) \/ Find(w) \/ Claim(w) PROVE PoolTypes'
<1>1. request[w] # <<>>
  BY DEF PoolTypes, ThreadTypes, PassOver, Find, Claim, Holding, Busy
<1>2. /\ Candidate(w) \in Conn /\ (scan[w] + 1) % Candidates(w) \in Conn
      /\ Shifted(w) \in 0 .. PerThread - 1
  BY <1>1, Choices DEF PoolTypes
<1>3. CASE PassOver(w)
  <2>1. TypeOK'
    BY <1>2, <1>3 DEF PoolTypes, TypeOK, PassOver
  <2> QED
    BY <1>3, <2>1 DEF PoolTypes, ThreadTypes, Holding, Busy, PassOver
<1>4. CASE Find(w)
  <2>1. TypeOK'
    BY <1>2, <1>4, Numbers DEF PoolTypes, TypeOK, Find, Goto
  <2> QED
    BY <1>2, <1>4, <2>1 DEF PoolTypes, TypeOK, ThreadTypes, Holding, Busy, Find, Goto
<1>5. CASE Claim(w)
  <2>1. held[w] \in Conn
    BY <1>5 DEF PoolTypes, ThreadTypes, Holding, Claim
  <2> DEFINE s == IF Head(request[w]) = "any" THEN redis[held[w]].sock ELSE w
  <2>2. s \in Worker \cup {-1}
    BY <2>1 DEF PoolTypes, TypeOK
  <2>3. redis' = [redis EXCEPT ![held[w]].reading = FALSE, ![held[w]].working = 0,
                               ![held[w]].sock = s]
    BY <1>5, <2>1 DEF Claim, PoolTypes, TypeOK
  <2> HIDE DEF s
  <2>4. redis' \in [Conn -> Conns]
    <3> DEFINE r == redis[held[w]]
    <3> DEFINE n == [r EXCEPT !.reading = FALSE, !.working = 0, !.sock = s]
    <3>1. redis \in [Conn -> Conns] /\ r \in Conns
      BY <2>1 DEF PoolTypes, TypeOK, Conns
    <3> HIDE DEF r
    <3>2. n \in Conns
      BY <2>2, <3>1 DEF Conns
    <3>3. redis' = [redis EXCEPT ![held[w]] = n]
      BY <2>1, <2>3, <3>1 DEF r
    <3> HIDE DEF n
    <3> QED
      BY <2>1, <3>1, <3>2, <3>3
  <2>5. TypeOK'
    BY <1>2, <1>5, <2>4 DEF PoolTypes, TypeOK, Claim, Goto, Conns
  <2> QED
    BY <1>5, <2>5 DEF PoolTypes, TypeOK, ThreadTypes, Holding, Busy, Claim, Goto
<1> QED
  BY <1>3, <1>4, <1>5

LEMMA MyPiece ==
  ASSUME PoolTypes, NEW w \in Worker
  PROVE  Me(w) \in Id /\ \A part \in Part : From(w, part) \in Piece
BY DEF PoolTypes, TypeOK, Me, Id, From, Piece

LEMMA CommandTypes ==
  ASSUME PoolTypes, NEW w \in Worker, Send(w) \/ Fail(w) \/ Succeed(w) PROVE PoolTypes'
<1>1. request[w] # <<>> /\ held[w] \in Conn
  BY DEF PoolTypes, ThreadTypes, Send, Fail, Succeed, Holding, Busy
<1>2. Head(request[w]) \in Cmd
  BY <1>1, Choices DEF PoolTypes
<1>3. Me(w) \in Id /\ From(w, "error") \in Piece
  BY MyPiece DEF Part
<1>4. CASE Send(w)
  <2> DEFINE e == [of |-> Me(w), cmd |-> Head(request[w])]
  <2>1. e \in [of : Id, cmd : Cmd]
    BY <1>2, <1>3
  <2>2. wire[held[w]] \in Seq([of : Id, cmd : Cmd])
    BY <1>1 DEF PoolTypes, TypeOK, Cmd
  <2>3. Append(wire[held[w]], e) \in Seq([of : Id, cmd : Cmd])
    BY <2>1, <2>2, AppendProperties
  <2>4. wire' = [wire EXCEPT ![held[w]] = Append(wire[held[w]], e)]
    BY <1>1, <1>4 DEF Send, PoolTypes, TypeOK
  <2> HIDE DEF e
  <2>5. wire' \in [Conn -> Seq([of : Id, cmd : Cmd])]
    BY <1>1, <2>3, <2>4 DEF PoolTypes, TypeOK, Cmd
  <2>6. redis' \in [Conn -> Conns]
    <3> DEFINE r == redis[held[w]]
    <3> DEFINE n == [r EXCEPT !.reading = TRUE]
    <3>1. redis \in [Conn -> Conns] /\ r \in Conns
      BY <1>1 DEF PoolTypes, TypeOK, Conns
    <3> HIDE DEF r
    <3>2. n \in Conns
      BY <3>1 DEF Conns
    <3>3. redis' = [redis EXCEPT ![held[w]] = n]
      BY <1>1, <1>4, <3>1 DEF r, Send
    <3> HIDE DEF n
    <3> QED
      BY <1>1, <3>1, <3>2, <3>3
  <2>7. TypeOK'
    BY <1>4, <2>5, <2>6 DEF PoolTypes, TypeOK, Conns, Cmd, Send, Goto
  <2> QED
    BY <1>4, <2>7 DEF PoolTypes, TypeOK, ThreadTypes, Holding, Busy, Send, Goto
<1>5. CASE Fail(w)
  <2>1. Append(out[w], From(w, "error")) \in Seq(Piece)
    BY <1>3, AppendProperties DEF PoolTypes, TypeOK
  <2>2. out' \in [Worker -> Seq(Piece)]
    BY <1>5, <2>1 DEF PoolTypes, TypeOK, Fail, From
  <2>3. <<>> \in Seq({"get", "own", "any"})
    BY EmptySeq
  <2>4. TypeOK'
    BY <1>5, <2>2, <2>3 DEF PoolTypes, TypeOK, Fail, Goto
  <2> QED
    BY <1>5, <2>4 DEF PoolTypes, TypeOK, ThreadTypes, Holding, Busy, Fail, Goto
<1>6. CASE Succeed(w)
  <2>1. redis' \in [Conn -> Conns]
    <3> DEFINE r == redis[held[w]]
    <3> DEFINE n == [r EXCEPT !.result = -1]
    <3>1. redis \in [Conn -> Conns] /\ r \in Conns
      BY <1>1 DEF PoolTypes, TypeOK, Conns
    <3> HIDE DEF r
    <3>2. n \in Conns
      BY <3>1 DEF Conns
    <3>3. redis' = [redis EXCEPT ![held[w]] = n]
      BY <1>1, <1>6, <3>1 DEF r, Succeed
    <3> HIDE DEF n
    <3> QED
      BY <1>1, <3>1, <3>2, <3>3
  <2>2. TypeOK'
    BY <1>6, <2>1 DEF PoolTypes, TypeOK, Conns, Succeed, Goto
  <2> QED
    BY <1>6, <2>2 DEF PoolTypes, TypeOK, ThreadTypes, Holding, Busy, Succeed, Goto
<1> QED
  BY <1>4, <1>5, <1>6

LEMMA TailLeft ==
  ASSUME NEW S, NEW s \in Seq(S), Len(s) > 1
  PROVE  Tail(s) # <<>>
<1>1. s # <<>>
  BY EmptySeq
<1>2. PICK n \in Nat : n = Len(s)
  BY LenProperties
<1>3. PICK m \in Nat : m = Len(Tail(s))
  BY <1>1, HeadTailProperties, LenProperties
<1>4. m = n - 1
  BY <1>1, <1>2, <1>3, HeadTailProperties
<1>5. m # 0
  BY <1>2, <1>4
<1> QED
  BY <1>3, <1>5, EmptySeq

LEMMA ReleaseTypes ==
  ASSUME PoolTypes, NEW w \in Worker, Free(w) \/ Respond(w) PROVE PoolTypes'
<1>1. CASE Free(w)
  <2>1. request[w] # <<>> /\ held[w] \in Conn
    BY <1>1 DEF PoolTypes, ThreadTypes, Free, Holding, Busy
  <2>2. Tail(request[w]) \in Seq(Cmd) /\ request[w] \in Seq(Cmd)
    BY <2>1, Choices DEF PoolTypes, TypeOK, Cmd
  <2>3. ASSUME Len(request[w]) > 1 PROVE Tail(request[w]) # <<>>
    BY <2>1, <2>2, <2>3, TailLeft
  <2>4. redis' \in [Conn -> Conns]
    <3> DEFINE r == redis[held[w]]
    <3> DEFINE n == [r EXCEPT !.working = -1]
    <3>1. redis \in [Conn -> Conns] /\ r \in Conns
      BY <2>1 DEF PoolTypes, TypeOK, Conns
    <3> HIDE DEF r
    <3>2. n \in Conns
      BY <3>1 DEF Conns
    <3>3. redis' = [redis EXCEPT ![held[w]] = n]
      BY <1>1, <2>1, <3>1 DEF r, Free
    <3> HIDE DEF n
    <3> QED
      BY <2>1, <3>1, <3>2, <3>3
  <2>5. out' \in [Worker -> Seq(Piece)]
    <3>1. Okay(w) \in Seq(Piece)
      <4>1. From(w, "OK") \in Piece
        BY MyPiece DEF Part
      <4>2. <<From(w, "OK")>> \in Seq(Piece) /\ <<>> \in Seq(Piece)
        BY <4>1
      <4> QED
        BY <4>2 DEF Okay, From
    <3>2. out[w] \o Okay(w) \in Seq(Piece)
      BY <3>1, ConcatProperties DEF PoolTypes, TypeOK
    <3>3. out' = out \/ out' = [out EXCEPT ![w] = out[w] \o Okay(w)]
      BY <1>1 DEF Free, PoolTypes, TypeOK
    <3> QED
      BY <3>2, <3>3 DEF PoolTypes, TypeOK
  <2>6. /\ request' = [request EXCEPT ![w] = Tail(request[w])]
        /\ request' \in [Worker -> Seq(Cmd)]
    BY <1>1, <2>2 DEF Free, PoolTypes, TypeOK, Cmd
  <2>7. TypeOK'
    <3>1. /\ UNCHANGED <<served, scan, shift, wire, reply, halfway>> /\ pc[w] = "free"
          /\ Goto(w, "look") \/ Goto(w, "respond")
      BY <1>1 DEF Free
    <3>2. pc' \in [Worker -> {"idle", "look", "claim", "send", "wait", "free", "respond"}]
      BY <3>1 DEF PoolTypes, TypeOK, Goto
    <3>4. \A v \in Worker : pc'[v] # "look" => scan[v] = 0
      BY <3>1 DEF PoolTypes, TypeOK, Goto
    <3>3. held' \in [Worker -> Conn \cup {NoConn}]
      BY <1>1 DEF PoolTypes, TypeOK, Free
    <3> QED
      BY <2>4, <2>5, <2>6, <3>1, <3>2, <3>3, <3>4 DEF PoolTypes, TypeOK, Conns, Cmd
  <2>8. ASSUME NEW v \in Worker PROVE ThreadTypes(v)'
    <3>1. CASE v # w
      <4>1. /\ request'[v] = request[v] /\ pc'[v] = pc[v] /\ served'[v] = served[v]
            /\ held'[v] = held[v]
        BY <1>1, <2>6, <3>1 DEF Free, Goto, PoolTypes, TypeOK
      <4> QED
        BY <4>1 DEF PoolTypes, ThreadTypes, Holding, Busy
    <3>2. CASE v = w
      <4>1. /\ request'[w] = Tail(request[w]) /\ pc'[w] \in {"look", "respond"}
            /\ pc'[w] = "look" => Len(request[w]) > 1
            /\ served' = served /\ pc[w] = "free"
        BY <1>1, <2>6 DEF Free, Goto, PoolTypes, TypeOK
      <4> QED
        BY <2>3, <3>2, <4>1 DEF PoolTypes, ThreadTypes, Holding, Busy
    <3> QED
      BY <3>1, <3>2
  <2> QED
    BY <2>7, <2>8 DEF PoolTypes
<1>2. CASE Respond(w)
  <2>1. <<>> \in Seq(Piece)
    BY EmptySeq
  <2>2. served[w] \in 0 .. MaxRequests /\ served[w] < MaxRequests /\ MaxRequests \in Nat
    BY <1>2, RedisPoolAssumption DEF PoolTypes, TypeOK, ThreadTypes, Respond
  <2>3. served[w] + 1 \in 0 .. MaxRequests
    BY <2>2
  <2>4. TypeOK'
    BY <1>2, <2>1, <2>3 DEF PoolTypes, TypeOK, Respond, Goto
  <2> QED
    BY <1>2, <2>4 DEF PoolTypes, TypeOK, ThreadTypes, Holding, Busy, Respond, Goto
<1> QED
  BY <1>1, <1>2

LEMMA FinishTypes ==
  ASSUME PoolTypes, NEW t \in Worker, FinishCount(t) PROVE PoolTypes'
<1>1. halfway[t] \in Conn /\ ValueLen \in Nat
  BY RedisPoolAssumption DEF PoolTypes, TypeOK, FinishCount
<1>2. redis' \in [Conn -> Conns]
  <2> DEFINE r == redis[halfway[t]]
  <2> DEFINE n == [r EXCEPT !.working = -1, !.length = -1]
  <2>1. redis \in [Conn -> Conns] /\ r \in Conns
    BY <1>1 DEF PoolTypes, TypeOK, Conns
  <2> HIDE DEF r
  <2>2. -1 \in -1 .. ValueLen
    BY <1>1
  <2>3. n \in Conns
    BY <2>1, <2>2 DEF Conns
  <2>4. redis' = [redis EXCEPT ![halfway[t]] = n]
    BY <1>1, <2>1 DEF r, FinishCount
  <2> HIDE DEF n
  <2> QED
    BY <1>1, <2>1, <2>3, <2>4
<1>3. TypeOK'
  BY <1>2 DEF PoolTypes, TypeOK, FinishCount, workerVars, Conns
<1> QED
  BY <1>3 DEF PoolTypes, ThreadTypes, Holding, Busy, FinishCount, workerVars

(* What Redis answers, piece by piece. *)
Answer(command, parts) == [i \in DOMAIN parts |-> [of |-> command.of, part |-> parts[i]]]

LEMMA ValueParts ==
  LET parts == <<"value">> \o Bytes \o <<"end">>
  IN  /\ parts \in Seq(Part) /\ Len(parts) = ValueLen + 2
      /\ parts[1] = "value" /\ parts[ValueLen + 2] = "end"
      /\ \A i \in 2 .. ValueLen + 1 : parts[i] = "byte"
<1>1. ValueLen \in Nat \ {0}
  BY RedisPoolAssumption
<1>2. Bytes \in Seq(Part) /\ Len(Bytes) = ValueLen /\ \A i \in 1 .. ValueLen : Bytes[i] = "byte"
  BY <1>1 DEF Bytes, Part
<1>3. /\ <<"value">> \in Seq(Part) /\ Len(<<"value">>) = 1 /\ <<"value">>[1] = "value"
      /\ <<"end">> \in Seq(Part) /\ Len(<<"end">>) = 1 /\ <<"end">>[1] = "end"
  BY DEF Part
<1> DEFINE a == <<"value">>
<1> DEFINE e == <<"end">>
<1> DEFINE s == a \o Bytes
<1> HIDE DEF a, e
<1>4. /\ s \in Seq(Part) /\ Len(s) = 1 + ValueLen
      /\ \A i \in 1 .. 1 + ValueLen : s[i] = IF i <= 1 THEN a[i] ELSE Bytes[i - 1]
  BY <1>2, <1>3, ConcatProperties DEF a, e
<1> HIDE DEF s
<1>5. /\ s \o e \in Seq(Part) /\ Len(s \o e) = 1 + ValueLen + 1
      /\ \A i \in 1 .. 1 + ValueLen + 1 :
           (s \o e)[i] = IF i <= 1 + ValueLen THEN s[i] ELSE e[i - (1 + ValueLen)]
  BY <1>1, <1>3, <1>4, ConcatProperties DEF a, e
<1> DEFINE p == s \o e
<1> HIDE DEF p
<1>6. p \in Seq(Part) /\ Len(p) = ValueLen + 2
  BY <1>1, <1>5 DEF p
<1>7. p[1] = "value"
  <2>1. 1 \in 1 .. 1 + ValueLen + 1 /\ 1 \in 1 .. 1 + ValueLen
    BY <1>1
  <2> QED
    BY <1>1, <1>3, <1>4, <1>5, <2>1 DEF p, a
<1>8. p[ValueLen + 2] = "end"
  <2>1. PICK j \in 1 .. 1 + ValueLen + 1 : j = ValueLen + 2
    BY <1>1
  <2>2. ~(j <= 1 + ValueLen) /\ j - (1 + ValueLen) = 1
    BY <1>1, <2>1
  <2>3. p[j] = e[j - (1 + ValueLen)]
    BY <1>5, <2>2 DEF p
  <2> QED
    BY <1>3, <2>1, <2>2, <2>3 DEF e
<1>9. ASSUME NEW i \in 2 .. ValueLen + 1 PROVE p[i] = "byte"
  <2>1. /\ i \in 1 .. 1 + ValueLen + 1 /\ i <= 1 + ValueLen /\ i \in 1 .. 1 + ValueLen
        /\ ~(i <= 1) /\ i - 1 \in 1 .. ValueLen
    BY <1>1
  <2> QED
    BY <1>2, <1>4, <1>5, <2>1 DEF p
<1> QED
  BY <1>6, <1>7, <1>8, <1>9 DEF p, s, a, e

LEMMA AnswerTypes ==
  ASSUME NEW command \in [of : Id, cmd : Cmd], NEW parts \in Replies(command.cmd)
  PROVE  /\ parts \in Seq(Part) /\ parts # <<>>
         /\ Answer(command, parts) \in Seq(Piece)
         /\ Len(Answer(command, parts)) = Len(parts)
<1>1. parts \in Seq(Part) /\ parts # <<>>
  <2>1. CASE parts = <<"value">> \o Bytes \o <<"end">>
    <3>1. parts \in Seq(Part) /\ Len(parts) = ValueLen + 2 /\ ValueLen \in Nat
      BY <2>1, ValueParts, RedisPoolAssumption
    <3>2. ValueLen + 2 # 0
      BY <3>1
    <3> QED
      BY <3>1, <3>2, EmptySeq
  <2>2. CASE parts = <<"nil">> \/ parts = <<"count">>
    <3>1. /\ <<"nil">> \in Seq(Part) /\ <<"nil">> # <<>>
          /\ <<"count">> \in Seq(Part) /\ <<"count">> # <<>>
      BY DEF Part
    <3> QED
      BY <2>2, <3>1
  <2> QED
    BY <2>1, <2>2 DEF Replies
<1>2. DOMAIN parts = 1 .. Len(parts) /\ Len(parts) \in Nat
  BY <1>1, LenProperties
<1>3. \A i \in 1 .. Len(parts) : [of |-> command.of, part |-> parts[i]] \in Piece
  BY <1>1, ElementOfSeq DEF Piece
<1>4. Answer(command, parts) = [i \in 1 .. Len(parts) |-> [of |-> command.of, part |-> parts[i]]]
  BY <1>2 DEF Answer
<1> QED
  BY <1>1, <1>2, <1>3, <1>4

LEMMA ExecuteTypes ==
  ASSUME PoolTypes, NEW c \in Conn, Execute(c)
  PROVE  /\ PoolTypes'
         /\ Head(wire[c]) \in [of : Id, cmd : Cmd]
         /\ \E parts \in Replies(Head(wire[c]).cmd) :
              reply' = [reply EXCEPT ![c] = reply[c] \o Answer(Head(wire[c]), parts)]
<1>1. wire[c] \in Seq([of : Id, cmd : Cmd]) /\ wire[c] # <<>>
  BY DEF PoolTypes, TypeOK, Execute, Cmd
<1>2. Head(wire[c]) \in [of : Id, cmd : Cmd] /\ Tail(wire[c]) \in Seq([of : Id, cmd : Cmd])
  BY <1>1, HeadTailProperties
<1>3. PICK parts \in Replies(Head(wire[c]).cmd) :
        reply' = [reply EXCEPT ![c] = reply[c] \o Answer(Head(wire[c]), parts)]
  BY DEF Execute, PoolTypes, TypeOK, Answer
<1>4. reply[c] \in Seq(Piece) /\ Answer(Head(wire[c]), parts) \in Seq(Piece)
  BY <1>2, AnswerTypes DEF PoolTypes, TypeOK
<1>5. reply[c] \o Answer(Head(wire[c]), parts) \in Seq(Piece)
  BY <1>4, ConcatProperties
<1>6. reply' \in [Conn -> Seq(Piece)]
  BY <1>3, <1>5 DEF PoolTypes, TypeOK
<1>7. wire' \in [Conn -> Seq([of : Id, cmd : {"get", "own", "any"}])]
  BY <1>2 DEF Execute, PoolTypes, TypeOK, Cmd
<1>8. TypeOK'
  BY <1>6, <1>7 DEF PoolTypes, TypeOK, Execute, workerVars
<1> QED
  BY <1>2, <1>3, <1>8 DEF PoolTypes, ThreadTypes, Holding, Busy, Execute, workerVars

(* A piece of the reply arrives: what the callback finds. *)
LEMMA ArriveTypes ==
  ASSUME PoolTypes, NEW c \in Conn, Arrive(c)
  PROVE  /\ PoolTypes'
         /\ \E k \in 1 .. Len(reply[c]) :
              LET r == [redis[c] EXCEPT !.input = @ \o SubSeq(reply[c], 1, k)]
                  t == RedisThread(c)
              IN  /\ r \in Conns
                  /\ SubSeq(reply[c], 1, k) \in Seq(Piece)
                  /\ SubSeq(reply[c], k + 1, Len(reply[c])) \in Seq(Piece)
                  /\ reply' = [reply EXCEPT ![c] = SubSeq(reply[c], k + 1, Len(reply[c]))]
                  /\ redis' = [redis EXCEPT ![c] = Called(r)]
                  /\ out' = [w \in Worker |-> IF w = r.sock /\ pc[w] # "idle"
                                              THEN out[w] \o Written(r) ELSE out[w]]
                  /\ halfway' = [halfway EXCEPT ![t] =
                                   IF Starts(r, "count") THEN c ELSE halfway[t]]
                  /\ r.working = 0 => Lines(r.input) # {}
<1> DEFINE t == RedisThread(c)
<1> DEFINE r(k) == [redis[c] EXCEPT !.input = @ \o SubSeq(reply[c], 1, k)]
<1>1. t \in Worker
  BY ThreadOfConn
<1>2. redis[c] \in Conns /\ reply[c] \in Seq(Piece) /\ Len(reply[c]) \in Nat
  BY LenProperties DEF PoolTypes, TypeOK, Conns
<1> HIDE DEF t
<1>3. PICK k \in 1 .. Len(reply[c]) :
        /\ reply' = [reply EXCEPT ![c] = SubSeq(reply[c], k + 1, Len(reply[c]))]
        /\ redis' = [redis EXCEPT ![c] = Called(r(k))]
        /\ out' = [w \in Worker |-> IF w = r(k).sock /\ pc[w] # "idle"
                                    THEN out[w] \o Written(r(k)) ELSE out[w]]
        /\ halfway' = [halfway EXCEPT ![t] =
                         IF Starts(r(k), "count") THEN c ELSE halfway[t]]
        /\ r(k).working = 0 => Lines(r(k).input) # {}
  BY <1>1 DEF Arrive, PoolTypes, TypeOK, t
<1>4. k \in Nat \ {0} /\ k \in 0 .. Len(reply[c]) /\ k + 1 \in Nat \ {0} /\ 1 \in Nat \ {0}
      /\ Len(reply[c]) \in 0 .. Len(reply[c])
  BY <1>2
<1>5. /\ SubSeq(reply[c], 1, k) \in Seq(Piece)
      /\ SubSeq(reply[c], k + 1, Len(reply[c])) \in Seq(Piece)
  BY <1>2, <1>4, SubSeqWithin
<1>6. redis[c].input \o SubSeq(reply[c], 1, k) \in Seq(Piece)
  BY <1>2, <1>5, ConcatProperties DEF Conns
<1>7. r(k) \in Conns
  BY <1>2, <1>6 DEF Conns
<1>8. Called(r(k)) \in Conns /\ Written(r(k)) \in Seq(Piece)
  BY <1>3, <1>7, CallTypes
<1>9. redis \in [Conn -> Conns] /\ out \in [Worker -> Seq(Piece)]
      /\ halfway \in [Worker -> Conn \cup {NoConn}] /\ reply \in [Conn -> Seq(Piece)]
  BY DEF PoolTypes, TypeOK, Conns
<1> HIDE DEF r
<1>10. redis' \in [Conn -> Conns] /\ reply' \in [Conn -> Seq(Piece)]
  BY <1>3, <1>5, <1>8, <1>9
<1>11. out' \in [Worker -> Seq(Piece)]
  <2>1. ASSUME NEW w \in Worker PROVE out[w] \in Seq(Piece) /\ out[w] \o Written(r(k)) \in Seq(Piece)
    BY <1>8, <1>9, ConcatProperties
  <2> QED
    BY <1>3, <2>1
<1>12. halfway' \in [Worker -> Conn \cup {NoConn}]
  BY <1>1, <1>3, <1>9
<1>13. TypeOK'
  BY <1>10, <1>11, <1>12 DEF PoolTypes, TypeOK, Arrive, Conns
<1>14. PoolTypes'
  BY <1>13 DEF PoolTypes, ThreadTypes, Holding, Busy, Arrive
<1> QED
  BY <1>3, <1>5, <1>7, <1>14 DEF r, t

LEMMA TypesStep == PoolTypes /\ [Next]_vars => PoolTypes'
<1> SUFFICES ASSUME PoolTypes, [Next]_vars PROVE PoolTypes'
  OBVIOUS
<1>1. CASE UNCHANGED vars
  BY <1>1 DEF PoolTypes, TypeOK, ThreadTypes, Holding, Busy, vars, workerVars
<1>2. CASE Next
  BY <1>2, TakeTypes, SearchTypes, CommandTypes, ReleaseTypes, FinishTypes, ExecuteTypes,
     ArriveTypes DEF Next, Serve
<1> QED
  BY <1>1, <1>2

(* Every variable has the values its declaration and the code give it: of  *)
(* a reply never more is taken than has arrived, whatever is in it.        *)
THEOREM ConnectionTypes == Spec => []TypeOK
<1>1. PoolTypes => TypeOK
  BY DEF PoolTypes
<1> QED
  BY <1>1, TypesInit, TypesStep, PTL DEF Spec

-----------------------------------------------------------------------------
(* Threads keep to their own connections.                                  *)

(* A step that leaves thread v alone. *)
Same(v) ==
  /\ pc'[v] = pc[v] /\ request'[v] = request[v] /\ served'[v] = served[v] /\ out'[v] = out[v]
  /\ scan'[v] = scan[v] /\ shift'[v] = shift[v] /\ held'[v] = held[v]
  /\ halfway'[v] = halfway[v]
  /\ \A c \in Own(v) : redis'[c] = redis[c] /\ wire'[c] = wire[c] /\ reply'[c] = reply[c]

LEMMA AskedRequest ==
  ASSUME NEW r, Asked(r)
  PROVE  /\ r \in Seq(Cmd) /\ r # <<>> /\ Head(r) \in {"get", "own"}
         /\ Head(r) = "get" => r = <<"get">>
         /\ Len(r) > 1 => Asked(Tail(r))
<1>1. CASE r = <<"get">>
  <2>1. Len(r) = 1 /\ Head(r) = "get" /\ r \in Seq(Cmd) /\ r # <<>>
    BY <1>1 DEF Cmd
  <2> QED
    BY <1>1, <2>1
<1>2. CASE r # <<"get">>
  <2>1. r \in Seq({"own"}) /\ r # <<>>
    BY <1>2 DEF Asked
  <2>2. Head(r) = "own" /\ Tail(r) \in Seq({"own"})
    BY <2>1, HeadTailProperties
  <2>3. {"own"} \subseteq Cmd
    BY DEF Cmd
  <2>4. r \in Seq(Cmd)
    BY <2>1, <2>3, SeqMonotonic
  <2>5. Len(r) > 1 => Tail(r) # <<>>
    BY <2>1, TailLeft
  <2> QED
    BY <2>1, <2>2, <2>4, <2>5 DEF Asked
<1> QED
  BY <1>1, <1>2

LEMMA OwnCandidate ==
  ASSUME NEW w \in Worker, TypeOK, Head(request[w]) # "any"
  PROVE  Candidate(w) \in Own(w) /\ (scan[w] = 0 => Candidate(w) = Mine(w))
<1>1. PerThread \in Nat \ {0} /\ N \in Nat \ {0} /\ w \in Nat
  BY RedisPoolAssumption DEF Worker
<1>2. N * PerThread \in Nat \ {0}
  BY Numbers
<1>3. scan[w] \in Nat /\ shift[w] \in 0 .. PerThread - 1
  BY <1>2 DEF TypeOK, Conn
<1> DEFINE n == (scan[w] + shift[w]) % PerThread
<1>4. n \in 0 .. PerThread - 1
  BY <1>1, <1>3
<1>5. scan[w] = 0 => n = shift[w]
  BY <1>1, <1>3
<1>6. Candidate(w) = n + w * PerThread
  BY DEF Candidate
<1> HIDE DEF n
<1> QED
  BY <1>4, <1>5, <1>6, OwnConn DEF Mine

LEMMA OwnInit == Init => OwnInv
BY DEF Init, OwnInv, Apart, Carries, Busy, Holding, OfThread, NoConn, Own

LEMMA OneOwner ==
  ASSUME NEW v, NEW w, NEW c \in Own(w), v # w PROVE c \notin Own(v)
BY DEF Own

(* What a step of task thread w does to its connections: at most it puts   *)
(* one of them, the one it holds, into another state and sends on it.      *)
LEMMA ThreadStep ==
  ASSUME PoolTypes, OwnInv, WholeOnly, NEW w \in Worker, Take(w) \/ Serve(w)
  PROVE  /\ halfway' = halfway /\ reply' = reply
         /\ Apart(w)'
         /\ \A v \in Worker : v # w => Same(v)
<1>1. /\ redis \in [Conn -> Conns] /\ held[w] \in Own(w) \cup {NoConn}
      /\ Own(w) \subseteq Conn /\ NoConn \notin Conn
      /\ Holding(w) => held[w] \in Own(w) /\ held[w] \in Conn
  BY Numbers DEF PoolTypes, TypeOK, Conns, OwnInv, Apart, ThreadTypes
<1>2. halfway' = halfway /\ reply' = reply
  BY DEF Take, Serve, PassOver, Find, Claim, Send, Fail, Succeed, Free, Respond
<1>3. Busy(w) => Asked(request[w])
  BY DEF OwnInv, Apart
<1>4. CASE Take(w) \/ PassOver(w) \/ Find(w) \/ Fail(w) \/ Respond(w)
  <2>1. redis' = redis /\ wire' = wire
    BY <1>4 DEF Take, PassOver, Find, Fail, Respond
  <2>2. \A v \in Worker : v # w => Same(v)
    BY <1>2, <1>4, <2>1 DEF Same, Take, PassOver, Find, Fail, Respond, Goto, PoolTypes, TypeOK
  <2> SUFFICES Apart(w)'
    BY <1>2, <2>2
  <2>3. \A c \in Own(w) : Carries(c, w)'
    BY <1>2, <2>1 DEF OwnInv, Apart, Carries
  <2>4. halfway'[w] \in Own(w) \cup {NoConn}
    BY <1>2 DEF OwnInv, Apart
  <2>5. CASE Take(w)
    <3>1. PICK r \in Requests : request' = [request EXCEPT ![w] = r]
      BY <2>5 DEF Take
    <3>2. Asked(r)
      BY <3>1, RedisPoolAssumption DEF WholeOnly, Asked
    <3>3. request'[w] = r /\ pc'[w] = "look" /\ held' = held
      BY <2>5, <3>1 DEF Take, Goto, PoolTypes, TypeOK
    <3>4. Asked(request[w])'
      BY <3>2, <3>3 DEF Asked
    <3> QED
      BY <1>1, <1>2, <2>3, <2>4, <3>3, <3>4 DEF Apart
  <2>6. CASE PassOver(w)
    <3>1. pc' = pc /\ request' = request /\ held' = held /\ pc[w] = "look"
      BY <2>6 DEF PassOver
    <3> QED
      BY <1>1, <1>3, <2>3, <2>4, <3>1 DEF Apart, Busy, Holding
  <2>7. CASE Find(w)
    <3>1. /\ pc'[w] = "claim" /\ request' = request /\ held'[w] = Candidate(w)
          /\ Busy(w) /\ redis[Candidate(w)].working = -1
      BY <2>7 DEF Find, Goto, PoolTypes, TypeOK, Busy
    <3>2. Asked(request[w]) /\ Head(request[w]) # "any"
      BY <1>3, <3>1, AskedRequest
    <3>3. Candidate(w) \in Own(w)
      BY <3>2, OwnCandidate DEF PoolTypes
    <3> QED
      BY <2>1, <2>3, <2>4, <3>1, <3>2, <3>3 DEF Apart
  <2>8. CASE Fail(w) \/ Respond(w)
    <3>1. pc'[w] \in {"respond", "idle"} /\ held'[w] \in {held[w], NoConn}
      BY <2>8 DEF Fail, Respond, Goto, PoolTypes, TypeOK
    <3> QED
      BY <1>1, <2>3, <2>4, <3>1 DEF Apart, Busy, Holding
  <2> QED
    BY <1>4, <2>5, <2>6, <2>7, <2>8
<1>5. CASE Claim(w) \/ Send(w) \/ Succeed(w) \/ Free(w)
  <2>1. Holding(w) /\ held[w] \in Own(w) /\ held[w] \in Conn
    BY <1>1, <1>5 DEF Claim, Send, Succeed, Free, Holding
  <2>2. Asked(request[w]) /\ Head(request[w]) # "any"
    BY <1>3, <2>1, AskedRequest DEF Busy
  <2>3. \A c \in Conn : c # held[w] => redis'[c] = redis[c] /\ wire'[c] = wire[c]
    BY <1>5, <2>1 DEF Claim, Send, Succeed, Free, PoolTypes, TypeOK
  <2>4. \A v \in Worker : v # w => Same(v)
    <3> SUFFICES ASSUME NEW v \in Worker, v # w PROVE Same(v)
      OBVIOUS
    <3>1. \A c \in Own(v) : c \in Conn /\ c # held[w]
      BY <2>1, OneOwner DEF Own
    <3>2. /\ pc'[v] = pc[v] /\ request'[v] = request[v] /\ served'[v] = served[v]
          /\ out'[v] = out[v] /\ scan'[v] = scan[v] /\ shift'[v] = shift[v] /\ held'[v] = held[v]
      BY <1>5 DEF Claim, Send, Succeed, Free, Goto, PoolTypes, TypeOK
    <3> QED
      BY <1>2, <2>3, <3>1, <3>2 DEF Same
  <2> SUFFICES Apart(w)'
    BY <1>2, <2>4
  <2>5. /\ redis'[held[w]].input = redis[held[w]].input
        /\ redis'[held[w]].sock \in {redis[held[w]].sock, w}
    BY <1>1, <1>5, <2>1, <2>2 DEF Claim, Send, Succeed, Free, Conns
  <2>6. OfThread(wire'[held[w]], w)
    <3>1. OfThread(wire[held[w]], w)
      BY <2>1 DEF OwnInv, Apart, Carries
    <3>2. CASE Send(w)
      <4> DEFINE e == [of |-> Me(w), cmd |-> Head(request[w])]
      <4> DEFINE q == wire[held[w]]
      <4>1. wire'[held[w]] = Append(q, e)
        BY <2>1, <3>2 DEF Send, PoolTypes, TypeOK
      <4>2. Head(request[w]) \in Cmd
        BY <2>2, AskedRequest DEF Cmd
      <4>3. e \in [of : Id, cmd : Cmd] /\ e.of[1] = w
        BY <4>2, MyPiece DEF Me
      <4>4. q \in Seq([of : Id, cmd : Cmd])
        BY <2>1 DEF PoolTypes, TypeOK, Cmd
      <4> HIDE DEF e, q
      <4>5. /\ Append(q, e) \in Seq([of : Id, cmd : Cmd]) /\ Len(Append(q, e)) = Len(q) + 1
            /\ \A i \in 1 .. Len(q) : Append(q, e)[i] = q[i]
            /\ Append(q, e)[Len(q) + 1] = e
        BY <4>3, <4>4, AppendProperties
      <4>6. DOMAIN Append(q, e) = 1 .. Len(q) + 1 /\ DOMAIN q = 1 .. Len(q) /\ Len(q) \in Nat
        BY <4>4, <4>5, LenProperties
      <4>7. ASSUME NEW i \in DOMAIN Append(q, e) PROVE Append(q, e)[i].of[1] = w
        BY <3>1, <4>3, <4>5, <4>6 DEF OfThread, q
      <4> QED
        BY <4>1, <4>7 DEF OfThread
    <3>3. CASE ~Send(w)
      BY <1>5, <3>1, <3>3 DEF Claim, Succeed, Free
    <3> QED
      BY <3>2, <3>3
  <2>7. ASSUME NEW c \in Own(w) PROVE Carries(c, w)'
    <3>1. Carries(c, w) /\ c \in Conn
      BY <1>1 DEF OwnInv, Apart
    <3>2. CASE c = held[w]
      BY <1>2, <2>5, <2>6, <3>1, <3>2 DEF Carries
    <3>3. CASE c # held[w]
      BY <1>2, <2>3, <3>1, <3>3 DEF Carries
    <3> QED
      BY <3>2, <3>3
  <2>8. halfway'[w] \in Own(w) \cup {NoConn}
    BY <1>2 DEF OwnInv, Apart
  <2>9. CASE Claim(w) \/ Send(w) \/ Succeed(w)
    <3>1. pc'[w] \in {"send", "wait", "free"} /\ request' = request /\ held' = held
      BY <2>9 DEF Claim, Send, Succeed, Goto, PoolTypes, TypeOK
    <3> QED
      BY <1>1, <2>2, <2>7, <2>8, <3>1 DEF Apart
  <2>10. CASE Free(w)
    <3>1. /\ pc'[w] \in {"look", "respond"} /\ request'[w] = Tail(request[w])
          /\ held'[w] = NoConn /\ (pc'[w] = "look" => Len(request[w]) > 1)
      BY <2>10 DEF Free, Goto, PoolTypes, TypeOK
    <3>2. pc'[w] = "look" => Asked(request'[w])
      BY <2>2, <3>1, AskedRequest
    <3>3. Busy(w)' => Asked(request[w])'
      BY <3>1, <3>2 DEF Busy, Holding, Asked
    <3> QED
      BY <2>7, <2>8, <3>1, <3>3 DEF Apart
  <2> QED
    BY <1>5, <2>9, <2>10
<1> QED
  BY <1>4, <1>5 DEF Serve

LEMMA OfThreadParts ==
  ASSUME NEW w, NEW s \in Seq(Piece), NEW t \in Seq(Piece), OfThread(s, w), OfThread(t, w)
  PROVE  OfThread(s \o t, w)
<1>1. /\ DOMAIN s = 1 .. Len(s) /\ DOMAIN t = 1 .. Len(t) /\ Len(s) \in Nat /\ Len(t) \in Nat
  BY LenProperties
<1>2. /\ s \o t \in Seq(Piece) /\ Len(s \o t) = Len(s) + Len(t)
      /\ \A i \in 1 .. Len(s) + Len(t) :
           (s \o t)[i] = IF i <= Len(s) THEN s[i] ELSE t[i - Len(s)]
  BY ConcatProperties
<1> DEFINE q == s \o t
<1>3. DOMAIN q = 1 .. Len(s) + Len(t)
  BY <1>2, LenProperties
<1> HIDE DEF q
<1>4. ASSUME NEW i \in DOMAIN q PROVE q[i].of[1] = w
  <2>1. CASE i <= Len(s)
    <3>1. i \in DOMAIN s /\ q[i] = s[i]
      BY <1>1, <1>2, <1>3, <2>1 DEF q
    <3> QED
      BY <3>1 DEF OfThread
  <2>2. CASE ~(i <= Len(s))
    <3>1. i - Len(s) \in DOMAIN t /\ q[i] = t[i - Len(s)]
      BY <1>1, <1>2, <1>3, <2>2 DEF q
    <3> QED
      BY <3>1 DEF OfThread
  <2> QED
    BY <2>1, <2>2
<1> QED
  BY <1>4 DEF OfThread, q

LEMMA OfThreadWithin ==
  ASSUME NEW w, NEW s, NEW t, OfThread(s, w), Within(t, s)
  PROVE  OfThread(t, w)
BY DEF OfThread, Within

LEMMA FinishStep ==
  ASSUME PoolTypes, OwnInv, NEW w \in Worker, FinishCount(w)
  PROVE  Apart(w)' /\ \A v \in Worker : v # w => Same(v)
<1> DEFINE h == halfway[w]
<1>1. /\ h \in Own(w) /\ h \in Conn /\ redis \in [Conn -> Conns]
      /\ Holding(w) => held[w] \in Conn
  BY Numbers DEF OwnInv, Apart, FinishCount, PoolTypes, TypeOK, Conns, ThreadTypes
<1> HIDE DEF h
<1>2. /\ redis' = [redis EXCEPT ![h].working = -1, ![h].length = -1]
      /\ halfway' = [halfway EXCEPT ![w] = NoConn] /\ wire' = wire /\ reply' = reply
      /\ pc' = pc /\ request' = request /\ served' = served /\ out' = out
      /\ scan' = scan /\ shift' = shift /\ held' = held
  BY DEF FinishCount, workerVars, h
<1>3. \A c \in Conn : c # h => redis'[c] = redis[c]
  BY <1>1, <1>2
<1>4. /\ redis'[h].working = -1 /\ redis'[h].input = redis[h].input
      /\ redis'[h].sock = redis[h].sock
  BY <1>1, <1>2 DEF Conns
<1>5. Apart(w)'
  <2>1. ASSUME NEW c \in Own(w) PROVE Carries(c, w)'
    <3>1. Carries(c, w) /\ c \in Conn
      BY Numbers DEF OwnInv, Apart
    <3> QED
      BY <1>2, <1>3, <1>4, <3>1 DEF Carries
  <2>2. pc[w] = "claim" => redis'[held[w]].working = -1
    BY <1>1, <1>3, <1>4 DEF OwnInv, Apart, Holding
  <2>3. halfway'[w] = NoConn
    BY <1>2 DEF PoolTypes, TypeOK
  <2>4. /\ held[w] \in Own(w) \cup {NoConn}
        /\ Busy(w) => Asked(request[w])
    BY DEF OwnInv, Apart
  <2> QED
    BY <1>2, <2>1, <2>2, <2>3, <2>4 DEF Apart, Busy, Holding
<1>6. ASSUME NEW v \in Worker, v # w PROVE Same(v)
  <2>1. \A c \in Own(v) : c \in Conn /\ c # h
    BY <1>1, <1>6, OneOwner DEF Own
  <2> QED
    BY <1>2, <1>3, <1>6, <2>1 DEF Same, PoolTypes, TypeOK
<1> QED
  BY <1>5, <1>6

LEMMA ExecuteStep ==
  ASSUME PoolTypes, OwnInv, NEW c \in Conn, Execute(c)
  PROVE  Apart(RedisThread(c))' /\ \A v \in Worker : v # RedisThread(c) => Same(v)
<1> DEFINE w == RedisThread(c)
<1>1. w \in Worker /\ c \in Own(w)
  BY ThreadOfConn
<1> HIDE DEF w
<1> DEFINE m == Head(wire[c])
<1>2. m \in [of : Id, cmd : Cmd]
  BY ExecuteTypes
<1>3. PICK parts \in Replies(m.cmd) : reply' = [reply EXCEPT ![c] = reply[c] \o Answer(m, parts)]
  BY ExecuteTypes
<1>4. /\ wire' = [wire EXCEPT ![c] = Tail(wire[c])] /\ wire[c] # <<>> /\ redis' = redis
      /\ halfway' = halfway /\ pc' = pc /\ request' = request /\ served' = served
      /\ out' = out /\ scan' = scan /\ shift' = shift /\ held' = held
  BY DEF Execute, workerVars, PoolTypes, TypeOK
<1>5. Carries(c, w)
  BY <1>1 DEF OwnInv, Apart
<1>6. wire[c] \in Seq([of : Id, cmd : Cmd]) /\ reply[c] \in Seq(Piece)
  BY DEF PoolTypes, TypeOK, Cmd
<1>7. m.of[1] = w
  <2>1. 1 \in DOMAIN wire[c] /\ m = wire[c][1]
    BY <1>4, <1>6, LenProperties, EmptySeq
  <2> QED
    BY <1>5, <2>1 DEF Carries, OfThread
<1> HIDE DEF m
<1>8. OfThread(reply[c] \o Answer(m, parts), w)
  <2>1. Answer(m, parts) \in Seq(Piece)
    BY <1>2, <1>3, AnswerTypes
  <2>2. OfThread(Answer(m, parts), w)
    BY <1>7 DEF OfThread, Answer
  <2> QED
    BY <1>5, <1>6, <2>1, <2>2, OfThreadParts DEF Carries
<1>9. OfThread(Tail(wire[c]), w)
  <2>1. /\ Len(Tail(wire[c])) = Len(wire[c]) - 1 /\ Len(wire[c]) \in Nat
        /\ \A i \in 1 .. Len(Tail(wire[c])) : Tail(wire[c])[i] = wire[c][i + 1]
        /\ DOMAIN Tail(wire[c]) = 1 .. Len(Tail(wire[c])) /\ DOMAIN wire[c] = 1 .. Len(wire[c])
    BY <1>4, <1>6, HeadTailProperties, LenProperties
  <2>2. ASSUME NEW i \in DOMAIN Tail(wire[c]) PROVE Tail(wire[c])[i].of[1] = w
    <3>1. i + 1 \in DOMAIN wire[c] /\ Tail(wire[c])[i] = wire[c][i + 1]
      BY <2>1
    <3> QED
      BY <1>5, <3>1 DEF Carries, OfThread
  <2> QED
    BY <2>2 DEF OfThread
<1>10. /\ wire'[c] = Tail(wire[c]) /\ reply'[c] = reply[c] \o Answer(m, parts)
       /\ \A d \in Conn : d # c => wire'[d] = wire[d] /\ reply'[d] = reply[d]
  BY <1>3, <1>4 DEF PoolTypes, TypeOK
<1>11. ASSUME NEW d \in Own(w) PROVE Carries(d, w)'
  <2>1. Carries(d, w) /\ d \in Conn
    BY <1>1, Numbers DEF OwnInv, Apart
  <2> QED
    BY <1>4, <1>5, <1>8, <1>9, <1>10, <2>1 DEF Carries
<1>12. Apart(w)'
  BY <1>1, <1>4, <1>11 DEF OwnInv, Apart, Busy, Holding
<1>13. ASSUME NEW v \in Worker, v # w PROVE Same(v)
  <2>1. \A d \in Own(v) : d \in Conn /\ d # c
    BY <1>1, <1>13, OneOwner DEF Own
  <2> QED
    BY <1>4, <1>10, <2>1 DEF Same
<1> QED
  BY <1>12, <1>13 DEF w

LEMMA ArriveStep ==
  ASSUME PoolTypes, OwnInv, NEW c \in Conn, Arrive(c)
  PROVE  Apart(RedisThread(c))' /\ \A v \in Worker : v # RedisThread(c) => Same(v)
<1> DEFINE w == RedisThread(c)
<1>1. w \in Worker /\ c \in Own(w)
  BY ThreadOfConn
<1>2. PICK k \in 1 .. Len(reply[c]) :
        LET r == [redis[c] EXCEPT !.input = @ \o SubSeq(reply[c], 1, k)]
        IN  /\ r \in Conns
            /\ SubSeq(reply[c], 1, k) \in Seq(Piece)
            /\ SubSeq(reply[c], k + 1, Len(reply[c])) \in Seq(Piece)
            /\ reply' = [reply EXCEPT ![c] = SubSeq(reply[c], k + 1, Len(reply[c]))]
            /\ redis' = [redis EXCEPT ![c] = Called(r)]
            /\ out' = [u \in Worker |-> IF u = r.sock /\ pc[u] # "idle"
                                        THEN out[u] \o Written(r) ELSE out[u]]
            /\ halfway' = [halfway EXCEPT ![w] = IF Starts(r, "count") THEN c ELSE halfway[w]]
            /\ r.working = 0 => Lines(r.input) # {}
  BY ArriveTypes
<1> HIDE DEF w
<1> DEFINE old == SubSeq(reply[c], 1, k)
<1> DEFINE left == SubSeq(reply[c], k + 1, Len(reply[c]))
<1> DEFINE r == [redis[c] EXCEPT !.input = @ \o old]
<1>3. /\ redis[c] \in Conns /\ reply[c] \in Seq(Piece) /\ Len(reply[c]) \in Nat
      /\ redis \in [Conn -> Conns]
  BY LenProperties DEF PoolTypes, TypeOK, Conns
<1>4. /\ k \in Nat \ {0} /\ k \in 0 .. Len(reply[c]) /\ k + 1 \in Nat \ {0}
      /\ 1 \in Nat \ {0} /\ Len(reply[c]) \in 0 .. Len(reply[c])
  BY <1>3
<1>5. /\ old \in Seq(Piece) /\ Within(old, reply[c])
      /\ left \in Seq(Piece) /\ Within(left, reply[c])
  BY <1>3, <1>4, SubSeqWithin
<1>6. r.input = redis[c].input \o old /\ r.sock = redis[c].sock /\ r.working = redis[c].working
  BY <1>3 DEF Conns
<1>7. /\ r \in Conns /\ (r.working = 0 => Lines(r.input) # {})
      /\ reply' = [reply EXCEPT ![c] = left] /\ redis' = [redis EXCEPT ![c] = Called(r)]
      /\ out' = [u \in Worker |-> IF u = r.sock /\ pc[u] # "idle"
                                  THEN out[u] \o Written(r) ELSE out[u]]
      /\ halfway' = [halfway EXCEPT ![w] = IF Starts(r, "count") THEN c ELSE halfway[w]]
  BY <1>2
<1> HIDE DEF r, old, left
<1>8. Carries(c, w) /\ (pc[w] = "claim" => redis[held[w]].working = -1)
  BY <1>1 DEF OwnInv, Apart
<1>9. OfThread(r.input, w) /\ OfThread(left, w)
  <2>1. OfThread(old, w) /\ OfThread(left, w)
    BY <1>5, <1>8, OfThreadWithin DEF Carries
  <2>2. redis[c].input \in Seq(Piece)
    BY <1>3 DEF Conns
  <2> QED
    BY <1>5, <1>6, <1>8, <2>1, <2>2, OfThreadParts DEF Carries
<1>10. /\ Called(r).sock = redis[c].sock /\ OfThread(Called(r).input, w)
       /\ r.working = -1 => Called(r) = r
  BY <1>6, <1>7, <1>9, CallTypes, OfThreadWithin
<1>11. /\ reply'[c] = left /\ redis'[c] = Called(r)
       /\ \A d \in Conn : d # c => redis'[d] = redis[d] /\ reply'[d] = reply[d]
  BY <1>3, <1>7 DEF PoolTypes, TypeOK
<1>12. /\ pc' = pc /\ request' = request /\ served' = served /\ scan' = scan
       /\ shift' = shift /\ held' = held /\ wire' = wire
  BY DEF Arrive
<1>13. ASSUME NEW d \in Own(w) PROVE Carries(d, w)'
  <2>1. Carries(d, w) /\ d \in Conn
    BY <1>1, Numbers DEF OwnInv, Apart
  <2> QED
    BY <1>8, <1>9, <1>10, <1>11, <1>12, <2>1 DEF Carries
<1>14. pc[w] = "claim" => redis'[held[w]].working = -1
  <2> SUFFICES ASSUME pc[w] = "claim" PROVE redis'[held[w]].working = -1
    OBVIOUS
  <2>1. held[w] \in Conn
    BY <1>1 DEF PoolTypes, ThreadTypes, Holding
  <2> QED
    BY <1>6, <1>8, <1>10, <1>11, <2>1
<1>15. /\ halfway'[w] \in {c, halfway[w]}
       /\ \A v \in Worker : v # w => halfway'[v] = halfway[v]
  BY <1>1, <1>7 DEF PoolTypes, TypeOK
<1>16. /\ held[w] \in Own(w) \cup {NoConn} /\ halfway[w] \in Own(w) \cup {NoConn}
       /\ Busy(w) => Asked(request[w])
  BY <1>1 DEF OwnInv, Apart
<1>17. Apart(w)'
  BY <1>1, <1>12, <1>13, <1>14, <1>15, <1>16 DEF Apart, Busy, Holding
<1>18. ASSUME NEW v \in Worker, v # w PROVE Same(v)
  <2>1. \A d \in Own(v) : d \in Conn /\ d # c
    BY <1>1, <1>18, OneOwner DEF Own
  <2>2. r.sock # v
    <3>1. r.sock \in {-1, w} /\ -1 # v
      BY <1>6, <1>8 DEF Carries, Worker
    <3> QED
      BY <1>18, <3>1
  <2>3. out'[v] = out[v]
    BY <1>7, <2>2
  <2> QED
    BY <1>11, <1>12, <1>15, <1>18, <2>1, <2>3 DEF Same
<1> QED
  BY <1>17, <1>18 DEF w

LEMMA SameApart ==
  ASSUME NEW v \in Worker, ThreadTypes(v), Apart(v), Same(v) PROVE Apart(v)'
<1>1. \A c \in Own(v) : Carries(c, v)'
  BY DEF Same, Apart, Carries
<1>2. pc'[v] = "claim" => redis'[held'[v]].working = -1
  BY Numbers DEF Same, Apart, ThreadTypes, Holding
<1>3. /\ held'[v] \in Own(v) \cup {NoConn} /\ halfway'[v] \in Own(v) \cup {NoConn}
      /\ Busy(v)' => Asked(request'[v])
  BY DEF Same, Apart, Busy, Holding
<1> QED
  BY <1>1, <1>2, <1>3 DEF Apart

LEMMA OwnStep == PoolTypes /\ OwnInv /\ WholeOnly /\ [Next]_vars => OwnInv'
<1> SUFFICES ASSUME PoolTypes, OwnInv, WholeOnly, [Next]_vars, NEW v \in Worker
             PROVE  Apart(v)'
  BY DEF OwnInv
<1>1. Apart(v) /\ ThreadTypes(v)
  BY DEF OwnInv, PoolTypes
<1>2. CASE UNCHANGED vars
  <2>1. Same(v)
    BY <1>2 DEF vars, workerVars, Same
  <2> QED
    BY <1>1, <2>1, SameApart
<1>3. ASSUME NEW w \in Worker, Take(w) \/ Serve(w) PROVE Apart(v)'
  BY <1>1, <1>3, ThreadStep, SameApart
<1>4. ASSUME NEW w \in Worker, FinishCount(w) PROVE Apart(v)'
  BY <1>1, <1>4, FinishStep, SameApart
<1>5. ASSUME NEW c \in Conn, Execute(c) PROVE Apart(v)'
  BY <1>1, <1>5, ExecuteStep, SameApart
<1>6. ASSUME NEW c \in Conn, Arrive(c) PROVE Apart(v)'
  BY <1>1, <1>6, ArriveStep, SameApart
<1> QED
  BY <1>2, <1>3, <1>4, <1>5, <1>6 DEF Next

-----------------------------------------------------------------------------
(* A thread that has lost no connection is in step with Redis, or loses    *)
(* one: what other threads do does not matter, ...                         *)

LEMMA SameGone ==
  ASSUME NEW v \in Worker, Gone(v), Same(v) PROVE Gone(v)'
BY DEF Gone, Same, Uses, Empty

LEMMA SameGood ==
  ASSUME NEW v \in Worker, pc[v] \in Label, ThreadTypes(v), Apart(v), Good(v), Same(v)
  PROVE  Good(v)'
<1>1. NoConn \notin Conn /\ Own(v) \subseteq Conn
  BY Numbers
<1>2. \A c \in Own(v) : /\ Uses(v, c)' <=> Uses(v, c)
                        /\ IdleConn(c)' <=> IdleConn(c)
  BY DEF Same, Uses, IdleConn, Empty
<1>3. Mine(v)' = Mine(v) /\ Me(v)' = Me(v)
  BY DEF Same, Mine, Me
<1>4. ItsValue(v)' <=> ItsValue(v)
  BY <1>3 DEF Same, ItsValue
<1>5. Result(v)' <=> Result(v)
  BY <1>4 DEF Same, Result
<1>6. \A part : From(v, part)' = From(v, part)
  BY <1>3 DEF From
<1>7. ASSUME NEW c \in Own(v), Waits(v, c) PROVE Waits(v, c)'
  <2>1. redis'[c] = redis[c] /\ wire'[c] = wire[c] /\ reply'[c] = reply[c]
    BY DEF Same
  <2>2. AtRedis(v, c) => AtRedis(v, c)'
    BY <1>3, <2>1 DEF AtRedis, Same
  <2>3. \A s : \A n : Rest(v, s, n) => Rest(v, s, n)'
    BY <1>6 DEF Rest
  <2>4. Rest(v, Tail(reply[c]), ValueLen) => Rest(v, Tail(reply[c]), ValueLen)'
    BY <2>1, <1>6 DEF Rest
  <2>5. Rest(v, reply[c], redis[c].length) => Rest(v, reply[c], redis[c].length)'
    BY <2>1, <1>6 DEF Rest
  <2>6. Coming(v, c) => Coming(v, c)'
    BY <1>6, <2>1, <2>4 DEF Coming, Same
  <2>7. Flowing(v, c) => Flowing(v, c)'
    <3>1. Begun(v, out[v], redis[c].length) => Begun(v, out[v], redis[c].length)'
      BY <1>6, <2>1 DEF Begun, Same
    <3> QED
      BY <2>1, <2>5, <3>1 DEF Flowing, Same
  <2>8. Empty(c)' <=> Empty(c)
    BY <2>1 DEF Empty
  <2>9. halfway'[v] = halfway[v] /\ out'[v] = out[v]
    BY DEF Same
  <2>10. CASE /\ redis[c].result = -1 /\ redis[c].input = <<>> /\ halfway[v] # c
              /\ \/ (AtRedis(v, c) \/ Coming(v, c)) /\ out[v] = <<>>
                 \/ Flowing(v, c)
    BY <2>1, <2>2, <2>6, <2>7, <2>9, <2>10 DEF Waits
  <2>11. CASE redis[c].result = 1 /\ Empty(c) /\ Result(v) /\ halfway[v] \in {c, NoConn}
    BY <1>5, <2>1, <2>8, <2>9, <2>11 DEF Waits
  <2>12. CASE /\ redis[c].result = 0 /\ redis[c].working = 0 /\ Empty(c)
              /\ out[v] = <<>> /\ halfway[v] = NoConn
    BY <2>1, <2>8, <2>9, <2>12 DEF Waits
  <2> QED
    BY <1>7, <2>10, <2>11, <2>12 DEF Waits
<1>8. Holding(v) => held[v] \in Own(v)
  BY <1>1 DEF Apart, ThreadTypes
<1>9. Uphold(v)'
  <2>1. CASE pc[v] \in {"idle", "look"}
    BY <1>3, <2>1 DEF Good, Uphold, Same
  <2>2. CASE pc[v] = "respond"
    BY <1>3, <1>4, <1>6, <2>2 DEF Good, Uphold, Same
  <2>3. CASE pc[v] = "claim"
    BY <1>3, <2>3 DEF Good, Uphold, Same
  <2>4. CASE pc[v] = "send"
    BY <1>8, <2>4 DEF Good, Uphold, Same, Holding, Empty
  <2>5. CASE pc[v] = "wait"
    <3>1. PICK c \in Own(v) : c = held[v]
      BY <1>8, <2>5 DEF Holding
    <3>2. Waits(v, c)
      BY <2>5, <3>1 DEF Good, Uphold
    <3>3. Waits(v, c)'
      BY <1>7, <3>2
    <3>4. pc'[v] = "wait" /\ held'[v] = c
      BY <2>5, <3>1 DEF Same
    <3>5. Waits(v, held[v])'
      BY <3>3, <3>4 DEF Waits, AtRedis, Coming, Flowing
    <3> QED
      BY <3>4, <3>5 DEF Uphold
  <2>6. CASE pc[v] = "free"
    <3>1. PICK c \in Own(v) : c = held[v]
      BY <1>8, <2>6 DEF Holding
    <3>2. /\ Empty(c) /\ redis[c].result = -1 /\ halfway[v] \in {c, NoConn} /\ Result(v)
      BY <2>6, <3>1 DEF Good, Uphold
    <3>3. /\ Empty(c)' /\ redis'[c].result = -1 /\ halfway'[v] \in {c, NoConn} /\ Result(v)'
      BY <1>5, <3>2 DEF Same, Empty
    <3>4. pc'[v] = "free" /\ held'[v] = c
      BY <2>6, <3>1 DEF Same
    <3>5. Empty(held[v])'
      BY <3>3, <3>4 DEF Empty
    <3> QED
      BY <3>3, <3>4, <3>5 DEF Uphold
  <2> QED
    BY <2>1, <2>2, <2>3, <2>4, <2>5, <2>6 DEF Label
<1>10. \A c \in Own(v) : Uses(v, c)' \/ IdleConn(c)'
  BY <1>2 DEF Good
<1>11. /\ pc'[v] = "look" => scan'[v] = 0
       /\ pc'[v] \in {"send", "wait", "free"} => held'[v] # Mine(v)' /\ redis'[held'[v]].sock = v
  BY <1>3, <1>8 DEF Good, Same, Holding
<1> QED
  BY <1>9, <1>10, <1>11 DEF Good

(* ... a connection that is lost stays so, ...                             *)
LEMMA GoneStays ==
  ASSUME PoolTypes, OwnInv, WholeOnly, NEW v \in Worker, Gone(v), Next
  PROVE  Gone(v)'
<1>1. PICK c \in Own(v) : /\ redis[c].working = 0 /\ redis[c].result = 0 /\ ~Uses(v, c)
                          /\ Empty(c) /\ halfway[v] # c
  BY DEF Gone
<1>2. c \in Conn /\ NoConn # c /\ redis \in [Conn -> Conns]
      /\ wire[c] = <<>> /\ reply[c] = <<>> /\ redis[c].input = <<>> /\ c \in Own(v)
  BY <1>1, Numbers DEF Empty, PoolTypes, TypeOK, Conns
<1>3. /\ Apart(v) /\ ThreadTypes(v)
      /\ \A w \in Worker : Holding(w) => held[w] \in Conn
  BY DEF OwnInv, PoolTypes, ThreadTypes
<1> SUFFICES /\ redis'[c].working = 0 /\ redis'[c].result = 0 /\ ~Uses(v, c)'
             /\ Empty(c)' /\ halfway'[v] # c
  BY DEF Gone
<1>4. ASSUME NEW w \in Worker, w # v, Take(w) \/ Serve(w) \/ FinishCount(w)
      PROVE  Same(v)
  BY <1>4, ThreadStep, FinishStep
<1>5. ASSUME Same(v) PROVE /\ redis'[c].working = 0 /\ redis'[c].result = 0 /\ ~Uses(v, c)'
                           /\ Empty(c)' /\ halfway'[v] # c
  BY <1>1, <1>5 DEF Same, Uses, Empty
<1>6. CASE Take(v) \/ PassOver(v) \/ Respond(v) \/ Fail(v)
  BY <1>1, <1>2, <1>6 DEF Take, PassOver, Respond, Fail, Goto, Uses, Empty, PoolTypes, TypeOK
<1>7. CASE Find(v)
  BY <1>1, <1>2, <1>7 DEF Find, Goto, Uses, Empty, PoolTypes, TypeOK
<1>8. CASE Claim(v)
  <2>1. held[v] \in Conn /\ held[v] # c
    BY <1>1, <1>3, <1>8 DEF Claim, Apart, Holding
  <2>2. redis'[c] = redis[c] /\ wire' = wire /\ reply' = reply /\ halfway' = halfway
        /\ held' = held
    BY <1>2, <1>8, <2>1 DEF Claim
  <2> QED
    BY <1>1, <2>1, <2>2 DEF Uses, Empty
<1>9. CASE Send(v) \/ Succeed(v) \/ Free(v)
  <2>1. held[v] \in Conn /\ held[v] # c
    BY <1>1, <1>3, <1>9 DEF Send, Succeed, Free, Holding, Uses
  <2>2. redis'[c] = redis[c] /\ wire'[c] = wire[c] /\ reply' = reply /\ halfway' = halfway
        /\ held'[v] \in {held[v], NoConn}
    BY <1>2, <1>9, <2>1 DEF Send, Succeed, Free, PoolTypes, TypeOK
  <2> QED
    BY <1>1, <1>2, <2>1, <2>2 DEF Uses, Empty
<1>10. CASE FinishCount(v)
  <2>1. halfway[v] \in Conn /\ halfway[v] # c
    BY <1>1, <1>10 DEF FinishCount, PoolTypes, TypeOK
  <2>2. /\ redis'[c] = redis[c] /\ wire' = wire /\ reply' = reply /\ halfway'[v] = NoConn
        /\ held' = held /\ pc' = pc
    BY <1>2, <1>10, <2>1 DEF FinishCount, workerVars, PoolTypes, TypeOK
  <2> QED
    BY <1>1, <1>2, <2>2 DEF Uses, Empty
<1>11. ASSUME NEW d \in Conn, Execute(d) PROVE Empty(c)' /\ UNCHANGED <<workerVars, redis, halfway>>
  <2>1. d # c
    BY <1>2, <1>11 DEF Execute
  <2> QED
    BY <1>2, <1>11, <2>1 DEF Execute, Empty, PoolTypes, TypeOK
<1>12. ASSUME NEW d \in Conn, Arrive(d)
       PROVE  /\ redis'[c].working = 0 /\ redis'[c].result = 0 /\ ~Uses(v, c)'
              /\ Empty(c)' /\ halfway'[v] # c
  <2>1. d # c
    <3>1. PICK k \in 1 .. Len(reply[d]) : TRUE
      BY <1>12 DEF Arrive
    <3>2. Len(<<>>) = 0
      BY EmptySeq
    <3> QED
      BY <1>2, <3>1, <3>2
  <2>2. /\ redis'[c] = redis[c] /\ reply'[c] = reply[c] /\ wire' = wire
        /\ held' = held /\ pc' = pc /\ halfway'[v] \in {halfway[v], d}
    BY <1>2, <1>12, <2>1 DEF Arrive, PoolTypes, TypeOK
  <2> QED
    BY <1>1, <2>1, <2>2 DEF Uses, Empty
<1>13. ASSUME NEW d \in Conn, Execute(d)
       PROVE  /\ redis'[c].working = 0 /\ redis'[c].result = 0 /\ ~Uses(v, c)'
              /\ Empty(c)' /\ halfway'[v] # c
  BY <1>1, <1>11, <1>13 DEF Uses, workerVars
<1> QED
  BY <1>4, <1>5, <1>6, <1>7, <1>8, <1>9, <1>10, <1>12, <1>13 DEF Next, Serve

(* ... and each step of the thread itself takes it to its next stand.      *)
LEMMA MineOwn ==
  ASSUME PoolTypes, NEW w \in Worker
  PROVE  Mine(w) \in Own(w) /\ Mine(w) # NoConn /\ Mine(w) \in Conn
BY OwnConn, Numbers DEF PoolTypes, TypeOK, Mine

LEMMA SearchGood ==
  ASSUME PoolTypes, OwnInv, WholeOnly, NEW w \in Worker, Good(w),
         Take(w) \/ PassOver(w) \/ Find(w) \/ Respond(w)
  PROVE  Good(w)'
<1>1. Mine(w) \in Own(w) /\ Mine(w) # NoConn /\ NoConn \notin Conn /\ Own(w) \subseteq Conn
  BY MineOwn, Numbers
<1>2. /\ redis' = redis /\ wire' = wire /\ reply' = reply /\ halfway' = halfway /\ shift' = shift
      /\ pc[w] \in {"idle", "look", "respond"}
  BY DEF Take, PassOver, Find, Respond
<1>3. Mine(w)' = Mine(w)
  BY <1>2 DEF Mine
<1>4. ASSUME NEW c \in Own(w) PROVE IdleConn(c) /\ IdleConn(c)'
  BY <1>2 DEF Good, Uses, IdleConn, Empty
<1>5. CASE Take(w)
  <2>1. /\ pc[w] = "idle" /\ pc'[w] = "look" /\ scan' = scan /\ out' = out
    BY <1>5 DEF Take, Goto, PoolTypes, TypeOK
  <2>2. scan'[w] = 0
    BY <2>1 DEF PoolTypes, TypeOK
  <2>3. out'[w] = <<>> /\ halfway'[w] # Mine(w)'
    BY <1>2, <1>3, <2>1 DEF Good, Uphold
  <2> QED
    BY <1>4, <2>1, <2>2, <2>3 DEF Good, Uphold
<1>6. CASE PassOver(w) \/ Find(w)
  <2>1. pc[w] = "look" /\ scan[w] = 0 /\ out[w] = <<>> /\ halfway[w] # Mine(w)
    BY <1>6 DEF PassOver, Find, Good, Uphold
  <2>2. Head(request[w]) # "any"
    BY <2>1, AskedRequest DEF OwnInv, Apart, Busy
  <2>3. Candidate(w) = Mine(w)
    BY <2>1, <2>2, OwnCandidate DEF PoolTypes
  <2>4. Find(w)
    BY <1>1, <1>4, <1>6, <2>3 DEF IdleConn, PassOver
  <2>5. pc'[w] = "claim" /\ held'[w] = Mine(w) /\ out' = out
    BY <2>3, <2>4 DEF Find, Goto, PoolTypes, TypeOK
  <2> QED
    BY <1>2, <1>3, <1>4, <2>1, <2>5 DEF Good, Uphold
<1>7. CASE Respond(w)
  <2>1. pc[w] = "respond" /\ pc'[w] = "idle" /\ out'[w] = <<>>
    BY <1>7 DEF Respond, Goto, PoolTypes, TypeOK
  <2>2. halfway'[w] # Mine(w)'
    BY <1>2, <1>3, <2>1 DEF Good, Uphold
  <2> QED
    BY <1>4, <2>1, <2>2 DEF Good, Uphold
<1> QED
  BY <1>5, <1>6, <1>7

LEMMA ClaimGood ==
  ASSUME PoolTypes, OwnInv, WholeOnly, NEW w \in Worker, Good(w), Claim(w)
  PROVE  Good(w)'
<1> DEFINE h == Mine(w)
<1>1. /\ h \in Own(w) /\ h # NoConn /\ NoConn \notin Conn /\ Own(w) \subseteq Conn /\ h \in Conn
      /\ redis \in [Conn -> Conns]
  BY MineOwn, Numbers DEF PoolTypes, TypeOK, Conns
<1>2. pc[w] = "claim" /\ held[w] = h /\ halfway[w] # h /\ out[w] = <<>>
  BY DEF Claim, Good, Uphold
<1>3. Head(request[w]) # "any"
  BY <1>2, AskedRequest DEF OwnInv, Apart, Busy, Holding
<1>4. Mine(w)' # h
  <2>1. shift'[w] = (shift[w] + 1) % PerThread /\ shift[w] \in 0 .. PerThread - 1
    BY <1>3 DEF Claim, Shifted, PoolTypes, TypeOK
  <2> DEFINE s == shift[w]
  <2> DEFINE n == (s + 1) % PerThread
  <2>2. n \in 0 .. PerThread - 1 /\ n # s /\ s \in 0 .. PerThread - 1
    BY <2>1, NextShift DEF WholeOnly
  <2>3. Mine(w)' = n + w * PerThread
    BY <2>1 DEF Mine
  <2>4. PerThread \in Nat /\ w \in Nat
    BY RedisPoolAssumption DEF Worker
  <2> HIDE DEF n, s
  <2>5. w * PerThread \in Nat
    BY <2>4
  <2>6. n + w * PerThread # s + w * PerThread
    BY <2>2, <2>4, <2>5
  <2> QED
    BY <2>3, <2>6 DEF Mine, s
<1> HIDE DEF h
<1>5. /\ redis'[h].working = 0 /\ redis'[h].result = redis[h].result
      /\ redis'[h].input = redis[h].input /\ redis'[h].sock = w
      /\ \A c \in Conn : c # h => redis'[c] = redis[c]
  BY <1>1, <1>2, <1>3 DEF Claim, Conns
<1>6. /\ wire' = wire /\ reply' = reply /\ halfway' = halfway /\ held' = held /\ out' = out
      /\ pc'[w] = "send"
  BY DEF Claim, Goto, PoolTypes, TypeOK
<1>7. \A c \in Own(w) : IdleConn(c)
  BY <1>2 DEF Good, Uses
<1>8. \A c \in Own(w) : Uses(w, c)' \/ IdleConn(c)'
  BY <1>1, <1>2, <1>5, <1>6, <1>7 DEF Uses, IdleConn, Empty
<1>9. Empty(held[w])' /\ redis'[h].result = -1
  BY <1>1, <1>2, <1>5, <1>6, <1>7 DEF IdleConn, Empty
<1> QED
  BY <1>1, <1>2, <1>4, <1>5, <1>6, <1>8, <1>9 DEF Good, Uphold

LEMMA SendGood ==
  ASSUME PoolTypes, OwnInv, WholeOnly, NEW w \in Worker, Good(w), Send(w)
  PROVE  Good(w)'
<1> PICK h \in Own(w) : h = held[w]
  BY Numbers DEF PoolTypes, OwnInv, Apart, ThreadTypes, Holding, Send
<1>1. /\ NoConn \notin Conn /\ Own(w) \subseteq Conn /\ h \in Conn
      /\ redis \in [Conn -> Conns]
  BY Numbers DEF PoolTypes, TypeOK, Conns
<1>2. /\ pc[w] = "send" /\ Empty(h) /\ redis[h].working = 0 /\ redis[h].result = -1
      /\ halfway[w] # h /\ out[w] = <<>> /\ h # Mine(w) /\ redis[h].sock = w
  BY DEF Send, Good, Uphold
<1>3. /\ reply' = reply /\ halfway' = halfway /\ held' = held /\ out' = out /\ shift' = shift
      /\ request' = request /\ served' = served /\ pc'[w] = "wait"
  BY DEF Send, Goto, PoolTypes, TypeOK
<1> DEFINE e == [of |-> Me(w), cmd |-> Head(request[w])]
<1>4. /\ wire'[h] = <<e>>
      /\ \A c \in Conn : c # h => redis'[c] = redis[c] /\ wire'[c] = wire[c]
  BY <1>1, <1>2 DEF Send, PoolTypes, TypeOK, Empty
<1>5. /\ redis'[h].working = 0 /\ redis'[h].result = -1
      /\ redis'[h].input = redis[h].input /\ redis'[h].sock = w
  BY <1>1, <1>2 DEF Send, Conns
<1>6. e' = e
  BY <1>3 DEF Me
<1>7. AtRedis(w, h)'
  BY <1>2, <1>3, <1>4, <1>5, <1>6 DEF AtRedis, Empty
<1>8. Waits(w, held[w])'
  <2>1. Waits(w, h)'
    BY <1>2, <1>3, <1>5, <1>7 DEF Waits, Empty
  <2> QED
    BY <1>3, <2>1 DEF Waits, AtRedis, Coming, Flowing
<1>9. \A c \in Own(w) : Uses(w, c)' \/ IdleConn(c)'
  <2>1. \A c \in Own(w) : c # h => IdleConn(c) /\ c \in Conn
    BY <1>1, <1>2 DEF Good, Uses
  <2> QED
    BY <1>1, <1>3, <1>4, <2>1 DEF Uses, IdleConn, Empty
<1>10. held'[w] # Mine(w)' /\ redis'[held'[w]].sock = w
  BY <1>2, <1>3, <1>5 DEF Mine
<1> QED
  BY <1>3, <1>8, <1>9, <1>10 DEF Good, Uphold

LEMMA WaitedGood ==
  ASSUME PoolTypes, OwnInv, WholeOnly, NEW w \in Worker, Good(w), Fail(w) \/ Succeed(w)
  PROVE  Good(w)' \/ Gone(w)'
<1> PICK h \in Own(w) : h = held[w]
  BY Numbers DEF PoolTypes, OwnInv, Apart, ThreadTypes, Holding, Fail, Succeed
<1>1. /\ NoConn \notin Conn /\ Own(w) \subseteq Conn /\ h \in Conn
      /\ redis \in [Conn -> Conns]
  BY Numbers DEF PoolTypes, TypeOK, Conns
<1>2. pc[w] = "wait" /\ Waits(w, h) /\ h # Mine(w) /\ redis[h].sock = w
  BY DEF Fail, Succeed, Good, Uphold
<1>3. CASE Fail(w)
  <2>1. /\ redis[h].result = 0 /\ redis' = redis /\ wire' = wire /\ reply' = reply
        /\ halfway' = halfway /\ pc'[w] = "respond"
    BY <1>3 DEF Fail, Goto, PoolTypes, TypeOK
  <2>2. redis[h].working = 0 /\ Empty(h) /\ halfway[w] = NoConn
    BY <1>2, <2>1 DEF Waits
  <2>3. Empty(h)' /\ ~Uses(w, h)' /\ halfway'[w] # h
    BY <1>1, <2>1, <2>2 DEF Empty, Uses
  <2>4. Gone(w)'
    BY <1>1, <2>1, <2>2, <2>3 DEF Gone, Own
  <2> QED
    BY <2>4
<1>4. CASE Succeed(w)
  <2>1. redis[h].result = 1 \/ (redis[h].result = -1 /\ redis[h].working = -1)
    BY <1>4 DEF Succeed
  <2>2. redis[h].result = 1 /\ Empty(h) /\ Result(w) /\ halfway[w] \in {h, NoConn}
    BY <1>2, <2>1 DEF Waits, AtRedis, Coming, Flowing
  <2>3. /\ wire' = wire /\ reply' = reply /\ halfway' = halfway /\ held' = held /\ out' = out
        /\ shift' = shift /\ request' = request /\ served' = served /\ pc'[w] = "free"
    BY <1>4 DEF Succeed, Goto, PoolTypes, TypeOK
  <2>4. /\ redis'[h].result = -1 /\ redis'[h].sock = w /\ redis'[h].input = redis[h].input
        /\ \A c \in Conn : c # h => redis'[c] = redis[c]
    BY <1>1, <1>2, <1>4 DEF Succeed, Conns
  <2>5. Result(w)'
    <3>1. ItsValue(w) => ItsValue(w)'
      BY <2>3 DEF ItsValue, Me
    <3> QED
      BY <2>2, <2>3, <3>1 DEF Result
  <2>6. Empty(held[w])'
    BY <2>2, <2>3, <2>4 DEF Empty
  <2>7. \A c \in Own(w) : Uses(w, c)' \/ IdleConn(c)'
    <3>1. \A c \in Own(w) : c # h => IdleConn(c) /\ c \in Conn
      BY <1>1, <1>2 DEF Good, Uses
    <3> QED
      BY <2>3, <2>4, <3>1 DEF Uses, IdleConn, Empty
  <2>8. held'[w] # Mine(w)' /\ redis'[held'[w]].sock = w /\ redis'[held'[w]].result = -1
    BY <1>2, <2>3, <2>4 DEF Mine
  <2>9. Uphold(w)'
    BY <2>2, <2>3, <2>5, <2>6, <2>8 DEF Uphold
  <2> QED
    BY <2>3, <2>7, <2>8, <2>9 DEF Good
<1> QED
  BY <1>3, <1>4

LEMMA FreeGood ==
  ASSUME PoolTypes, OwnInv, WholeOnly, NEW w \in Worker, Good(w), Free(w)
  PROVE  Good(w)'
<1> DEFINE h == held[w]
<1>1. /\ h \in Own(w) /\ NoConn \notin Conn /\ Own(w) \subseteq Conn /\ h \in Conn
      /\ redis \in [Conn -> Conns] /\ Mine(w) # NoConn
  BY Numbers, MineOwn DEF PoolTypes, TypeOK, Conns, OwnInv, Apart, ThreadTypes, Holding, Free
<1>2. /\ pc[w] = "free" /\ Empty(h) /\ redis[h].result = -1 /\ halfway[w] \in {h, NoConn}
      /\ Result(w) /\ h # Mine(w)
  BY DEF Free, Good, Uphold
<1>3. /\ wire' = wire /\ reply' = reply /\ halfway' = halfway /\ held'[w] = NoConn
      /\ shift' = shift /\ scan' = scan /\ served' = served
  BY DEF Free, PoolTypes, TypeOK
<1>4. /\ redis'[h].working = -1 /\ redis'[h].result = -1 /\ redis'[h].input = redis[h].input
      /\ \A c \in Conn : c # h => redis'[c] = redis[c]
  BY <1>1, <1>2 DEF Free, Conns
<1>5. \A c \in Own(w) : IdleConn(c)'
  <2>1. \A c \in Own(w) : c # h => IdleConn(c) /\ c \in Conn
    BY <1>1, <1>2 DEF Good, Uses
  <2> QED
    BY <1>2, <1>3, <1>4, <2>1 DEF IdleConn, Empty
<1>6. halfway'[w] # Mine(w)'
  BY <1>1, <1>2, <1>3 DEF Mine
<1>7. /\ Asked(request[w]) /\ request[w] \in Seq(Cmd) /\ request[w] # <<>>
      /\ Head(request[w]) \in {"get", "own"}
      /\ Head(request[w]) = "get" => request[w] = <<"get">>
  BY <1>2, AskedRequest DEF OwnInv, Apart, Busy, Holding
<1>8. CASE Len(request[w]) > 1
  <2>1. pc'[w] = "look" /\ out' = out
    BY <1>8 DEF Free, Goto, PoolTypes, TypeOK
  <2>2. Head(request[w]) # "get"
    <3> SUFFICES ASSUME Head(request[w]) = "get" PROVE FALSE
      OBVIOUS
    <3>1. request[w] = <<"get">>
      BY <1>7
    <3>2. Len(request[w]) = 1
      BY <3>1
    <3>3. ~(1 > 1)
      OBVIOUS
    <3> QED
      BY <1>8, <3>2, <3>3
  <2>3. out'[w] = <<>>
    BY <1>2, <2>1, <2>2 DEF Result
  <2>4. scan'[w] = 0
    BY <1>2, <1>3 DEF PoolTypes, TypeOK
  <2> QED
    BY <1>5, <1>6, <2>1, <2>3, <2>4 DEF Good, Uphold
<1>9. CASE ~(Len(request[w]) > 1)
  <2>1. pc'[w] = "respond" /\ out'[w] = out[w] \o Okay(w)
    BY <1>9 DEF Free, Goto, PoolTypes, TypeOK
  <2>2. out[w] \in Seq(Piece)
    BY DEF PoolTypes, TypeOK
  <2>3. CASE Head(request[w]) = "get"
    <3>1. ItsValue(w) /\ Okay(w) = <<>>
      BY <1>2, <2>3 DEF Result, Okay
    <3>2. out'[w] = out[w]
      BY <2>1, <2>2, <3>1, ConcatEmptySeq
    <3>3. ItsValue(w)'
      BY <1>3, <3>1, <3>2 DEF ItsValue, Me
    <3> QED
      BY <1>5, <1>6, <2>1, <3>3 DEF Good, Uphold
  <2>4. CASE Head(request[w]) # "get"
    <3>1. out[w] = <<>> /\ Okay(w) = <<From(w, "OK")>>
      BY <1>2, <2>4 DEF Result, Okay, From
    <3>2. <<From(w, "OK")>> \in Seq(Piece)
      BY MyPiece DEF Part
    <3>3. out'[w] = <<From(w, "OK")>>
      BY <2>1, <3>1, <3>2, ConcatEmptySeq
    <3>4. out'[w] = <<From(w, "OK")>>'
      BY <1>3, <3>3 DEF From, Me
    <3> QED
      BY <1>5, <1>6, <2>1, <3>4 DEF Good, Uphold
  <2> QED
    BY <2>3, <2>4
<1> QED
  BY <1>8, <1>9

(* The late store of working falls on a connection that is free or on the  *)
(* one whose result the thread has just seen, never on one claimed anew.   *)
LEMMA FinishGood ==
  ASSUME PoolTypes, OwnInv, WholeOnly, NEW w \in Worker, Good(w), FinishCount(w)
  PROVE  Good(w)'
<1> PICK d \in Own(w) : d = halfway[w]
  BY DEF OwnInv, Apart, FinishCount
<1>1. /\ NoConn \notin Conn /\ Own(w) \subseteq Conn /\ d \in Conn /\ d # NoConn
      /\ redis \in [Conn -> Conns] /\ Mine(w) # NoConn
      /\ Holding(w) => held[w] \in Own(w)
  BY Numbers, MineOwn DEF PoolTypes, TypeOK, Conns, OwnInv, Apart, ThreadTypes
<1>2. /\ wire' = wire /\ reply' = reply /\ halfway'[w] = NoConn /\ pc' = pc
      /\ request' = request /\ served' = served /\ out' = out /\ scan' = scan /\ shift' = shift
      /\ held' = held
  BY DEF FinishCount, workerVars, PoolTypes, TypeOK
<1>3. /\ redis'[d].working = -1 /\ redis'[d].result = redis[d].result
      /\ redis'[d].input = redis[d].input /\ redis'[d].sock = redis[d].sock
      /\ \A c \in Conn : c # d => redis'[c] = redis[c]
  BY <1>1 DEF FinishCount, Conns
<1>4. \A c \in Own(w) : Uses(w, c)' \/ IdleConn(c)'
  BY <1>1, <1>2, <1>3 DEF Good, Uses, IdleConn, Empty
<1>5. /\ Mine(w)' = Mine(w) /\ (ItsValue(w) => ItsValue(w)')
      /\ \A part : From(w, part)' = From(w, part)
  BY <1>2 DEF Mine, ItsValue, Me, From
<1>6. \A c \in Own(w) : Empty(c) => Empty(c)'
  BY <1>1, <1>2, <1>3 DEF Empty
<1>7. Result(w) => Result(w)'
  BY <1>2, <1>5 DEF Result
<1>8. /\ pc'[w] = "look" => scan'[w] = 0
      /\ pc'[w] \in {"send", "wait", "free"} => held'[w] # Mine(w)' /\ redis'[held'[w]].sock = w
  BY <1>1, <1>2, <1>3, <1>5 DEF Good, Holding
<1>9. Uphold(w)'
  <2>1. CASE pc[w] \in {"idle", "look"}
    BY <1>1, <1>2, <1>5, <2>1 DEF Good, Uphold
  <2>2. CASE pc[w] = "respond"
    BY <1>1, <1>2, <1>5, <2>2 DEF Good, Uphold
  <2>3. CASE pc[w] = "claim"
    <3>1. held[w] = Mine(w) /\ out[w] = <<>>
      BY <2>3 DEF Good, Uphold
    <3> QED
      BY <1>1, <1>2, <1>5, <2>3, <3>1 DEF Uphold
  <2>4. CASE pc[w] = "send"
    <3>1. PICK h \in Own(w) : h = held[w]
      BY <1>1, <2>4 DEF Holding
    <3>2. /\ Empty(h) /\ redis[h].working = 0 /\ redis[h].result = -1 /\ h # d /\ out[w] = <<>>
      BY <2>4, <3>1 DEF Good, Uphold
    <3>3. /\ Empty(h)' /\ redis'[h].working = 0 /\ redis'[h].result = -1 /\ held'[w] = h
      BY <1>1, <1>2, <1>3, <1>6, <3>1, <3>2
    <3>4. Empty(held[w])'
      BY <3>3 DEF Empty
    <3>5. halfway'[w] # held'[w]
      BY <1>1, <1>2, <3>3
    <3> QED
      BY <1>2, <2>4, <3>2, <3>3, <3>4, <3>5 DEF Uphold
  <2>5. CASE pc[w] = "wait"
    <3>1. PICK h \in Own(w) : h = held[w]
      BY <1>1, <2>5 DEF Holding
    <3>2. Waits(w, h)
      BY <2>5, <3>1 DEF Good, Uphold
    <3>3. Waits(w, h)'
      <4>1. CASE /\ redis[h].result = -1 /\ redis[h].input = <<>> /\ halfway[w] # h
                 /\ \/ (AtRedis(w, h) \/ Coming(w, h)) /\ out[w] = <<>>
                    \/ Flowing(w, h)
        <5>1. redis'[h] = redis[h] /\ halfway'[w] # h
          BY <1>1, <1>2, <1>3, <4>1
        <5>2. AtRedis(w, h) => AtRedis(w, h)'
          BY <1>2, <5>1 DEF AtRedis, Me
        <5>3. Rest(w, Tail(reply[h]), ValueLen) => Rest(w, Tail(reply[h]), ValueLen)'
          BY <1>2, <1>5 DEF Rest
        <5>4. Rest(w, reply[h], redis[h].length) => Rest(w, reply[h], redis[h].length)'
          BY <1>2, <1>5, <5>1 DEF Rest
        <5>5. Coming(w, h) => Coming(w, h)'
          BY <1>2, <1>5, <5>1, <5>3 DEF Coming
        <5>6. Flowing(w, h) => Flowing(w, h)'
          <6>1. Begun(w, out[w], redis[h].length) => Begun(w, out[w], redis[h].length)'
            BY <1>2, <1>5, <5>1 DEF Begun
          <6> QED
            BY <1>2, <5>1, <5>4, <6>1 DEF Flowing
        <5> QED
          BY <1>2, <4>1, <5>1, <5>2, <5>5, <5>6 DEF Waits
      <4>2. CASE redis[h].result = 1 /\ Empty(h) /\ Result(w) /\ halfway[w] \in {h, NoConn}
        <5>1. redis'[h].result = 1
          BY <1>1, <1>3, <4>2
        <5> QED
          BY <1>2, <1>6, <1>7, <4>2, <5>1 DEF Waits
      <4>3. CASE halfway[w] = NoConn
        BY <1>1, <4>3
      <4> QED
        BY <3>2, <4>1, <4>2, <4>3 DEF Waits
    <3>4. Waits(w, held[w])'
      BY <1>2, <3>1, <3>3 DEF Waits, AtRedis, Coming, Flowing
    <3> QED
      BY <1>2, <2>5, <3>4 DEF Uphold
  <2>6. CASE pc[w] = "free"
    <3>1. PICK h \in Own(w) : h = held[w]
      BY <1>1, <2>6 DEF Holding
    <3>2. Empty(h) /\ redis[h].result = -1 /\ Result(w)
      BY <2>6, <3>1 DEF Good, Uphold
    <3>3. Empty(h)' /\ redis'[h].result = -1 /\ held'[w] = h
      BY <1>1, <1>2, <1>3, <1>6, <3>1, <3>2
    <3>4. Empty(held[w])'
      BY <3>3 DEF Empty
    <3> QED
      BY <1>2, <1>7, <2>6, <3>2, <3>3, <3>4 DEF Uphold
  <2> QED
    BY <2>1, <2>2, <2>3, <2>4, <2>5, <2>6 DEF PoolTypes, TypeOK
<1> QED
  BY <1>4, <1>8, <1>9 DEF Good

(* Only on the connection a thread waits for is anything underway.         *)
LEMMA OnlyWaiting ==
  ASSUME PoolTypes, NEW w \in Worker, NEW c \in Own(w), Good(w), ~Empty(c)
  PROVE  pc[w] = "wait" /\ held[w] = c /\ Waits(w, c) /\ redis[c].result = -1
<1>1. Uses(w, c)
  BY DEF Good, IdleConn
<1>2. pc[w] = "wait" /\ held[w] = c /\ Waits(w, c)
  BY <1>1 DEF Good, Uses, Uphold
<1> QED
  BY <1>2 DEF Waits

LEMMA ExecuteGood ==
  ASSUME PoolTypes, OwnInv, WholeOnly, NEW w \in Worker, NEW c \in Own(w), Good(w), Execute(c)
  PROVE  Good(w)'
<1>1. c \in Conn /\ Own(w) \subseteq Conn
  BY Numbers
<1>2. /\ wire' = [wire EXCEPT ![c] = Tail(wire[c])] /\ wire[c] # <<>> /\ redis' = redis
      /\ halfway' = halfway /\ pc' = pc /\ request' = request /\ served' = served
      /\ out' = out /\ scan' = scan /\ shift' = shift /\ held' = held
  BY <1>1 DEF Execute, workerVars, PoolTypes, TypeOK
<1>3. pc[w] = "wait" /\ held[w] = c /\ Waits(w, c) /\ redis[c].result = -1
  BY <1>2, OnlyWaiting DEF Empty
<1>4. AtRedis(w, c) /\ out[w] = <<>> /\ redis[c].input = <<>> /\ halfway[w] # c
  BY <1>2, <1>3 DEF Waits, Coming, Flowing
<1> DEFINE e == [of |-> Me(w), cmd |-> Head(request[w])]
<1>5. wire[c] = <<e>> /\ reply[c] = <<>> /\ redis[c].working = 0
  BY <1>4 DEF AtRedis
<1>6. Asked(request[w]) /\ Head(request[w]) \in {"get", "own"}
  BY <1>3, AskedRequest DEF OwnInv, Apart, Busy, Holding
<1>7. e \in [of : Id, cmd : Cmd]
  BY <1>6, MyPiece DEF Cmd
<1>8. Head(wire[c]) = e /\ Tail(wire[c]) = <<>>
  BY <1>5
<1>9. PICK parts \in Replies(e.cmd) : reply' = [reply EXCEPT ![c] = reply[c] \o Answer(e, parts)]
  BY <1>1, <1>8, ExecuteTypes
<1>10. /\ Answer(e, parts) \in Seq(Piece) /\ Len(Answer(e, parts)) = Len(parts)
       /\ parts \in Seq(Part)
  BY <1>7, <1>9, AnswerTypes
<1>11. /\ wire'[c] = <<>> /\ reply'[c] = Answer(e, parts)
       /\ \A d \in Conn : d # c => wire'[d] = wire[d] /\ reply'[d] = reply[d]
  <2>1. reply[c] \o Answer(e, parts) = Answer(e, parts)
    BY <1>5, <1>10, ConcatEmptySeq
  <2> QED
    BY <1>1, <1>2, <1>8, <1>9, <2>1 DEF PoolTypes, TypeOK
<1>12. \A part : From(w, part)' = From(w, part) /\ From(w, part) = [of |-> Me(w), part |-> part]
  BY <1>2 DEF From, Me
<1>13. \A i \in 1 .. Len(parts) : Answer(e, parts)[i] = From(w, parts[i])
  <2>1. DOMAIN parts = 1 .. Len(parts)
    BY <1>10, LenProperties
  <2> QED
    BY <1>12, <2>1 DEF Answer
<1>14. e.cmd = Head(request[w])
  OBVIOUS
<1> HIDE DEF e
<1>15. Coming(w, c)'
  <2>1. CASE Head(request[w]) = "own"
    <3>1. parts = <<"count">>
      BY <1>9, <1>14, <2>1 DEF Replies
    <3>2. Len(Answer(e, parts)) = 1 /\ Answer(e, parts)[1] = From(w, "count")
      BY <1>10, <1>13, <3>1
    <3>3. Answer(e, parts) = <<From(w, "count")>>
      BY <1>10, <3>2
    <3> QED
      BY <1>2, <1>5, <1>11, <1>12, <2>1, <3>3 DEF Coming
  <2>2. CASE Head(request[w]) = "get" /\ parts = <<"nil">>
    <3>1. Len(Answer(e, parts)) = 1 /\ Answer(e, parts)[1] = From(w, "nil")
      BY <1>10, <1>13, <2>2
    <3>2. Answer(e, parts) = <<From(w, "nil")>>
      BY <1>10, <3>1
    <3> QED
      BY <1>2, <1>5, <1>11, <1>12, <2>2, <3>2 DEF Coming
  <2>3. CASE Head(request[w]) = "get" /\ parts = <<"value">> \o Bytes \o <<"end">>
    <3> DEFINE a == Answer(e, parts)
    <3>1. /\ Len(parts) = ValueLen + 2 /\ parts[1] = "value" /\ parts[ValueLen + 2] = "end"
          /\ \A i \in 2 .. ValueLen + 1 : parts[i] = "byte"
      BY <2>3, ValueParts
    <3>2. a \in Seq(Piece) /\ Len(a) = ValueLen + 2 /\ ValueLen \in Nat \ {0}
      BY <1>10, <3>1, RedisPoolAssumption
    <3>3. \A i \in 1 .. ValueLen + 2 : a[i] = From(w, parts[i])
      BY <1>13, <3>1
    <3> HIDE DEF a
    <3>4. a # <<>>
      <4>1. Len(<<>>) = 0 /\ ValueLen + 2 # 0
        BY <3>2
      <4> QED
        BY <3>2, <4>1
    <3>5. Head(a) = From(w, "value")
      <4>1. 1 \in 1 .. ValueLen + 2 /\ Head(a) = a[1]
        BY <3>2, <3>4
      <4> QED
        BY <3>1, <3>3, <4>1
    <3>6. /\ Tail(a) \in Seq(Piece) /\ Len(Tail(a)) = ValueLen + 1
          /\ \A i \in 1 .. ValueLen + 1 : Tail(a)[i] = a[i + 1]
      <4>1. /\ Tail(a) \in Seq(Piece) /\ Len(Tail(a)) = Len(a) - 1
            /\ \A i \in 1 .. Len(Tail(a)) : Tail(a)[i] = a[i + 1]
        BY <3>2, <3>4, HeadTailProperties
      <4> QED
        BY <3>2, <4>1
    <3>7. Rest(w, Tail(a), ValueLen)
      <4>1. ASSUME NEW i \in 1 .. ValueLen PROVE Tail(a)[i] = From(w, "byte")
        <5>1. i + 1 \in 2 .. ValueLen + 1 /\ i + 1 \in 1 .. ValueLen + 2 /\ i \in 1 .. ValueLen + 1
          BY <3>2
        <5> QED
          BY <3>1, <3>3, <3>6, <5>1
      <4>2. Tail(a)[ValueLen + 1] = From(w, "end")
        <5>1. PICK j \in 1 .. ValueLen + 1 : j = ValueLen + 1
          BY <3>2
        <5>2. j + 1 = ValueLen + 2 /\ j + 1 \in 1 .. ValueLen + 2
          BY <3>2, <5>1
        <5> QED
          BY <3>1, <3>3, <3>6, <5>1, <5>2
      <4> QED
        BY <3>6, <4>1, <4>2 DEF Rest
    <3>8. reply'[c] = a
      BY <1>11 DEF a
    <3>9. Rest(w, Tail(reply[c]), ValueLen)'
      BY <1>12, <3>7, <3>8 DEF Rest
    <3> QED
      BY <1>2, <1>5, <1>11, <1>12, <2>3, <3>4, <3>5, <3>8, <3>9 DEF Coming
  <2> QED
    BY <1>6, <1>9, <1>14, <2>1, <2>2, <2>3 DEF Replies
<1>16. Waits(w, c)'
  BY <1>2, <1>3, <1>4, <1>15 DEF Waits
<1>17. Uphold(w)'
  <2>1. Waits(w, held[w])'
    BY <1>2, <1>3, <1>16 DEF Waits, AtRedis, Coming, Flowing
  <2> QED
    BY <1>2, <1>3, <2>1 DEF Uphold
<1>18. \A d \in Own(w) : Uses(w, d)' \/ IdleConn(d)'
  <2>1. \A d \in Own(w) : d # c => IdleConn(d) /\ d \in Conn
    BY <1>1, <1>3 DEF Good, Uses
  <2> QED
    BY <1>2, <1>3, <1>11, <2>1 DEF Uses, IdleConn, Empty
<1> QED
  BY <1>2, <1>3, <1>17, <1>18 DEF Good, Mine

(* The body of a value, n bytes of which are still expected, when k pieces *)
(* are there: bytes, and the end behind the last one.                      *)
LEMMA BodyFlows ==
  ASSUME NEW r \in Conns, NEW n \in 0 .. ValueLen, NEW k \in 0 .. n + 1, k # 0 \/ n # 0,
         r.length = n, Len(r.input) = k, r.result = -1
  PROVE  /\ Body(r).input = <<>> /\ Body(r).working = r.working /\ Body(r).sock = r.sock
         /\ k <= n => Body(r).length = n - k /\ Body(r).result = -1
         /\ k > n => Body(r).result = 1
         /\ BodyWritten(r) \in Seq(Piece)
         /\ Len(BodyWritten(r)) = IF k <= n THEN k ELSE n
         /\ \A i \in 1 .. Len(BodyWritten(r)) : BodyWritten(r)[i] = r.input[i]
<1>1. ValueLen \in Nat \ {0} /\ n \in Nat /\ k \in Nat
  BY RedisPoolAssumption
<1>2. r.input \in Seq(Piece)
  BY DEF Conns
<1>3. CASE k <= n
  <2>1. n # 0
    BY <1>1, <1>3
  <2>2. Body(r) = [r EXCEPT !.input = <<>>, !.length = n - k, !.result = -1]
    <3>1. Body(r) = [r EXCEPT !.input = <<>>, !.length = n - k, !.result = r.result]
      BY <1>3, <2>1 DEF Body, Conns
    <3> QED
      BY <3>1
  <2>3. BodyWritten(r) = r.input
    BY <1>3 DEF BodyWritten
  <2>4. /\ Body(r).input = <<>> /\ Body(r).working = r.working /\ Body(r).sock = r.sock
        /\ Body(r).length = n - k /\ Body(r).result = -1
    BY <2>2 DEF Conns
  <2> QED
    BY <1>1, <1>2, <1>3, <2>3, <2>4
<1>4. CASE ~(k <= n)
  <2>1. k = n + 1 /\ k > n
    BY <1>1, <1>4
  <2>2. Body(r) = [r EXCEPT !.input = <<>>, !.length = -1, !.result = 1]
    BY <1>4 DEF Body
  <2>3. BodyWritten(r) = SubSeq(r.input, 1, n)
    BY <1>4 DEF BodyWritten
  <2>4. \A i \in 1 .. n : r.input[i] \in Piece
    BY <1>1, <1>2, <2>1, ElementOfSeq
  <2>5. /\ SubSeq(r.input, 1, n) \in Seq(Piece)
        /\ Len(SubSeq(r.input, 1, n)) = IF 1 <= n THEN n - 1 + 1 ELSE 0
        /\ \A i \in 1 .. n - 1 + 1 : SubSeq(r.input, 1, n)[i] = r.input[1 + i - 1]
    BY <1>1, <2>4, SubSeqProperties, 1 \in Int, n \in Int
  <2>6. Len(SubSeq(r.input, 1, n)) = n
    BY <1>1, <2>5
  <2>7. \A i \in 1 .. n : SubSeq(r.input, 1, n)[i] = r.input[i]
    BY <1>1, <2>5
  <2>8. Body(r).input = <<>> /\ Body(r).working = r.working /\ Body(r).sock = r.sock
        /\ Body(r).result = 1
    BY <2>2 DEF Conns
  <2> QED
    BY <1>4, <2>1, <2>3, <2>5, <2>6, <2>7, <2>8
<1> QED
  BY <1>3, <1>4

(* What was written, and then some bytes. *)
LEMMA BytesFollow ==
  ASSUME NEW first, NEW b, NEW s \in Seq(Piece), NEW t \in Seq(Piece), s # <<>>,
         Head(s) = first, \A i \in 2 .. Len(s) : s[i] = b, \A i \in 1 .. Len(t) : t[i] = b
  PROVE  /\ s \o t \in Seq(Piece) /\ Len(s \o t) = Len(s) + Len(t)
         /\ s \o t # <<>> /\ Head(s \o t) = first
         /\ \A i \in 2 .. Len(s) + Len(t) : (s \o t)[i] = b
<1> DEFINE q == s \o t
<1>1. Len(s) \in Nat \ {0} /\ Len(t) \in Nat /\ Head(s) = s[1]
  BY EmptySeq, LenProperties
<1>2. /\ q \in Seq(Piece) /\ Len(q) = Len(s) + Len(t)
      /\ \A i \in 1 .. Len(s) + Len(t) : q[i] = IF i <= Len(s) THEN s[i] ELSE t[i - Len(s)]
  BY ConcatProperties
<1> HIDE DEF q
<1>3. Len(s) + Len(t) # 0 /\ 1 \in 1 .. Len(s) + Len(t) /\ 1 <= Len(s)
  BY <1>1
<1>4. q # <<>> /\ Head(q) = q[1]
  BY <1>2, <1>3, EmptySeq
<1>5. Head(q) = first
  BY <1>1, <1>2, <1>3, <1>4
<1>6. ASSUME NEW i \in 2 .. Len(s) + Len(t) PROVE q[i] = b
  <2>1. i \in 1 .. Len(s) + Len(t)
    BY <1>1
  <2>2. CASE i <= Len(s)
    BY <1>1, <1>2, <2>1, <2>2
  <2>3. CASE ~(i <= Len(s))
    <3>1. i - Len(s) \in 1 .. Len(t)
      BY <1>1, <2>3
    <3> QED
      BY <1>2, <2>1, <2>3, <3>1
  <2> QED
    BY <2>2, <2>3
<1> QED
  BY <1>2, <1>4, <1>5, <1>6 DEF q

(* The whole of the value. *)
LEMMA WholeValue ==
  ASSUME NEW w, NEW s, Begun(w, s, 0)
  PROVE  s = [i \in 1 .. ValueLen + 1 |->
                [of |-> Me(w), part |-> IF i = 1 THEN "value" ELSE "byte"]]
<1>1. ValueLen \in Nat
  BY RedisPoolAssumption
<1>2. /\ s \in Seq(Piece) /\ s # <<>> /\ Head(s) = From(w, "value") /\ Len(s) = 1 + ValueLen
      /\ \A i \in 2 .. Len(s) : s[i] = From(w, "byte")
  BY <1>1 DEF Begun
<1>3. s \in [1 .. Len(s) -> Piece] /\ 1 .. Len(s) = 1 .. ValueLen + 1
  BY <1>1, <1>2, LenProperties
<1>4. ASSUME NEW i \in 1 .. ValueLen + 1
      PROVE  s[i] = [of |-> Me(w), part |-> IF i = 1 THEN "value" ELSE "byte"]
  <2>1. CASE i = 1
    <3>1. s[1] = From(w, "value")
      BY <1>2, LenProperties
    <3> QED
      BY <2>1, <3>1 DEF From
  <2>2. CASE i # 1
    <3>1. i \in 2 .. Len(s)
      BY <1>1, <1>2, <2>2
    <3> QED
      BY <1>2, <2>2, <3>1 DEF From
  <2> QED
    BY <2>1, <2>2
<1> QED
  BY <1>3, <1>4

(* What is left of a sequence when k pieces are taken off, piece by piece. *)
LEMMA Taken ==
  ASSUME NEW s \in Seq(Piece), NEW k \in 0 .. Len(s)
  PROVE  /\ SubSeq(s, 1, k) \in Seq(Piece) /\ Len(SubSeq(s, 1, k)) = k
         /\ \A i \in 1 .. k : SubSeq(s, 1, k)[i] = s[i]
         /\ SubSeq(s, k + 1, Len(s)) \in Seq(Piece)
         /\ Len(SubSeq(s, k + 1, Len(s))) = Len(s) - k
         /\ \A i \in 1 .. Len(s) - k : SubSeq(s, k + 1, Len(s))[i] = s[k + i]
<1>1. Len(s) \in Nat /\ k \in Int /\ k \in Nat /\ 1 \in Int /\ k + 1 \in Int /\ Len(s) \in Int
  BY LenProperties
<1>2. \A i \in 1 .. Len(s) : s[i] \in Piece
  BY ElementOfSeq
<1>3. (\A i \in 1 .. k : s[i] \in Piece) /\ (\A i \in k + 1 .. Len(s) : s[i] \in Piece)
  BY <1>1, <1>2
<1>4. /\ SubSeq(s, 1, k) \in Seq(Piece)
      /\ Len(SubSeq(s, 1, k)) = IF 1 <= k THEN k - 1 + 1 ELSE 0
      /\ \A i \in 1 .. k - 1 + 1 : SubSeq(s, 1, k)[i] = s[1 + i - 1]
  BY <1>1, <1>3, SubSeqProperties
<1>5. /\ SubSeq(s, k + 1, Len(s)) \in Seq(Piece)
      /\ Len(SubSeq(s, k + 1, Len(s))) = IF k + 1 <= Len(s) THEN Len(s) - (k + 1) + 1 ELSE 0
      /\ \A i \in 1 .. Len(s) - (k + 1) + 1 : SubSeq(s, k + 1, Len(s))[i] = s[k + 1 + i - 1]
  BY <1>1, <1>3, SubSeqProperties
<1>6. Len(SubSeq(s, 1, k)) = k /\ \A i \in 1 .. k : SubSeq(s, 1, k)[i] = s[i]
  BY <1>1, <1>4
<1>7. Len(SubSeq(s, k + 1, Len(s))) = Len(s) - k
  BY <1>1, <1>5
<1>8. ASSUME NEW i \in 1 .. Len(s) - k PROVE SubSeq(s, k + 1, Len(s))[i] = s[k + i]
  <2>1. i \in 1 .. Len(s) - (k + 1) + 1 /\ k + 1 + i - 1 = k + i
    BY <1>1
  <2> QED
    BY <1>5, <2>1
<1> QED
  BY <1>4, <1>5, <1>6, <1>7, <1>8

(* What the callback makes of pieces of a value: r is the record with its  *)
(* header read; length bytes and the end are still on their way, of which  *)
(* the pieces in input are there.                                          *)
BytesFirst(w, r) ==
  /\ r.length \in 0 .. ValueLen /\ r.result = -1
  /\ Len(r.input) \in 0 .. r.length + 1 /\ (Len(r.input) # 0 \/ r.length # 0)
  /\ \A i \in 1 .. r.length : i <= Len(r.input) => r.input[i] = From(w, "byte")

(* How many bytes are to come after these. *)
ToCome(r) == IF Len(r.input) <= r.length THEN r.length - Len(r.input) ELSE 0

LEMMA ValueFlows ==
  ASSUME NEW w, NEW r \in Conns, NEW s, BytesFirst(w, r), Begun(w, s, r.length)
  PROVE  /\ Body(r).input = <<>> /\ Body(r).working = r.working /\ Body(r).sock = r.sock
         /\ Len(r.input) <= r.length => Body(r).length = ToCome(r) /\ Body(r).result = -1
         /\ Len(r.input) > r.length => Body(r).result = 1
         /\ Begun(w, s \o BodyWritten(r), ToCome(r)) /\ ToCome(r) \in 0 .. ValueLen
<1> DEFINE n == r.length
<1> DEFINE k == Len(r.input)
<1> DEFINE value == From(w, "value")
<1> DEFINE byte == From(w, "byte")
<1>1. /\ ValueLen \in Nat /\ n \in 0 .. ValueLen /\ r.result = -1
      /\ k \in 0 .. n + 1 /\ (k # 0 \/ n # 0)
      /\ \A i \in 1 .. n : i <= k => r.input[i] = byte
  BY RedisPoolAssumption DEF BytesFirst
<1>2. /\ s \in Seq(Piece) /\ s # <<>> /\ Head(s) = value
      /\ Len(s) = 1 + ValueLen - n /\ \A i \in 2 .. Len(s) : s[i] = byte
  BY DEF Begun
<1> DEFINE t == BodyWritten(r)
<1>3. /\ Body(r).input = <<>> /\ Body(r).working = r.working /\ Body(r).sock = r.sock
      /\ k <= n => Body(r).length = n - k /\ Body(r).result = -1
      /\ k > n => Body(r).result = 1
      /\ t \in Seq(Piece) /\ Len(t) = IF k <= n THEN k ELSE n
      /\ \A i \in 1 .. Len(t) : t[i] = r.input[i]
  BY <1>1, BodyFlows
<1>4. ToCome(r) = IF k <= n THEN n - k ELSE 0
  BY DEF ToCome
<1> HIDE DEF t, n, k, value, byte
<1>5. n \in Nat /\ k \in Nat
  BY <1>1
<1>6. ASSUME NEW i \in 1 .. Len(t) PROVE t[i] = byte
  <2>1. i \in 1 .. n /\ i <= k
    BY <1>3, <1>5
  <2> QED
    BY <1>1, <1>3, <2>1
<1>7. /\ s \o t \in Seq(Piece) /\ Len(s \o t) = Len(s) + Len(t)
      /\ s \o t # <<>> /\ Head(s \o t) = value
      /\ \A i \in 2 .. Len(s) + Len(t) : (s \o t)[i] = byte
  BY <1>2, <1>3, <1>6, BytesFollow
<1>8. Len(s \o t) = 1 + ValueLen - ToCome(r) /\ ToCome(r) \in 0 .. ValueLen
  <2>1. CASE k <= n
    BY <1>1, <1>2, <1>3, <1>4, <1>5, <1>7, <2>1
  <2>2. CASE ~(k <= n)
    BY <1>1, <1>2, <1>3, <1>4, <1>5, <1>7, <2>2
  <2> QED
    BY <2>1, <2>2
<1>9. Begun(w, s \o t, ToCome(r))
  BY <1>7, <1>8 DEF Begun, value, byte
<1>10. k <= n => ToCome(r) = n - k
  BY <1>4
<1> QED
  BY <1>3, <1>8, <1>9, <1>10 DEF t, n, k

LEMMA ArriveGood ==
  ASSUME PoolTypes, OwnInv, WholeOnly, NEW w \in Worker, NEW c \in Own(w), Good(w), Arrive(c)
  PROVE  Good(w)'
<1>1. c \in Conn /\ Own(w) \subseteq Conn /\ RedisThread(c) = w /\ NoConn \notin Conn
  BY Numbers DEF Own
<1>2. PICK k \in 1 .. Len(reply[c]) :
        LET r == [redis[c] EXCEPT !.input = @ \o SubSeq(reply[c], 1, k)]
        IN  /\ r \in Conns
            /\ SubSeq(reply[c], 1, k) \in Seq(Piece)
            /\ SubSeq(reply[c], k + 1, Len(reply[c])) \in Seq(Piece)
            /\ reply' = [reply EXCEPT ![c] = SubSeq(reply[c], k + 1, Len(reply[c]))]
            /\ redis' = [redis EXCEPT ![c] = Called(r)]
            /\ out' = [u \in Worker |-> IF u = r.sock /\ pc[u] # "idle"
                                        THEN out[u] \o Written(r) ELSE out[u]]
            /\ halfway' = [halfway EXCEPT ![w] = IF Starts(r, "count") THEN c ELSE halfway[w]]
            /\ r.working = 0 => Lines(r.input) # {}
  BY <1>1, ArriveTypes
<1> DEFINE s == reply[c]
<1> DEFINE old == SubSeq(s, 1, k)
<1> DEFINE left == SubSeq(s, k + 1, Len(s))
<1> DEFINE r == [redis[c] EXCEPT !.input = @ \o old]
<1>3. redis[c] \in Conns /\ redis \in [Conn -> Conns] /\ s \in Seq(Piece)
  BY <1>1 DEF PoolTypes, TypeOK, Conns
<1>4. Len(s) \in Nat /\ k \in 0 .. Len(s) /\ k \in Nat \ {0} /\ s # <<>>
  <2>1. Len(s) \in Nat /\ Len(<<>>) = 0
    BY <1>3, LenProperties
  <2> QED
    BY <2>1
<1>5. pc[w] = "wait" /\ held[w] = c /\ Waits(w, c) /\ redis[c].result = -1
  BY <1>4, OnlyWaiting DEF Empty
<1>6. /\ redis[c].input = <<>> /\ halfway[w] # c
      /\ (Coming(w, c) /\ out[w] = <<>>) \/ Flowing(w, c)
  BY <1>4, <1>5 DEF Waits, AtRedis, Empty
<1>7. halfway[w] = NoConn /\ redis[c].sock = w
  BY <1>1, <1>5 DEF Arrive, Good
<1>8. /\ old \in Seq(Piece) /\ Len(old) = k /\ \A i \in 1 .. k : old[i] = s[i]
      /\ left \in Seq(Piece) /\ Len(left) = Len(s) - k
      /\ \A i \in 1 .. Len(s) - k : left[i] = s[k + i]
  BY <1>3, <1>4, Taken
<1>9. /\ r.input = old /\ r.working = redis[c].working /\ r.length = redis[c].length
      /\ r.result = -1 /\ r.sock = w /\ r \in Conns
  <2>1. <<>> \o old = old
    BY <1>8, ConcatEmptySeq
  <2> HIDE DEF old
  <2>2. redis[c].input \o old = old
    BY <1>6, <2>1
  <2> QED
    BY <1>2, <1>3, <1>5, <1>7, <2>2 DEF Conns, old
<1>10. /\ reply' = [reply EXCEPT ![c] = left] /\ redis' = [redis EXCEPT ![c] = Called(r)]
       /\ out' = [u \in Worker |-> IF u = r.sock /\ pc[u] # "idle"
                                   THEN out[u] \o Written(r) ELSE out[u]]
       /\ halfway' = [halfway EXCEPT ![w] = IF Starts(r, "count") THEN c ELSE halfway[w]]
  BY <1>2
<1> HIDE DEF r, old, left
<1>11. /\ reply'[c] = left /\ redis'[c] = Called(r) /\ out'[w] = out[w] \o Written(r)
       /\ halfway'[w] = IF Starts(r, "count") THEN c ELSE NoConn
       /\ \A d \in Conn : d # c => redis'[d] = redis[d] /\ reply'[d] = reply[d]
  BY <1>1, <1>3, <1>5, <1>7, <1>9, <1>10 DEF PoolTypes, TypeOK
<1>12. /\ pc' = pc /\ request' = request /\ served' = served /\ scan' = scan
       /\ shift' = shift /\ held' = held /\ wire' = wire
  BY DEF Arrive
<1>13. wire[c] = <<>> /\ wire'[c] = <<>>
  BY <1>6, <1>12 DEF Coming, Flowing
<1>14. /\ \A part : From(w, part)' = From(w, part)
       /\ Me(w)' = Me(w) /\ Mine(w)' = Mine(w)
  BY <1>12 DEF From, Me, Mine
<1>15. Head(old) = s[1] /\ old # <<>> /\ Head(s) = s[1]
  <2>1. Len(<<>>) = 0 /\ k # 0 /\ 1 \in 1 .. k
    BY <1>4
  <2>2. old # <<>> /\ Head(old) = old[1]
    BY <1>8, <2>1
  <2> QED
    BY <1>3, <1>4, <1>8, <2>1, <2>2
<1>16. ValueLen \in Nat \ {0}
  BY RedisPoolAssumption
<1>17. SUFFICES Waits(w, c)' /\ redis'[c].sock = w
  <2> SUFFICES ASSUME Waits(w, c)', redis'[c].sock = w PROVE Good(w)'
    OBVIOUS
  <2>1. Uphold(w)'
    <3>1. Waits(w, held[w])'
      BY <1>5, <1>12 DEF Waits, AtRedis, Coming, Flowing
    <3> QED
      BY <1>5, <1>12, <3>1 DEF Uphold
  <2>2. \A d \in Own(w) : Uses(w, d)' \/ IdleConn(d)'
    <3>1. \A d \in Own(w) : d # c => IdleConn(d) /\ d \in Conn
      BY <1>1, <1>5 DEF Good, Uses
    <3> QED
      BY <1>5, <1>11, <1>12, <3>1 DEF Uses, IdleConn, Empty
  <2> QED
    BY <1>5, <1>12, <1>14, <2>1, <2>2 DEF Good
<1>18. CASE Coming(w, c) /\ out[w] = <<>> /\ Head(request[w]) # "get"
  <2>1. s = <<From(w, "count")>> /\ redis[c].working = 0
    BY <1>18 DEF Coming
  <2>2. Len(s) = 1 /\ s[1].part = "count"
    BY <2>1 DEF From
  <2>3. Starts(r, "count")
    BY <1>9, <1>15, <2>1, <2>2 DEF Starts
  <2>4. k = 1 /\ left = <<>> /\ SubSeq(old, 2, Len(old)) = <<>>
    <3>1. k = 1 /\ Len(left) = 0 /\ Len(old) = 1
      BY <1>4, <1>8, <2>2
    <3>2. left = <<>>
      BY <1>8, <3>1, EmptySeq
    <3> QED
      BY <3>1, <3>2, SubSeqEmpty, 2 \in Int, 1 \in Int, 1 < 2
  <2>5. AfterLine(r.input) = <<>>
    BY <1>8, <1>9, <1>15, <2>2, <2>4, AfterFirst
  <2>6. Called(r) = [r EXCEPT !.input = AfterLine(@), !.result = 1] /\ Written(r) = <<>>
    BY <1>9, <2>1, <2>3 DEF Called, Written, Starts
  <2>7. Called(r).input = <<>> /\ Called(r).result = 1 /\ Called(r).sock = w
    BY <1>9, <2>5, <2>6 DEF Conns
  <2>8. out'[w] = <<>>
    <3>1. <<>> \o <<>> = <<>>
      BY ConcatEmptySeq, EmptySeq
    <3> QED
      BY <1>11, <1>18, <2>6, <3>1
  <2>9. Empty(c)'
    BY <1>11, <1>13, <2>4, <2>7 DEF Empty
  <2>10. Result(w)'
    BY <1>12, <1>18, <2>8 DEF Result
  <2> QED
    BY <1>11, <2>3, <2>7, <2>9, <2>10 DEF Waits
<1>19. CASE Coming(w, c) /\ out[w] = <<>> /\ s = <<From(w, "nil")>>
  <2>1. redis[c].working = 0
    BY <1>19 DEF Coming
  <2>2. Len(s) = 1 /\ s[1].part = "nil"
    BY <1>19 DEF From
  <2>3. Starts(r, "nil") /\ ~Starts(r, "count")
    BY <1>9, <1>15, <2>1, <2>2 DEF Starts
  <2>4. k = 1 /\ left = <<>> /\ SubSeq(old, 2, Len(old)) = <<>>
    <3>1. k = 1 /\ Len(left) = 0 /\ Len(old) = 1
      BY <1>4, <1>8, <2>2
    <3>2. left = <<>>
      BY <1>8, <3>1, EmptySeq
    <3> QED
      BY <3>1, <3>2, SubSeqEmpty, 2 \in Int, 1 \in Int, 1 < 2
  <2>5. AfterLine(r.input) = <<>>
    BY <1>8, <1>9, <1>15, <2>2, <2>4, AfterFirst
  <2>6. /\ Called(r) = [r EXCEPT !.input = AfterLine(@), !.result = 0, !.length = -1]
        /\ Written(r) = <<>>
    BY <1>9, <2>1, <2>3 DEF Called, Written, Starts
  <2>7. /\ Called(r).input = <<>> /\ Called(r).result = 0 /\ Called(r).sock = w
        /\ Called(r).working = 0
    BY <1>9, <2>1, <2>5, <2>6 DEF Conns
  <2>8. out'[w] = <<>>
    <3>1. <<>> \o <<>> = <<>>
      BY ConcatEmptySeq, EmptySeq
    <3> QED
      BY <1>11, <1>19, <2>6, <3>1
  <2>9. Empty(c)'
    BY <1>11, <1>13, <2>4, <2>7 DEF Empty
  <2> QED
    BY <1>11, <2>3, <2>7, <2>8, <2>9 DEF Waits
<1>20. ASSUME NEW m \in 0 .. ValueLen,
              Head(request[w]) = "get", ~Starts(r, "count"),
              Called(r).input = <<>>, Called(r).working = 1, Called(r).sock = w,
              Begun(w, out'[w], m),
              \/ /\ Called(r).length = m /\ Called(r).result = -1 /\ Rest(w, left, m)
              \/ Called(r).result = 1 /\ m = 0 /\ left = <<>>
       PROVE  Waits(w, c)' /\ redis'[c].sock = w
  <2>1. halfway'[w] = NoConn /\ c # NoConn /\ Head(request'[w]) = "get"
    BY <1>1, <1>11, <1>12, <1>20
  <2>2. CASE Called(r).length = m /\ Called(r).result = -1 /\ Rest(w, left, m)
    <3>1. Rest(w, reply[c], redis[c].length)' /\ Begun(w, out[w], redis[c].length)'
      BY <1>11, <1>14, <1>20, <2>2 DEF Rest, Begun
    <3>2. Flowing(w, c)'
      BY <1>11, <1>13, <1>20, <2>1, <2>2, <3>1 DEF Flowing
    <3> QED
      BY <1>11, <1>20, <2>1, <2>2, <3>2 DEF Waits
  <2>3. CASE Called(r).result = 1 /\ m = 0 /\ left = <<>>
    <3>1. Begun(w, out'[w], 0)
      BY <1>20, <2>3
    <3>2. out'[w] = [i \in 1 .. ValueLen + 1 |->
                       [of |-> Me(w), part |-> IF i = 1 THEN "value" ELSE "byte"]]
      BY <3>1, WholeValue
    <3>3. Result(w)'
      BY <1>14, <2>1, <3>2 DEF Result, ItsValue
    <3>4. Empty(c)'
      BY <1>11, <1>13, <1>20, <2>3 DEF Empty
    <3> QED
      BY <1>11, <1>20, <2>1, <2>3, <3>3, <3>4 DEF Waits
  <2> QED
    BY <1>20, <2>2, <2>3
<1>21. CASE Flowing(w, c)
  <2> DEFINE n == redis[c].length
  <2>1. /\ redis[c].working = 1 /\ Head(request[w]) = "get" /\ Begun(w, out[w], n)
        /\ n \in 0 .. ValueLen /\ Len(s) = n + 1 /\ s[n + 1] = From(w, "end")
        /\ \A i \in 1 .. n : s[i] = From(w, "byte")
    BY <1>21 DEF Flowing, Rest
  <2> HIDE DEF n
  <2>2. r.length = n /\ Len(r.input) = k
    BY <1>8, <1>9 DEF n
  <2> HIDE DEF s
  <2>3. n \in Nat /\ k \in 0 .. n + 1 /\ k # 0
    BY <1>4, <1>16, <2>1
  <2>4. BytesFirst(w, r)
    <3>1. ASSUME NEW i \in 1 .. n, i <= k PROVE r.input[i] = From(w, "byte")
      <4>1. i \in 1 .. k
        BY <2>3, <3>1
      <4> QED
        BY <1>8, <1>9, <2>1, <4>1
    <3> QED
      BY <1>9, <2>1, <2>2, <2>3, <3>1 DEF BytesFirst
  <2>5. Called(r) = Body(r) /\ Written(r) = BodyWritten(r) /\ ~Starts(r, "count")
    BY <1>9, <2>1 DEF Called, Written, Starts
  <2> DEFINE m == ToCome(r)
  <2>6. m = IF k <= n THEN n - k ELSE 0
    BY <2>2 DEF ToCome
  <2> HIDE DEF m
  <2>7. /\ Body(r).input = <<>> /\ Body(r).working = 1 /\ Body(r).sock = w
        /\ k <= n => Body(r).length = m /\ Body(r).result = -1
        /\ k > n => Body(r).result = 1
        /\ Begun(w, out'[w], m) /\ m \in 0 .. ValueLen
    <3>1. /\ Body(r).input = <<>> /\ Body(r).working = r.working /\ Body(r).sock = r.sock
          /\ Len(r.input) <= r.length => Body(r).length = m /\ Body(r).result = -1
          /\ Len(r.input) > r.length => Body(r).result = 1
          /\ Begun(w, out[w] \o BodyWritten(r), m) /\ m \in 0 .. ValueLen
      BY <1>9, <2>1, <2>2, <2>4, ValueFlows DEF m
    <3> QED
      BY <1>9, <1>11, <2>1, <2>2, <2>5, <3>1
  <2>8. CASE k <= n
    <3>1. m = n - k /\ Len(left) = m + 1
      BY <1>8, <2>1, <2>3, <2>6, <2>8
    <3>2. ASSUME NEW i \in 1 .. m PROVE left[i] = From(w, "byte")
      <4>1. i \in 1 .. Len(s) - k /\ k + i \in 1 .. n
        BY <2>1, <2>3, <2>8, <3>1
      <4> QED
        BY <1>8, <2>1, <4>1
    <3>3. left[m + 1] = From(w, "end")
      <4>1. PICK j \in 1 .. Len(s) - k : j = m + 1 /\ k + j = n + 1
        BY <2>1, <2>3, <2>8, <3>1
      <4> QED
        BY <1>8, <2>1, <4>1
    <3>4. Rest(w, left, m)
      BY <3>1, <3>2, <3>3 DEF Rest
    <3> QED
      BY <1>20, <2>1, <2>5, <2>7, <2>8, <3>4
  <2>9. CASE ~(k <= n)
    <3>1. m = 0 /\ k > n /\ Len(left) = 0
      BY <1>8, <2>1, <2>3, <2>6, <2>9
    <3>2. left = <<>>
      BY <1>8, <3>1, EmptySeq
    <3> QED
      BY <1>20, <2>1, <2>5, <2>7, <3>1, <3>2
  <2> QED
    BY <2>8, <2>9
<1>22. CASE /\ Coming(w, c) /\ out[w] = <<>> /\ Head(request[w]) = "get"
            /\ s # <<From(w, "nil")>>
  <2> DEFINE n == ValueLen
  <2> DEFINE l == k - 1
  <2>1. /\ redis[c].working = 0 /\ Head(s) = From(w, "value")
        /\ Rest(w, Tail(s), n)
    BY <1>22 DEF Coming
  <2>2. /\ Len(Tail(s)) = Len(s) - 1 /\ \A i \in 1 .. Len(Tail(s)) : Tail(s)[i] = s[i + 1]
        /\ Head(s) \in Piece
    BY <1>3, <1>4, HeadTailProperties
  <2>3. /\ Len(s) = n + 2 /\ s[1] = From(w, "value")
        /\ \A i \in 1 .. n + 1 : s[i + 1] = Tail(s)[i]
        /\ \A i \in 1 .. n : Tail(s)[i] = From(w, "byte")
        /\ Tail(s)[n + 1] = From(w, "end")
    <3>1. /\ Len(Tail(s)) = n + 1 /\ \A i \in 1 .. n : Tail(s)[i] = From(w, "byte")
          /\ Tail(s)[n + 1] = From(w, "end")
      BY <2>1 DEF Rest
    <3>2. Len(s) = n + 2
      BY <1>4, <1>16, <2>2, <3>1
    <3> QED
      BY <1>15, <2>1, <2>2, <3>1, <3>2
  <2>4. \A i \in 2 .. n + 1 : s[i] = From(w, "byte")
    <3> TAKE i \in 2 .. n + 1
    <3>1. PICK j \in 1 .. n : j + 1 = i /\ j \in 1 .. n + 1
      BY <1>16
    <3> QED
      BY <2>3, <3>1
  <2>5. s[n + 2] = From(w, "end")
    <3>1. PICK j \in 1 .. n + 1 : j = n + 1 /\ j + 1 = n + 2
      BY <1>16
    <3> QED
      BY <2>3, <3>1
  <2> HIDE DEF s
  <2>6. Starts(r, "value") /\ ~Starts(r, "count") /\ ~Starts(r, "nil")
    BY <1>9, <1>15, <2>1, <2>3 DEF Starts, From
  <2>7. AfterLine(old) = SubSeq(old, 2, Len(old))
    <3>1. Head(old).part # "byte"
      BY <1>15, <2>3 DEF From
    <3> QED
      BY <1>8, <1>15, <3>1, AfterFirst
  <2> DEFINE body == SubSeq(old, 2, Len(old))
  <2>8. /\ body \in Seq(Piece) /\ Len(body) = l
        /\ \A i \in 1 .. l : body[i] = old[1 + i]
    <3>1. 1 \in 0 .. Len(old) /\ 1 + 1 = 2
      BY <1>4, <1>8
    <3>2. /\ SubSeq(old, 1 + 1, Len(old)) \in Seq(Piece)
          /\ Len(SubSeq(old, 1 + 1, Len(old))) = Len(old) - 1
          /\ \A i \in 1 .. Len(old) - 1 : SubSeq(old, 1 + 1, Len(old))[i] = old[1 + i]
      BY <1>8, <3>1, Taken
    <3> QED
      BY <1>8, <3>1, <3>2
  <2> HIDE DEF body
  <2> DEFINE q == Header(r)
  <2>9. /\ q \in Conns /\ q.input = body /\ q.length = n /\ q.working = 1 /\ q.result = -1
        /\ q.sock = w
    <3>1. q = [r EXCEPT !.input = body, !.length = n, !.working = 1]
      BY <1>9, <2>7 DEF Header, body
    <3>2. n \in -1 .. ValueLen
      BY <1>16
    <3> QED
      BY <1>9, <2>8, <3>1, <3>2 DEF Conns
  <2> HIDE DEF q
  <2>10. /\ Called(r) = Body(q)
         /\ Written(r) = <<From(w, "value")>> \o BodyWritten(q)
    BY <1>9, <1>15, <2>1, <2>3, <2>6 DEF Called, Written, q
  <2>11. n \in 0 .. ValueLen /\ l \in 0 .. n + 1 /\ n # 0
    BY <1>4, <1>16, <2>3
  <2>12. BytesFirst(w, q)
    <3>1. ASSUME NEW i \in 1 .. n, i <= l PROVE q.input[i] = From(w, "byte")
      <4>1. i \in 1 .. l /\ 1 + i \in 1 .. k /\ 1 + i \in 2 .. n + 1
        BY <1>4, <1>16, <3>1
      <4> QED
        BY <1>8, <2>4, <2>8, <2>9, <4>1
    <3> HIDE DEF l
    <3> QED
      BY <2>8, <2>9, <2>11, <3>1 DEF BytesFirst
  <2> DEFINE f == <<From(w, "value")>>
  <2>13. Begun(w, f, n)
    <3>1. From(w, "value") \in Piece
      BY MyPiece DEF Part
    <3>2. Len(f) = 1 /\ 1 + ValueLen - n = 1 /\ f # <<>> /\ Head(f) = From(w, "value")
      BY <1>16
    <3>3. \A i \in 2 .. 1 : FALSE
      OBVIOUS
    <3> QED
      BY <3>1, <3>2, <3>3 DEF Begun
  <2> HIDE DEF f
  <2> DEFINE o == f \o BodyWritten(q)
  <2> DEFINE m == ToCome(q)
  <2>14. m = IF l <= n THEN n - l ELSE 0
    BY <2>8, <2>9 DEF ToCome
  <2>15. /\ Body(q).input = <<>> /\ Body(q).working = 1 /\ Body(q).sock = w
         /\ l <= n => Body(q).length = m /\ Body(q).result = -1
         /\ l > n => Body(q).result = 1
         /\ Begun(w, o, m) /\ m \in 0 .. ValueLen
    <3> HIDE DEF l
    <3> QED
      BY <2>8, <2>9, <2>12, <2>13, ValueFlows
  <2> HIDE DEF m
  <2>16. out'[w] = o
    <3>1. <<>> \o o = o
      BY <2>15, ConcatEmptySeq DEF Begun
    <3> HIDE DEF o
    <3>2. Written(r) = o
      BY <2>10 DEF o, f
    <3> QED
      BY <1>11, <1>22, <3>1, <3>2
  <2> HIDE DEF o
  <2>17. CASE l <= n
    <3>1. m = n - l /\ Len(left) = m + 1
      BY <1>4, <1>8, <1>16, <2>3, <2>14, <2>17
    <3>2. ASSUME NEW i \in 1 .. m PROVE left[i] = From(w, "byte")
      <4>1. i \in 1 .. Len(s) - k /\ k + i \in 2 .. n + 1
        BY <1>4, <1>16, <2>3, <2>17, <3>1
      <4> QED
        BY <1>8, <2>4, <4>1
    <3>3. left[m + 1] = From(w, "end")
      <4>1. PICK j \in 1 .. Len(s) - k : j = m + 1 /\ k + j = n + 2
        BY <1>4, <1>16, <2>3, <2>17, <3>1
      <4> QED
        BY <1>8, <2>5, <4>1
    <3>4. Rest(w, left, m)
      BY <3>1, <3>2, <3>3 DEF Rest
    <3> QED
      BY <1>20, <1>22, <2>6, <2>10, <2>15, <2>16, <2>17, <3>4
  <2>18. CASE ~(l <= n)
    <3>1. m = 0 /\ l > n /\ Len(left) = 0
      BY <1>4, <1>8, <1>16, <2>3, <2>11, <2>14, <2>18
    <3>2. left = <<>>
      BY <1>8, <3>1, EmptySeq
    <3> QED
      BY <1>20, <1>22, <2>6, <2>10, <2>15, <2>16, <3>1, <3>2
  <2> QED
    BY <2>17, <2>18
<1> QED
  BY <1>6, <1>18, <1>19, <1>21, <1>22

LEMMA StepInit == Init => StepInv
<1> SUFFICES ASSUME Init, NEW w \in Worker PROVE Good(w)
  BY DEF StepInv
<1>1. PoolTypes /\ Mine(w) # NoConn /\ Own(w) \subseteq Conn
  BY TypesInit, MineOwn, Numbers
<1>2. \A c \in Own(w) : IdleConn(c)
  BY <1>1 DEF Init, IdleConn, Empty
<1>3. pc[w] = "idle" /\ out[w] = <<>> /\ halfway[w] = NoConn
  BY DEF Init
<1> QED
  BY <1>1, <1>2, <1>3 DEF Good, Uphold

LEMMA StepStep == PoolTypes /\ OwnInv /\ WholeOnly /\ StepInv /\ [Next]_vars => StepInv'
<1> SUFFICES ASSUME PoolTypes, OwnInv, WholeOnly, StepInv, [Next]_vars, NEW v \in Worker
             PROVE  (Gone(v) \/ Good(v))'
  BY DEF StepInv
<1>1. Apart(v) /\ ThreadTypes(v) /\ pc[v] \in Label
  BY DEF OwnInv, PoolTypes, TypeOK, Label
<1>2. Gone(v) \/ Good(v)
  BY DEF StepInv
<1>3. ASSUME Same(v) PROVE (Gone(v) \/ Good(v))'
  BY <1>1, <1>2, <1>3, SameGone, SameGood
<1>4. CASE UNCHANGED vars
  <2>1. Same(v)
    BY <1>4 DEF vars, workerVars, Same
  <2> QED
    BY <1>3, <2>1
<1>5. CASE Next /\ Gone(v)
  BY <1>5, GoneStays
<1>6. CASE Next /\ Good(v)
  <2>1. ASSUME NEW w \in Worker, Take(w) \/ Serve(w) PROVE (Gone(v) \/ Good(v))'
    <3>1. CASE w # v
      BY <1>3, <2>1, <3>1, ThreadStep
    <3>2. CASE w = v
      BY <1>6, <2>1, <3>2, SearchGood, ClaimGood, SendGood, WaitedGood, FreeGood DEF Serve
    <3> QED
      BY <3>1, <3>2
  <2>2. ASSUME NEW w \in Worker, FinishCount(w) PROVE (Gone(v) \/ Good(v))'
    BY <1>3, <1>6, <2>2, FinishStep, FinishGood
  <2>3. ASSUME NEW c \in Conn, Execute(c) PROVE (Gone(v) \/ Good(v))'
    <3>1. CASE RedisThread(c) # v
      BY <1>3, <2>3, <3>1, ExecuteStep
    <3>2. CASE RedisThread(c) = v
      BY <1>6, <2>3, <3>2, ThreadOfConn, ExecuteGood
    <3> QED
      BY <3>1, <3>2
  <2>4. ASSUME NEW c \in Conn, Arrive(c) PROVE (Gone(v) \/ Good(v))'
    <3>1. CASE RedisThread(c) # v
      BY <1>3, <2>4, <3>1, ArriveStep
    <3>2. CASE RedisThread(c) = v
      BY <1>6, <2>4, <3>2, ThreadOfConn, ArriveGood
    <3> QED
      BY <3>1, <3>2
  <2> QED
    BY <1>6, <2>1, <2>2, <2>3, <2>4 DEF Next
<1> QED
  BY <1>2, <1>4, <1>5, <1>6

-----------------------------------------------------------------------------
LEMMA UsersOwn ==
  ASSUME OwnInv, PoolTypes, NEW w \in Worker, NEW c \in Own(w), NEW v \in Worker, Uses(v, c)
  PROVE  v = w
<1>1. c # NoConn
  BY Numbers
<1>2. held[v] = c /\ held[v] \in Own(v) \cup {NoConn}
  BY DEF OwnInv, Apart, Uses
<1> QED
  BY <1>1, <1>2 DEF Own

LEMMA GoneWorn ==
  ASSUME OwnInv, PoolTypes, NEW w \in Worker, Gone(w) PROVE Worn(w)
BY UsersOwn DEF Gone, Worn, Lost

(* What is underway on a connection a thread uses is that thread's.        *)
LEMMA UnderwayMine ==
  ASSUME PoolTypes, OwnInv, NEW w \in Worker, NEW c \in Own(w), Good(w)
  PROVE  Underway(c) \subseteq {Me(w)} /\ (Underway(c) # {} => Uses(w, c))
<1>1. c \in Conn
  BY Numbers
<1>2. CASE Empty(c)
  BY <1>2 DEF Empty, Underway
<1>3. CASE ~Empty(c)
  <2>1. pc[w] = "wait" /\ held[w] = c /\ Waits(w, c) /\ redis[c].result = -1
    BY <1>3, OnlyWaiting
  <2>2. /\ redis[c].input = <<>> /\ (AtRedis(w, c) \/ Coming(w, c) \/ Flowing(w, c))
    BY <2>1, <1>3 DEF Waits
  <2>3. reply[c] \in Seq(Piece) /\ ValueLen \in Nat
    BY <1>1, RedisPoolAssumption DEF PoolTypes, TypeOK
  <2>4. DOMAIN reply[c] = 1 .. Len(reply[c])
    BY <2>3, LenProperties
  <2>5. \A part : From(w, part).of = Me(w)
    BY DEF From
  <2>6. ASSUME NEW i \in DOMAIN reply[c], AtRedis(w, c) \/ Coming(w, c) \/ Flowing(w, c)
        PROVE  reply[c][i].of = Me(w)
    <3>1. CASE AtRedis(w, c)
      BY <3>1 DEF AtRedis
    <3>2. CASE \E part : reply[c] = <<From(w, part)>>
      <4>1. PICK part : reply[c] = <<From(w, part)>>
        BY <3>2
      <4>2. DOMAIN reply[c] = {1} /\ reply[c][1] = From(w, part)
        BY <4>1
      <4> QED
        BY <2>5, <4>2
    <3>3. CASE /\ reply[c] # <<>> /\ Head(reply[c]) = From(w, "value")
               /\ Rest(w, Tail(reply[c]), ValueLen)
      <4>1. /\ Len(Tail(reply[c])) = Len(reply[c]) - 1 /\ Len(reply[c]) \in Nat
            /\ \A j \in 1 .. Len(Tail(reply[c])) : Tail(reply[c])[j] = reply[c][j + 1]
            /\ Head(reply[c]) = reply[c][1]
        BY <2>3, <3>3, HeadTailProperties, LenProperties
      <4>2. CASE i = 1
        BY <2>5, <3>3, <4>1, <4>2
      <4>3. CASE i # 1
        <5>1. PICK j \in 1 .. Len(Tail(reply[c])) : i = j + 1
          <6>1. i - 1 \in 1 .. Len(Tail(reply[c])) /\ i = (i - 1) + 1
            BY <2>4, <4>1, <4>3
          <6> QED
            BY <6>1
        <5>2. Tail(reply[c])[j] \in {From(w, "byte"), From(w, "end")}
          <6>1. Len(Tail(reply[c])) = ValueLen + 1
            BY <3>3 DEF Rest
          <6>2. j \in 1 .. ValueLen \/ j = ValueLen + 1
            BY <2>3, <6>1
          <6> QED
            BY <3>3, <6>2 DEF Rest
        <5> QED
          BY <2>5, <4>1, <5>1, <5>2
      <4> QED
        BY <4>2, <4>3
    <3>4. CASE Flowing(w, c)
      <4> DEFINE n == redis[c].length
      <4>1. n \in 0 .. ValueLen /\ Rest(w, reply[c], n)
        BY <3>4 DEF Flowing
      <4> HIDE DEF n
      <4>2. Len(reply[c]) = n + 1
        BY <4>1 DEF Rest
      <4>3. i \in 1 .. n \/ i = n + 1
        BY <2>3, <2>4, <4>1, <4>2
      <4>4. reply[c][i] \in {From(w, "byte"), From(w, "end")}
        BY <4>1, <4>3 DEF Rest
      <4> QED
        BY <2>5, <4>4
    <3> QED
      BY <2>6, <3>1, <3>2, <3>3, <3>4 DEF Coming
  <2>7. ASSUME NEW i \in DOMAIN wire[c] PROVE wire[c][i].of = Me(w)
    BY <2>2, <2>7 DEF AtRedis, Coming, Flowing
  <2> QED
    BY <2>1, <2>2, <2>6, <2>7 DEF Underway, Uses
<1> QED
  BY <1>2, <1>3

LEMMA ImpliesInStep == PoolTypes /\ OwnInv /\ StepInv => InStep
<1> SUFFICES ASSUME PoolTypes, OwnInv, StepInv, NEW w \in Worker, ~Worn(w), NEW c \in Own(w)
             PROVE  /\ \A v \in Worker : Uses(v, c) => v = w
                    /\ Underway(c) \subseteq {Me(v) : v \in {u \in Worker : Uses(u, c)}}
  BY DEF InStep
<1>1. Good(w)
  BY GoneWorn DEF StepInv
<1>2. Underway(c) \subseteq {Me(w)} /\ (Underway(c) # {} => Uses(w, c))
  BY <1>1, UnderwayMine
<1> QED
  BY <1>2, UsersOwn

LEMMA ImpliesAnswersRight == PoolTypes /\ OwnInv /\ StepInv => AnswersRight
<1> SUFFICES ASSUME PoolTypes, OwnInv, StepInv, NEW w \in Worker, pc[w] = "respond", ~Worn(w)
             PROVE  RightAnswer(w)
  BY DEF AnswersRight
<1>1. Good(w)
  BY GoneWorn DEF StepInv
<1>2. out[w] = <<From(w, "error")>> \/ out[w] = <<From(w, "OK")>> \/ ItsValue(w)
  BY <1>1 DEF Good, Uphold
<1>3. ASSUME NEW c \in Conn, NEW i \in DOMAIN wire[c] PROVE wire[c][i].of # Me(w)
  <2>1. RedisThread(c) \in Worker /\ c \in Own(RedisThread(c))
    BY ThreadOfConn
  <2>2. wire[c][i].of[1] = RedisThread(c)
    BY <2>1 DEF OwnInv, Apart, Carries, OfThread
  <2>3. CASE RedisThread(c) = w
    <3>1. IdleConn(c)
      BY <1>1, <2>1, <2>3 DEF Good, Uses
    <3> QED
      BY <1>3, <3>1 DEF IdleConn, Empty
  <2>4. CASE RedisThread(c) # w
    BY <2>2, <2>4 DEF Me
  <2> QED
    BY <2>3, <2>4
<1> QED
  BY <1>2, <1>3 DEF RightAnswer, From

(* As long as a thread has lost no connection, each of its connections has *)
(* one user and carries nothing but that user's command and its reply,     *)
(* however late the callback stores working: with two connections at least *)
(* the next command goes over another one (webserver1.c:314-331,611-618).  *)
THEOREM KeptInStep ==
  ASSUME WholeOnly PROVE Spec => []InStep
<1> DEFINE Inv == PoolTypes /\ OwnInv /\ StepInv
<1>1. Init => Inv
  BY TypesInit, OwnInit, StepInit
<1>2. Inv /\ [Next]_vars => Inv'
  BY TypesStep, OwnStep, StepStep
<1>3. Inv => InStep
  BY ImpliesInStep
<1> QED
  BY <1>1, <1>2, <1>3, PTL DEF Spec

(* As long as its thread has lost no connection, a client gets an error,   *)
(* an OK for commands Redis has executed, or the whole of the value it     *)
(* asked for and nothing else, however its bytes were cut on their way     *)
(* (webserver1.c:278-591).                                                 *)
THEOREM AnsweredRightly ==
  ASSUME WholeOnly PROVE Spec => []AnswersRight
<1> DEFINE Inv == PoolTypes /\ OwnInv /\ StepInv
<1>1. Init => Inv
  BY TypesInit, OwnInit, StepInit
<1>2. Inv /\ [Next]_vars => Inv'
  BY TypesStep, OwnStep, StepStep
<1>3. Inv => AnswersRight
  BY ImpliesAnswersRight
<1> QED
  BY <1>1, <1>2, <1>3, PTL DEF Spec
=============================================================================

-------------------------- MODULE TranslatorProofs --------------------------
(***************************************************************************)
(* For every number of children, every division of the dictionary between  *)
(* them, every cache size and every text: the variables of the translator  *)
(* keep their types and no word is ever in two places.  The reply to the   *)
(* first text has no word in the place of another.  While no call fails    *)
(* the counters the drivers wait on never run ahead of the words of that   *)
(* text, and so the reply is its translation, whole and in order.  For any *)
(* number of texts a cache comes to give a word another's translation      *)
(* only where word_res caches an answer too late or too early.             *)
(***************************************************************************)
EXTENDS Translator, FiniteSetTheorems, TLAPS

(* Until a second text arrives. *)
FirstText == jobs <= 1

(* The word_info r names a word of the text at its place in the half of    *)
(* its owner.                                                              *)
Genuine(r) ==
  /\ r \in Request
  /\ FirstText => /\ text # NoText
                  /\ r.index < Len(Half(r.super))
                  /\ r.word = Half(r.super)[r.index + 1]

(* An entry of an array: nothing, or the word of the text at that place.   *)
Fits(s, k, e) ==
  FirstText /\ e # NoAnswer => /\ text # NoText
                               /\ k < Len(Half(s))
                               /\ e = Half(s)[k + 1]

(* A translation of the word w, or "" where a call failed.                 *)
AnswerFor(w, e) ==
  /\ e \in Entry
  /\ FirstText => e \in {w, NoAnswer}

QueuesGenuine ==
  /\ \A t \in Threads : \A j \in 1 .. Len(q[t]) : Genuine(q[t][j])
  /\ \A s \in Supers : \A j \in 1 .. Len(super[s]) : Genuine(super[s][j])
  /\ \A s \in Supers : sending[s] # NoReq => Genuine(sending[s])

Delivering == {"deliver", "count", "load", "store", "memoRemote"}

(* The answer of the child for the word in hand. *)
Told(t) == word[t] = Miss \/ AnswerFor(req[t].word, word[t])

GenuineThread(t) ==
  /\ pc[t] # "idle" => Genuine(req[t])
  /\ pc[t] \notin {"idle", "ask"} => Told(t)
  /\ pc[t] \in Delivering => AnswerFor(req[t].word, ans[t])
  /\ pc[t] \in {"load", "store", "memoRemote"} => ~Own(t)
  /\ pc[t] = "count" => Own(t)

ThreadsGenuine == \A t \in Threads : GenuineThread(t)

(* Nothing but translations and misses in the caches. *)
HitsRight == \A s \in Supers : \A w \in DOMAIN cache[s] \cap Word :
               cache[s][w] \in {w, Miss, NoAnswer}

TablesGenuine ==
  /\ FirstText => HitsRight
  /\ \A s \in Supers, k \in Index : Fits(s, k, translated[s][k])
  /\ \A s \in Supers, k \in Index : Fits(s, k, words[s][k])

OrderOf(s) ==
  /\ cnt[s] <= Len(Half(s))
  /\ phase[s] \in {"pushing", "overwritten", "file"} => cnt[s] < Len(Half(s))
  /\ text = NoText => phase[s] = "idle"
  /\ Len(Half(s)) < MaxWords

DriversInOrder ==
  /\ text = NoText <=> jobs = 0
  /\ text = NoText => stale = <<>>
  /\ \A s \in Supers : OrderOf(s)

SoundInv ==
  /\ TypeOK
  /\ QueuesGenuine
  /\ ThreadsGenuine
  /\ TablesGenuine
  /\ DriversInOrder

-----------------------------------------------------------------------------
(* Facts about the constants. *)

LEMMA ThreadFacts ==
  /\ \A s \in Supers : Peer(s) \in Supers /\ Peer(s) # s
  /\ \A s \in Supers, p \in Supers : p # s => p = Peer(s)
  /\ \A s \in Supers : ChildNum[s] \in Nat \ {0}
  /\ \A s \in Supers : \A i \in Children(s) : <<s, i>> \in Threads
  /\ \A t \in Threads : t[1] \in Supers /\ t[2] \in Children(t[1])
  /\ \A s \in Supers, n \in Nat : n % ChildNum[s] \in Children(s)
  /\ \A t \in Threads : NextChild(t) \in Threads
  /\ \A s \in Supers : Children(s) \subseteq Nat
<1> USE TranslatorAssumption
<1>1. /\ \A s \in Supers : Peer(s) \in Supers /\ Peer(s) # s
      /\ \A s \in Supers, p \in Supers : p # s => p = Peer(s)
      /\ \A s \in Supers : ChildNum[s] \in Nat \ {0}
  BY DEF Supers, Peer
<1>2. \A s \in Supers : Children(s) \subseteq Nat
  BY <1>1 DEF Children
<1>3. \A s \in Supers : \A i \in Children(s) : <<s, i>> \in Threads
  BY DEF Threads
<1>4. \A t \in Threads : t[1] \in Supers /\ t[2] \in Children(t[1])
  BY DEF Threads
<1>5. \A s \in Supers, n \in Nat : n % ChildNum[s] \in Children(s)
  BY <1>1 DEF Children
<1>6. ASSUME NEW t \in Threads PROVE NextChild(t) \in Threads
  <2>1. t[1] \in Supers /\ t[2] + 1 \in Nat
    BY <1>2, <1>4
  <2> QED BY <1>3, <1>5, <2>1 DEF NextChild
<1> QED BY <1>1, <1>2, <1>3, <1>4, <1>5, <1>6

LEMMA HalfFacts ==
  ASSUME DriverTypes, DriversInOrder, NEW s \in Supers
  PROVE  /\ Half(s) \in Seq(Word)
         /\ Len(Half(s)) \in Index
         /\ \A k \in Nat : k < Len(Half(s)) => k \in Index /\ Half(s)[k + 1] \in Word
<1>1. Half(s) \in Seq(Word)
  BY TranslatorAssumption DEF Half, Text, DriverTypes
<1>2. Len(Half(s)) < MaxWords
  BY DEF DriversInOrder, OrderOf
<1> QED BY <1>1, <1>2, TranslatorAssumption DEF Index

(* What storing into a map may leave behind. *)
LEMMA StoredFacts ==
  ASSUME NEW K, NEW V, NEW m \in Maps(K, V), NEW k \in K, NEW v \in V,
         NEW n \in Stored(m, k, v)
  PROVE  /\ n \in Maps(K, V)
         /\ \A x \in DOMAIN n : IF x = k THEN n[x] = v
                                          ELSE x \in DOMAIN m /\ n[x] = m[x]
<1>1. PICK D \in SUBSET K : m \in [D -> V]
  BY DEF Maps
<1>2. ASSUME NEW E \in SUBSET K, NEW e \in [E -> V],
             E \subseteq D, \A x \in E : e[x] = m[x], n = With(e, k, v)
      PROVE  /\ n \in Maps(K, V)
             /\ \A x \in DOMAIN n : IF x = k THEN n[x] = v
                                              ELSE x \in DOMAIN m /\ n[x] = m[x]
  <2>1. n \in [E \cup {k} -> V] /\ E \cup {k} \in SUBSET K
    BY <1>2 DEF With
  <2>2. \A x \in E \cup {k} : IF x = k THEN n[x] = v ELSE x \in D /\ n[x] = m[x]
    BY <1>2 DEF With
  <2> QED BY <1>1, <2>1, <2>2 DEF Maps
<1>3. CASE HasRoom(m, k)
  BY <1>1, <1>2, <1>3 DEF Stored
<1>4. CASE ~HasRoom(m, k)
  <2>1. PICK old \in DOMAIN m : n = With(Without(m, old), k, v)
    BY <1>4 DEF Stored
  <2>2. Without(m, old) \in [D \ {old} -> V] /\ D \ {old} \in SUBSET K
        /\ \A x \in D \ {old} : Without(m, old)[x] = m[x]
    BY <1>1 DEF Without
  <2> QED BY <1>2, <2>1, <2>2
<1> QED BY <1>3, <1>4

-----------------------------------------------------------------------------
LEMMA SoundInit == Init => SoundInv
<1> SUFFICES ASSUME Init PROVE SoundInv
  OBVIOUS
<1> USE TranslatorAssumption
<1>1. TypeOK
  <2>1. EmptyMap \in Maps(Entry, Answers \cup {NoAnswer})
    <3>1. EmptyMap \in [{} -> Answers \cup {NoAnswer}] /\ {} \in SUBSET Entry
      BY DEF EmptyMap
    <3> QED BY <3>1 DEF Maps
  <2>2. \A s \in Supers : 0 \in Children(s)
    BY DEF Children
  <2> QED BY <2>1, <2>2, ThreadFacts DEF Init, TypeOK, DriverTypes, QueueTypes, ThreadTypes,
     TableTypes, CountTypes, ResultTypes, PhaseNames, Labels, Entry
<1>2. QueuesGenuine /\ ThreadsGenuine
  BY ThreadFacts DEF Init, QueuesGenuine, ThreadsGenuine, GenuineThread, Delivering
<1>3. TablesGenuine
  BY DEF Init, TablesGenuine, HitsRight, Fits, EmptyMap
<1>4. DriversInOrder
  BY DEF Init, DriversInOrder, OrderOf, Half
<1> QED BY <1>1, <1>2, <1>3, <1>4 DEF SoundInv

-----------------------------------------------------------------------------
(* While the text stays, so do its halves and what is genuine. *)
LEMMA SameText ==
  ASSUME UNCHANGED textVars
  PROVE  /\ \A s \in Supers : Half(s)' = Half(s)
         /\ \A r : Genuine(r)' <=> Genuine(r)
         /\ \A s, k, e : Fits(s, k, e)' <=> Fits(s, k, e)
         /\ \A w, e : AnswerFor(w, e)' <=> AnswerFor(w, e)
         /\ FirstText' <=> FirstText
BY DEF Half, Genuine, Fits, AnswerFor, FirstText, textVars

LEMMA ThreadsKept ==
  ASSUME ThreadsGenuine, UNCHANGED textVars, UNCHANGED threadVars
  PROVE  ThreadsGenuine'
<1>1. ASSUME NEW t \in Threads PROVE GenuineThread(t)'
  <2>1. GenuineThread(t) /\ UNCHANGED <<pc, req, word, ans>>
    BY DEF ThreadsGenuine, threadVars
  <2>2. Genuine(req[t])' <=> Genuine(req[t])
    BY <2>1 DEF Genuine, Half, FirstText, textVars
  <2> QED BY <2>1, <2>2 DEF GenuineThread, Own, Told, AnswerFor, FirstText, textVars
<1> QED BY <1>1 DEF ThreadsGenuine

LEMMA OrderKept ==
  ASSUME DriversInOrder, UNCHANGED textVars, \A s \in Supers : OrderOf(s)'
  PROVE  DriversInOrder'
BY DEF DriversInOrder, textVars

(* A genuine word_info. *)
LEMMA GenuineFacts ==
  ASSUME NEW r, Genuine(r)
  PROVE  /\ r \in Request /\ r.super \in Supers /\ r.index \in Index
         /\ r.word \in Word /\ r.word \in Entry /\ r.word \in Answers
         /\ r # NoReq
         /\ Fits(r.super, r.index, r.word)
BY TranslatorAssumption DEF Genuine, Request, Entry, Answers, Fits

(* A push under the mutex keeps the queues genuine and moves the driver    *)
(* nowhere but out of its own interrupted push.                            *)
LEMMA LockedPushFacts ==
  ASSUME TypeOK, QueuesGenuine, NEW t \in Threads, NEW r, Genuine(r), LockedPush(t, r)
  PROVE  /\ q' \in [Threads -> Seq(Request)]
         /\ \A u \in Threads : \A j \in 1 .. Len(q'[u]) : Genuine(q'[u][j])
         /\ phase' \in [Supers -> PhaseNames]
         /\ \A s \in Supers : \/ phase'[s] = phase[s]
                              \/ phase[s] = "pushing" /\ phase'[s] = "overwritten"
<1>1. /\ q \in [Threads -> Seq(Request)] /\ phase \in [Supers -> PhaseNames]
      /\ r \in Request /\ t[1] \in Supers
  BY ThreadFacts, GenuineFacts DEF TypeOK, DriverTypes, QueueTypes
<1>2. \A u \in Threads : \A j \in 1 .. Len(q[u]) : Genuine(q[u][j])
  BY DEF QueuesGenuine
<1>3. CASE q' = [q EXCEPT ![t] = Append(@, r)]
  <2>1. q' \in [Threads -> Seq(Request)]
    BY <1>1, <1>3
  <2>2. ASSUME NEW u \in Threads, NEW j \in 1 .. Len(q'[u]) PROVE Genuine(q'[u][j])
    <3>1. CASE u = t
      <4>1. q[t] \in Seq(Request) /\ q'[u] = Append(q[t], r)
        BY <1>1, <1>3, <3>1
      <4>2. (j \in 1 .. Len(q[t]) /\ q'[u][j] = q[t][j]) \/ q'[u][j] = r
        BY <4>1
      <4> QED BY <1>2, <4>2
    <3>2. CASE u # t
      BY <1>1, <1>2, <1>3, <3>2
    <3> QED BY <3>1, <3>2
  <2>3. \/ UNCHANGED phase
        \/ Collides(t) /\ phase' = [phase EXCEPT ![t[1]] = "overwritten"]
    BY <1>1, <1>3 DEF LockedPush
  <2> QED BY <1>1, <2>1, <2>2, <2>3 DEF Collides, PhaseNames
<1>4. CASE UNCHANGED <<q, phase>>
  BY <1>1, <1>2, <1>4
<1> QED BY <1>3, <1>4 DEF LockedPush

-----------------------------------------------------------------------------
(* Before the first text nothing is queued, in hand or in the arrays, so   *)
(* any text will do; what is in buf behind the text leaves room in it.     *)
LEMMA AcceptStep ==
  ASSUME SoundInv, NEW txt \in Texts, Accept(txt)
  PROVE  SoundInv'
<1> USE TranslatorAssumption DEF SoundInv
<1>1. /\ text' = txt /\ jobs' = jobs + 1 /\ jobs \in Nat /\ stale' \in Leftovers(txt)
      /\ \A s \in Supers : cnt'[s] = 0 /\ phase'[s] \in {"idle", "deal"}
      /\ cnt' \in [Supers -> Nat] /\ phase' \in [Supers -> PhaseNames]
      /\ UNCHANGED <<queueVars, threadVars, tableVars, countVars, result, result2>>
      /\ reply' = NoAnswer
  BY DEF Accept, TypeOK, DriverTypes, PhaseNames
<1>2. txt # NoText /\ txt \in Text
  BY DEF Text
<1>3. stale' \in Seq(Word) /\ Len(txt.first) + Len(txt.second) + Len(stale') < MaxWords
  <2>1. Half(1) \in Seq(Word) /\ Half(2) \in Seq(Word)
    BY HalfFacts DEF Supers, TypeOK
  <2>2. InBuffer \in Seq(Word)
    BY <2>1 DEF InBuffer
  <2>3. \A n \in 1 .. Len(InBuffer) + 1 : SubSeq(InBuffer, n, Len(InBuffer)) \in Seq(Word)
    BY <2>2
  <2> QED BY <1>1, <2>3 DEF Leftovers
<1>4. TypeOK'
  <2>1. DriverTypes'
    BY <1>1, <1>3 DEF DriverTypes
  <2>2. QueueTypes' /\ ThreadTypes' /\ TableTypes' /\ CountTypes'
    BY <1>1 DEF TypeOK, QueueTypes, ThreadTypes, TableTypes, CountTypes,
       queueVars, threadVars, tableVars, countVars
  <2>3. ResultTypes'
    BY <1>1 DEF TypeOK, ResultTypes
  <2> QED BY <2>1, <2>2, <2>3 DEF TypeOK
<1>5. DriversInOrder'
  <2>1. Half(1)' = txt.first /\ Half(2)' = txt.second \o stale'
    BY <1>1, <1>2 DEF Half
  <2>2. /\ Len(Half(1)') \in Nat /\ Len(Half(1)') < MaxWords
        /\ Len(Half(2)') \in Nat /\ Len(Half(2)') < MaxWords
    BY <1>2, <1>3, <2>1 DEF Text
  <2>3. \A s \in Supers : OrderOf(s)'
    BY <1>1, <1>2, <2>2 DEF OrderOf, Supers
  <2> QED BY <1>1, <1>2, <2>3 DEF DriversInOrder
<1>6. CASE jobs = 0
  <2>1. text = NoText /\ FirstText
    BY <1>6 DEF DriversInOrder, FirstText
  <2>2. /\ \A t \in Threads : Len(q[t]) = 0 /\ pc[t] = "idle"
        /\ \A s \in Supers : Len(super[s]) = 0 /\ sending[s] = NoReq
    <3>1. \A r : ~Genuine(r)
      BY <2>1 DEF Genuine
    <3>2. /\ \A t \in Threads : q[t] \in Seq(Request)
          /\ \A s \in Supers : super[s] \in Seq(Request)
      BY DEF TypeOK, QueueTypes
    <3>3. \A sq \in Seq(Request) : Len(sq) # 0 => 1 \in 1 .. Len(sq)
      OBVIOUS
    <3> QED BY <3>1, <3>2, <3>3 DEF QueuesGenuine, ThreadsGenuine, GenuineThread
  <2>3. QueuesGenuine' /\ ThreadsGenuine'
    BY <1>1, <2>2 DEF QueuesGenuine, ThreadsGenuine, GenuineThread, Delivering,
       queueVars, threadVars
  <2>4. TablesGenuine'
    BY <1>1, <2>1 DEF TablesGenuine, HitsRight, Fits, tableVars
  <2> QED BY <1>4, <1>5, <2>3, <2>4
<1>7. CASE jobs # 0
  <2>1. ~FirstText'
    BY <1>1, <1>7 DEF FirstText
  <2>2. \A r : Genuine(r) => Genuine(r)'
    BY <2>1 DEF Genuine
  <2>3. QueuesGenuine'
    BY <1>1, <2>2 DEF QueuesGenuine, queueVars
  <2>4. ThreadsGenuine'
    BY <1>1, <2>1, <2>2 DEF ThreadsGenuine, GenuineThread, Told, AnswerFor, Entry, Own, threadVars
  <2>5. TablesGenuine'
    BY <2>1 DEF TablesGenuine, Fits
  <2> QED BY <1>4, <1>5, <2>3, <2>4, <2>5
<1> QED BY <1>6, <1>7

(* The driver pushes and files the words of its own half and reads the     *)
(* arrays.                                                                 *)
LEMMA DriverStep ==
  ASSUME SoundInv, NEW s \in Supers, Driver(s)
  PROVE  SoundInv'
<1>1. /\ textVars' = textVars /\ super' = super /\ sending' = sending /\ ran' = ran
      /\ UNCHANGED threadVars /\ cache' = cache /\ translated' = translated
  BY DEF Driver, BeginPush, EndPush, FileWord, Assemble, SendResult, Reply, Reset,
         queueVars, tableVars
<1>2. TypeOK /\ QueuesGenuine /\ ThreadsGenuine /\ TablesGenuine /\ DriversInOrder
  BY DEF SoundInv
<1>3. /\ Half(s) \in Seq(Word) /\ Len(Half(s)) \in Nat /\ Len(Half(s)) \in Index
      /\ \A k \in Nat : k < Len(Half(s)) => k \in Index /\ Half(s)[k + 1] \in Word
  BY <1>2, HalfFacts DEF TypeOK, DriverTypes
<1>4. cnt[s] \in Nat /\ phase[s] \in PhaseNames /\ phase \in [Supers -> PhaseNames]
      /\ cnt \in [Supers -> Nat]
  BY <1>2 DEF TypeOK, DriverTypes
<1>5. ThreadsGenuine'
  BY <1>1, <1>2, ThreadsKept
<1>6. CASE EndPush(s)
  <2> DEFINE t == <<s, cnt[s] % ChildNum[s]>>
  <2>1. cnt[s] < Len(Half(s)) /\ text # NoText
    BY <1>2, <1>6 DEF EndPush, DriversInOrder, OrderOf
  <2>2. Genuine(Dealt(s)) /\ t \in Threads
    <3>1. cnt[s] \in Index /\ Half(s)[cnt[s] + 1] \in Word
      BY <1>3, <1>4, <2>1
    <3>2. cnt[s] % ChildNum[s] \in Children(s) /\ Children(s) \subseteq Nat
      BY <1>4, ThreadFacts
    <3>3. Dealt(s) \in Request
      BY <3>1, <3>2 DEF Dealt, Request
    <3> QED BY <2>1, <3>2, <3>3, ThreadFacts DEF Genuine, Dealt
  <2>3. /\ q' \in [Threads -> Seq(Request)]
        /\ \A u \in Threads : \A j \in 1 .. Len(q'[u]) : Genuine(q'[u][j])
    <3>1. CASE q' = q
      BY <1>2, <3>1 DEF TypeOK, QueueTypes, QueuesGenuine
    <3>2. CASE q' = [q EXCEPT ![t] = Append(@, Dealt(s))]
      <4>1. q[t] \in Seq(Request) /\ Dealt(s) \in Request
        BY <1>2, <2>2 DEF TypeOK, QueueTypes, Genuine
      <4>2. q' \in [Threads -> Seq(Request)]
        BY <1>2, <2>2, <3>2, <4>1 DEF TypeOK, QueueTypes
      <4>3. ASSUME NEW j \in 1 .. Len(Append(q[t], Dealt(s)))
            PROVE  Genuine(Append(q[t], Dealt(s))[j])
        <5>1. \/ j \in 1 .. Len(q[t]) /\ Append(q[t], Dealt(s))[j] = q[t][j]
              \/ Append(q[t], Dealt(s))[j] = Dealt(s)
          BY <4>1
        <5> QED BY <1>2, <2>2, <5>1 DEF QueuesGenuine
      <4>4. \A u \in Threads : q'[u] = IF u = t THEN Append(q[t], Dealt(s)) ELSE q[u]
        BY <1>2, <3>2 DEF TypeOK, QueueTypes
      <4> HIDE DEF t
      <4> QED BY <1>2, <4>2, <4>3, <4>4 DEF QueuesGenuine
    <3> QED BY <1>6, <3>1, <3>2 DEF EndPush
  <2>4. QueuesGenuine'
    BY <1>2, <1>1, <2>3, SameText DEF QueuesGenuine
  <2>5. /\ phase' \in [Supers -> PhaseNames] /\ cnt' \in [Supers -> Nat]
        /\ \A p \in Supers \ {s} : phase'[p] = phase[p] /\ cnt'[p] = cnt[p]
        /\ \/ phase'[s] = "deal" /\ cnt'[s] = cnt[s] + 1
           \/ phase'[s] = "file" /\ cnt'[s] = cnt[s]
    <3>1. \/ /\ phase' = [phase EXCEPT ![s] = "deal"]
             /\ cnt' = [cnt EXCEPT ![s] = @ + 1]
          \/ /\ phase' = [phase EXCEPT ![s] = "file"]
             /\ cnt' = cnt
      BY <1>6 DEF EndPush
    <3> QED BY <1>4, <3>1 DEF PhaseNames
  <2>6. DriversInOrder'
    <3>1. \A p \in Supers : Half(p)' = Half(p)
      BY <1>1, SameText
    <3>2. \A p \in Supers \ {s} : OrderOf(p)'
      BY <1>1, <1>2, <2>5, <3>1 DEF DriversInOrder, OrderOf, textVars
    <3>3. OrderOf(s)'
      <4>1. Len(Half(s)') = Len(Half(s)) /\ Len(Half(s)) < MaxWords
        BY <1>2, <3>1 DEF DriversInOrder, OrderOf
      <4>2. text' # NoText
        BY <1>1, <2>1 DEF textVars
      <4>3. phase'[s] \in {"pushing", "overwritten", "file"} => cnt'[s] < Len(Half(s))
        BY <1>4, <2>1, <2>5
      <4> QED BY <1>3, <1>4, <2>1, <2>5, <4>1, <4>2, <4>3 DEF OrderOf
    <3> QED BY <1>1, <1>2, <3>2, <3>3, OrderKept
  <2>7. TypeOK'
    BY <1>2, <1>1, <1>6, <2>3, <2>5 DEF TypeOK, DriverTypes, QueueTypes, ThreadTypes,
       TableTypes, CountTypes, ResultTypes, EndPush, textVars, threadVars, tableVars, countVars,
       resultVars
  <2>8. TablesGenuine'
    BY <1>2, <1>1, <1>6, SameText DEF TablesGenuine, HitsRight, EndPush, tableVars
  <2> QED BY <1>5, <2>4, <2>6, <2>7, <2>8 DEF SoundInv
<1>7. CASE s = 2 /\ FileWord
  <2>1. cnt[2] < Len(Half(2)) /\ text # NoText /\ 2 \in Supers
    BY <1>2, <1>7 DEF FileWord, DriversInOrder, OrderOf
  <2>2. cnt[2] \in Index /\ Half(2)[cnt[2] + 1] \in Word
    BY <1>3, <1>4, <1>7, <2>1
  <2>3. \A p \in Supers, k \in Index : words'[p][k] =
           IF p = 2 /\ k = cnt[2] THEN Half(2)[cnt[2] + 1] ELSE words[p][k]
    BY <1>2, <1>7, <2>1, <2>2 DEF FileWord, TypeOK, TableTypes
  <2>4. words' \in [Supers -> [Index -> Entry]]
    BY <1>2, <1>7, <2>1, <2>2 DEF FileWord, TypeOK, TableTypes, Entry
  <2>5. /\ phase' \in [Supers -> PhaseNames] /\ cnt' \in [Supers -> Nat]
        /\ phase'[1] = phase[1] /\ cnt'[1] = cnt[1]
        /\ phase'[2] = "deal" /\ cnt'[2] = cnt[2] + 1
    BY <1>4, <1>7 DEF FileWord, PhaseNames, Supers
  <2>6. TypeOK'
    BY <1>2, <1>1, <1>7, <2>4, <2>5 DEF TypeOK, DriverTypes, QueueTypes, ThreadTypes,
       TableTypes, CountTypes, ResultTypes, FileWord, textVars, queueVars, threadVars, countVars,
       resultVars
  <2>7. TablesGenuine'
    <3>1. \A p \in Supers, k \in Index : Fits(p, k, words'[p][k])
      BY <1>2, <2>1, <2>3 DEF TablesGenuine, Fits
    <3>2. \A p \in Supers, k \in Index : Fits(p, k, words[p][k])'
      BY <1>1, <3>1, SameText
    <3> QED BY <1>1, <1>2, <3>2, SameText DEF TablesGenuine, HitsRight
  <2>8. DriversInOrder'
    <3>1. \A p \in Supers : Half(p)' = Half(p)
      BY <1>1, SameText
    <3>2. \A p \in Supers : OrderOf(p)'
      BY <1>2, <1>1, <1>3, <1>4, <1>7, <2>1, <2>5, <3>1 DEF DriversInOrder, OrderOf, Supers, textVars
    <3> QED BY <1>1, <1>2, <3>2, OrderKept
  <2>9. QueuesGenuine'
    BY <1>2, <1>1, <1>7, SameText DEF QueuesGenuine, FileWord, queueVars
  <2> QED BY <1>5, <2>6, <2>7, <2>8, <2>9 DEF SoundInv
<1>8. CASE BeginPush(s) \/ Assemble(s) \/ Reset(s) \/ (s = 1 /\ Reply) \/ (s = 2 /\ SendResult)
  <2>1. /\ cnt' = cnt /\ q' = q /\ words' = words
        /\ \A p \in Supers \ {s} : phase'[p] = phase[p]
        /\ phase' \in [Supers -> PhaseNames]
        /\ phase[s] \in {"deal", "join", "reset"}
        /\ \/ phase'[s] = "pushing" /\ cnt[s] < Len(Half(s))
           \/ phase'[s] \in {"join", "reset", "idle"}
    BY <1>4, <1>8 DEF BeginPush, Assemble, Reset, Reply, SendResult, PhaseNames,
       queueVars, tableVars
  <2>2. QueuesGenuine' /\ TablesGenuine'
    BY <1>2, <1>1, <2>1, SameText DEF QueuesGenuine, TablesGenuine, HitsRight
  <2>3. DriversInOrder'
    <3>1. \A p \in Supers : Half(p)' = Half(p)
      BY <1>1, SameText
    <3>2. \A p \in Supers \ {s} : OrderOf(p)'
      BY <1>1, <1>2, <2>1, <3>1 DEF DriversInOrder, OrderOf, textVars
    <3>3. OrderOf(s)'
      BY <1>1, <1>2, <2>1, <3>1 DEF DriversInOrder, OrderOf, textVars
    <3> QED BY <1>1, <1>2, <3>2, <3>3, OrderKept
  <2>4. childCount' \in [Threads -> Nat] /\ superCount' \in [Supers -> Nat]
    <3>1. childCount \in [Threads -> Nat] /\ superCount \in [Supers -> Nat]
      BY <1>2 DEF TypeOK, CountTypes
    <3>2. CASE Reset(s)
      BY <3>1, <3>2 DEF Reset
    <3>3. CASE UNCHANGED countVars
      BY <3>1, <3>3 DEF countVars
    <3> QED BY <1>8, <3>2, <3>3 DEF BeginPush, Assemble, Reply, SendResult
  <2>5. /\ result' \in [Supers -> Seq(Entry)] /\ result2' \in Seq(Entry) \cup {NoAnswer}
        /\ reply' \in Seq(Entry) \cup {NoAnswer}
    <3>1. CASE Assemble(s)
      <4>1. [k \in 1 .. Len(Half(s)) |-> translated[s][k - 1]] \in Seq(Entry)
        <5>1. \A k \in 1 .. Len(Half(s)) : k - 1 \in Index
          BY <1>3
        <5>2. translated[s] \in [Index -> Entry]
          BY <1>2 DEF TypeOK, TableTypes
        <5>3. [k \in 1 .. Len(Half(s)) |-> translated[s][k - 1]]
                \in [1 .. Len(Half(s)) -> Entry]
          BY <5>1, <5>2
        <5> QED BY <1>3, <5>3
      <4>2. translated[s][Len(Half(s))] \in Entry
        BY <1>2, <1>3 DEF TypeOK, TableTypes
      <4>3. \A trailing \in BOOLEAN : Assembled(s, trailing) \in Seq(Entry)
        BY <4>1, <4>2 DEF Assembled
      <4> QED BY <1>2, <3>1, <4>3 DEF Assemble, TypeOK, ResultTypes
    <3>2. CASE s = 1 /\ Reply
      BY <1>2, <3>2 DEF Reply, TypeOK, ResultTypes
    <3>3. CASE s = 2 /\ SendResult
      BY <1>2, <3>3 DEF SendResult, TypeOK, ResultTypes
    <3>4. CASE BeginPush(s) \/ Reset(s)
      BY <1>2, <3>4 DEF BeginPush, Reset, TypeOK, ResultTypes, resultVars
    <3> QED BY <1>8, <3>1, <3>2, <3>3, <3>4
  <2>6. TypeOK'
    BY <1>2, <1>1, <2>1, <2>4, <2>5 DEF TypeOK, DriverTypes, QueueTypes, ThreadTypes,
       TableTypes, CountTypes, ResultTypes, textVars, threadVars
  <2> QED BY <1>5, <2>2, <2>3, <2>6 DEF SoundInv
<1> QED BY <1>6, <1>7, <1>8 DEF Driver

-----------------------------------------------------------------------------
(* A step of thread t changes the locals of no other thread. *)
LocalsMoved(t) ==
  /\ ThreadTypes'
  /\ \A u \in Threads \ {t} : /\ pc'[u] = pc[u] /\ req'[u] = req[u]
                              /\ word'[u] = word[u] /\ ans'[u] = ans[u]

(* What has to be shown of a step of a child thread. *)
LEMMA ChildCombine ==
  ASSUME SoundInv, NEW t \in Threads, UNCHANGED <<textVars, cnt, resultVars>>,
         LocalsMoved(t), GenuineThread(t)',
         QueueTypes', QueuesGenuine', TableTypes', TablesGenuine', CountTypes',
         phase' \in [Supers -> PhaseNames],
         \A s \in Supers : \/ phase'[s] = phase[s]
                           \/ phase[s] = "pushing" /\ phase'[s] = "overwritten"
  PROVE  SoundInv'
<1>1. TypeOK /\ ThreadsGenuine /\ DriversInOrder
  BY DEF SoundInv
<1>2. TypeOK'
  BY <1>1 DEF TypeOK, DriverTypes, ResultTypes, resultVars, textVars, LocalsMoved
<1>3. ThreadsGenuine'
  <2>1. ASSUME NEW u \in Threads \ {t} PROVE GenuineThread(u)'
    <3>1. GenuineThread(u)
      BY <1>1 DEF ThreadsGenuine
    <3>2. pc'[u] = pc[u] /\ req'[u] = req[u] /\ word'[u] = word[u] /\ ans'[u] = ans[u]
      BY DEF LocalsMoved
    <3>3. Genuine(req[u])' <=> Genuine(req[u])
      BY <3>2 DEF Genuine, Half, FirstText, textVars
    <3> QED BY <3>1, <3>2, <3>3 DEF GenuineThread, Own, Told, AnswerFor, FirstText, textVars
  <2> QED BY <2>1 DEF ThreadsGenuine
<1>4. DriversInOrder'
  <2>1. ASSUME NEW s \in Supers PROVE OrderOf(s)'
    <3>1. OrderOf(s) /\ Half(s)' = Half(s)
      BY <1>1, SameText DEF DriversInOrder
    <3> QED BY <3>1 DEF OrderOf, textVars
  <2> QED BY <1>1, <2>1, OrderKept
<1> QED BY <1>2, <1>3, <1>4 DEF SoundInv

(* The locals after a jump, and after going back to the queue. *)
LEMMA GotoFacts ==
  ASSUME ThreadTypes, NEW t \in Threads, NEW label \in Labels, Goto(t, label)
  PROVE  /\ pc' \in [Threads -> Labels] /\ pc'[t] = label
         /\ \A u \in Threads \ {t} : pc'[u] = pc[u]
BY DEF ThreadTypes, Goto

LEMMA IdleFacts ==
  ASSUME ThreadTypes, NEW t \in Threads, Idle(t)
  PROVE  LocalsMoved(t) /\ GenuineThread(t)'
<1>1. /\ pc' \in [Threads -> Labels] /\ pc'[t] = "idle"
      /\ \A u \in Threads \ {t} : pc'[u] = pc[u]
  BY GotoFacts DEF Idle, Labels
<1>2. LocalsMoved(t)
  BY <1>1 DEF LocalsMoved, ThreadTypes, Idle
<1>3. GenuineThread(t)'
  BY <1>1 DEF GenuineThread, Delivering, Told, AnswerFor, FirstText, textVars
<1> QED BY <1>2, <1>3

(* Storing an answer for a word, or a miss, under the word, or under what  *)
(* words[] holds at its number.                                            *)
LEMMA CacheFacts ==
  ASSUME TableTypes, TablesGenuine, NEW s \in Supers, NEW k \in Entry,
         NEW v \in Answers \cup {NoAnswer},
         FirstText /\ k \in Word => v \in {k, Miss, NoAnswer},
         NEW m \in Stored(cache[s], k, v), cache' = [cache EXCEPT ![s] = m],
         UNCHANGED <<textVars, words, translated>>
  PROVE  TableTypes' /\ TablesGenuine'
<1> DEFINE A == Answers \cup {NoAnswer}
<1>1. cache \in [Supers -> Maps(Entry, A)]
  BY DEF TableTypes
<1>2. /\ m \in Maps(Entry, A)
      /\ \A x \in DOMAIN m : IF x = k THEN m[x] = v
                                      ELSE x \in DOMAIN cache[s] /\ m[x] = cache[s][x]
  <2>1. v \in A /\ cache[s] \in Maps(Entry, A)
    BY <1>1
  <2> HIDE DEF A
  <2> QED BY <2>1, StoredFacts
<1>3. TableTypes'
  BY <1>1, <1>2 DEF TableTypes
<1>4. (FirstText => HitsRight)'
  <2>1. ASSUME FirstText, NEW p \in Supers, NEW x \in DOMAIN cache'[p] \cap Word
        PROVE  cache'[p][x] \in {x, Miss, NoAnswer}
    <3>1. CASE p = s
      BY <1>1, <1>2, <2>1, <3>1 DEF TablesGenuine, HitsRight
    <3>2. CASE p # s
      BY <1>1, <2>1, <3>2 DEF TablesGenuine, HitsRight
    <3> QED BY <3>1, <3>2
  <2> QED BY <2>1, SameText DEF HitsRight
<1>5. /\ \A p \in Supers, j \in Index : Fits(p, j, translated[p][j])'
      /\ \A p \in Supers, j \in Index : Fits(p, j, words[p][j])'
  BY SameText DEF TablesGenuine
<1> QED BY <1>3, <1>4, <1>5 DEF TablesGenuine

(* Writing something that fits into an array of translations. *)
LEMMA WriteFacts ==
  ASSUME TableTypes, TablesGenuine, NEW s \in Supers, NEW k \in Index, NEW e \in Entry,
         Fits(s, k, e), translated' = [translated EXCEPT ![s][k] = e],
         UNCHANGED <<textVars, words, cache>>
  PROVE  TableTypes' /\ TablesGenuine'
<1>1. translated \in [Supers -> [Index -> Entry]]
  BY DEF TableTypes
<1>2. translated' \in [Supers -> [Index -> Entry]]
  BY <1>1
<1>3. \A p \in Supers, j \in Index : translated'[p][j] =
         IF p = s /\ j = k THEN e ELSE translated[p][j]
  BY <1>1
<1>4. \A p \in Supers, j \in Index : Fits(p, j, translated'[p][j])
  BY <1>3 DEF TablesGenuine
<1>5. /\ \A p \in Supers, j \in Index : Fits(p, j, translated[p][j])'
      /\ \A p \in Supers, j \in Index : Fits(p, j, words[p][j])'
      /\ (FirstText => HitsRight)'
  BY <1>4, SameText DEF TablesGenuine, HitsRight
<1> QED BY <1>2, <1>5 DEF TableTypes, TablesGenuine

(* The locals after a jump that keeps the word in hand and its answer. *)
LEMMA JumpFacts ==
  ASSUME ThreadTypes, NEW t \in Threads, NEW label \in Labels, Goto(t, label),
         UNCHANGED <<textVars, req, word, ans>>, tmp' \in [Threads -> Nat]
  PROVE  /\ LocalsMoved(t)
         /\ pc'[t] = label
         /\ Genuine(req[t]) => Genuine(req[t])'
<1>1. /\ pc' \in [Threads -> Labels] /\ pc'[t] = label
      /\ \A u \in Threads \ {t} : pc'[u] = pc[u]
  BY GotoFacts
<1> QED BY <1>1 DEF LocalsMoved, ThreadTypes, Genuine, Half, FirstText, textVars

(* Every step of a child thread keeps the words and answers together. *)
LEMMA ChildStep ==
  ASSUME SoundInv, NEW t \in Threads, ChildThread(t)
  PROVE  SoundInv'
<1>1. /\ QueueTypes /\ ThreadTypes /\ TableTypes /\ CountTypes
      /\ TypeOK /\ QueuesGenuine /\ TablesGenuine /\ GenuineThread(t)
  BY DEF SoundInv, TypeOK, ThreadsGenuine
<1>2. /\ t[1] \in Supers /\ Peer(t[1]) \in Supers
      /\ phase \in [Supers -> PhaseNames]
      /\ req[t] \in Request \cup {NoReq} /\ word[t] \in Answers \cup {NoAnswer}
      /\ ans[t] \in Answers \cup {NoAnswer} /\ pc[t] \in Labels
  BY <1>1, ThreadFacts DEF TypeOK, DriverTypes, ThreadTypes
<1>3. ASSUME UNCHANGED <<queueVars, textVars>> PROVE QueueTypes' /\ QueuesGenuine'
  BY <1>1, <1>3, SameText DEF queueVars, QueueTypes, QueuesGenuine
<1>4. ASSUME UNCHANGED <<tableVars, textVars>> PROVE TableTypes' /\ TablesGenuine'
  BY <1>1, <1>4, SameText DEF tableVars, TableTypes, TablesGenuine, HitsRight
<1>5. ASSUME UNCHANGED countVars PROVE CountTypes'
  BY <1>1, <1>5 DEF countVars, CountTypes
<1>6. ASSUME UNCHANGED driverVars
      PROVE  /\ UNCHANGED <<textVars, cnt>> /\ phase' \in [Supers -> PhaseNames]
             /\ \A s \in Supers : phase'[s] = phase[s]
  BY <1>2, <1>6 DEF driverVars
<1>7. pc[t] # "idle" => /\ Genuine(req[t]) /\ req[t] \in Request /\ req[t].super \in Supers
                        /\ req[t].index \in Index /\ req[t].word \in Word
                        /\ req[t].word \in Entry /\ req[t].word \in Answers
  BY <1>1, GenuineFacts DEF GenuineThread
<1>8. Own(t) \/ req[t].super = Peer(t[1]) \/ pc[t] = "idle"
  BY <1>2, <1>7, ThreadFacts DEF Own
<1>9. CASE Take(t)
  <2>1. /\ pc' \in [Threads -> Labels] /\ pc'[t] = "ask"
        /\ \A u \in Threads \ {t} : pc'[u] = pc[u]
    BY <1>1, <1>9, GotoFacts DEF Take, Labels
  <2>2. q[t] \in Seq(Request) /\ q[t] # <<>>
    BY <1>1, <1>9 DEF Take, QueueTypes
  <2>3. Head(q[t]) \in Request /\ Head(q[t]) = q[t][1] /\ 1 \in 1 .. Len(q[t])
    BY <2>2
  <2>4. Genuine(Head(q[t]))
    BY <1>1, <2>3 DEF QueuesGenuine
  <2>5. LocalsMoved(t) /\ req'[t] = Head(q[t])
    BY <1>1, <1>9, <2>1, <2>3 DEF Take, LocalsMoved, ThreadTypes
  <2>6. UNCHANGED textVars
    BY <1>9 DEF Take, driverVars
  <2>7. GenuineThread(t)'
    <3>1. Genuine(req'[t])
      BY <2>4, <2>5
    <3>2. Genuine(req[t])'
      BY <2>6, <3>1 DEF Genuine, Half, FirstText, textVars
    <3> QED BY <2>1, <3>2 DEF GenuineThread, Delivering, Told, AnswerFor, FirstText, textVars
  <2>8. QueueTypes' /\ QueuesGenuine'
    <3>1. Tail(q[t]) \in Seq(Request)
          /\ \A j \in 1 .. Len(Tail(q[t])) : j + 1 \in 1 .. Len(q[t]) /\ Tail(q[t])[j] = q[t][j + 1]
      BY <2>2
    <3>2. q' \in [Threads -> Seq(Request)]
          /\ \A u \in Threads : q'[u] = IF u = t THEN Tail(q[t]) ELSE q[u]
      BY <1>1, <1>9, <3>1 DEF Take, QueueTypes
    <3>3. \A u \in Threads : \A j \in 1 .. Len(q'[u]) : Genuine(q'[u][j])
      BY <1>1, <3>1, <3>2 DEF QueuesGenuine
    <3> QED BY <1>1, <1>9, <2>6, <3>2, <3>3, SameText DEF QueueTypes, QueuesGenuine, Take
  <2> QED BY <1>4, <1>5, <1>6, <1>9, <2>5, <2>6, <2>7, <2>8, ChildCombine DEF Take
<1>10. CASE Ask(t)
  <2>1. PICK a \in {ChildAnswer(t, req[t].word), NoAnswer} :
           /\ word' = [word EXCEPT ![t] = a] /\ ans' = [ans EXCEPT ![t] = a]
           /\ Goto(t, IF a = Miss THEN "missed" ELSE "deliver")
           /\ UNCHANGED <<textVars, req, tmp>>
    BY <1>10 DEF Ask, driverVars
  <2>2. /\ a \in Answers \cup {NoAnswer} /\ Genuine(req[t])
        /\ a = Miss \/ AnswerFor(req[t].word, a)
    BY <1>7, <1>10 DEF ChildAnswer, Ask, Answers, Entry, AnswerFor
  <2>3. /\ pc' \in [Threads -> Labels] /\ pc'[t] = IF a = Miss THEN "missed" ELSE "deliver"
        /\ \A u \in Threads \ {t} : pc'[u] = pc[u]
    BY <1>1, <2>1, GotoFacts DEF Labels
  <2>4. LocalsMoved(t) /\ word'[t] = a /\ ans'[t] = a
    BY <1>1, <2>1, <2>2, <2>3 DEF LocalsMoved, ThreadTypes
  <2>5. GenuineThread(t)'
    <3>1. Genuine(req[t])'
      BY <2>1, <2>2 DEF Genuine, Half, FirstText, textVars
    <3> QED BY <2>1, <2>2, <2>3, <2>4, <3>1 DEF GenuineThread, Delivering, Told, AnswerFor, FirstText, textVars
  <2> QED BY <1>3, <1>4, <1>5, <1>6, <1>10, <2>1, <2>4, <2>5, ChildCombine DEF Ask
<1>11. CASE GiveUpOwn(t)
  <2>1. /\ Goto(t, "escalate") /\ UNCHANGED <<textVars, req, word, ans, tmp, words, translated>>
        /\ Told(t) /\ Genuine(req[t])
    BY <1>1, <1>7, <1>11 DEF GiveUpOwn, driverVars, GenuineThread
  <2>2. /\ LocalsMoved(t) /\ pc'[t] = "escalate" /\ Genuine(req[t])'
    BY <1>1, <2>1, JumpFacts DEF Labels, ThreadTypes
  <2>3. GenuineThread(t)'
    BY <2>1, <2>2 DEF GenuineThread, Delivering, Told, AnswerFor, FirstText, textVars
  <2>4. TableTypes' /\ TablesGenuine'
    <3>1. PICK m \in Stored(cache[t[1]], req[t].word, word[t]) :
             cache' = [cache EXCEPT ![t[1]] = m]
      BY <1>11 DEF GiveUpOwn
    <3>2. /\ req[t].word \in Entry /\ word[t] \in Answers \cup {NoAnswer}
          /\ FirstText => word[t] \in {req[t].word, Miss, NoAnswer}
      BY <1>7, <1>11, <2>1 DEF GiveUpOwn, Told, AnswerFor, Entry, Answers
    <3> QED BY <1>1, <1>2, <2>1, <3>1, <3>2, CacheFacts
  <2> QED BY <1>3, <1>5, <1>6, <1>11, <2>1, <2>2, <2>3, <2>4, ChildCombine DEF GiveUpOwn
<1>12. CASE GiveUpForeign(t)
  <2>1. LocalsMoved(t) /\ GenuineThread(t)'
    BY <1>1, <1>12, IdleFacts DEF GiveUpForeign
  <2> QED BY <1>3, <1>4, <1>5, <1>6, <1>12, <2>1, ChildCombine DEF GiveUpForeign, driverVars
<1>13. CASE Consult(t)
  <2> DEFINE found == Looked(cache[t[1]], req[t].word)
  <2>1. /\ UNCHANGED <<driverVars, queueVars, req, word, tmp, tableVars, countVars, resultVars>>
        /\ UNCHANGED textVars /\ pc[t] = "missed" /\ Genuine(req[t])
        /\ Told(t)
    BY <1>1, <1>7, <1>13 DEF Consult, driverVars, GenuineThread
  <2>2. CASE UNCHANGED ans /\ \E label \in {"move", "escalate"} : Goto(t, label)
    <3>1. PICK label \in {"move", "escalate"} : Goto(t, label)
      BY <2>2
    <3>2. LocalsMoved(t) /\ pc'[t] = label /\ Genuine(req[t])'
      BY <1>1, <2>1, <2>2, <3>1, JumpFacts DEF Labels, ThreadTypes
    <3>3. GenuineThread(t)'
      BY <2>1, <2>2, <3>2 DEF GenuineThread, Delivering, Told, AnswerFor, FirstText, textVars
    <3> QED BY <1>3, <1>4, <1>5, <1>6, <2>1, <3>2, <3>3, ChildCombine
  <2>3. CASE /\ found \notin {NoAnswer, Miss} /\ Goto(t, "deliver")
             /\ ans' = [ans EXCEPT ![t] = found]
    <3>1. AnswerFor(req[t].word, found)
      <4>1. cache[t[1]] \in Maps(Entry, Answers \cup {NoAnswer})
        BY <1>1, <1>2 DEF TableTypes
      <4>2. req[t].word \in DOMAIN cache[t[1]] /\ found = cache[t[1]][req[t].word]
        BY <2>3 DEF Looked
      <4>3. found \in Entry
        BY <2>3, <4>1, <4>2 DEF Maps, Entry, Answers
      <4>4. FirstText => found \in {req[t].word, Miss, NoAnswer}
        BY <1>1, <1>2, <1>7, <2>1, <4>2 DEF TablesGenuine, HitsRight
      <4> QED BY <2>3, <4>3, <4>4 DEF AnswerFor
    <3>2. /\ pc' \in [Threads -> Labels] /\ pc'[t] = "deliver"
          /\ \A u \in Threads \ {t} : pc'[u] = pc[u]
      BY <1>1, <2>3, GotoFacts DEF Labels
    <3> HIDE DEF found
    <3>3. LocalsMoved(t) /\ ans'[t] = found
      BY <1>1, <1>7, <2>1, <2>3, <3>1, <3>2 DEF LocalsMoved, ThreadTypes, AnswerFor, Entry, Answers
    <3>4. GenuineThread(t)'
      <4>1. Genuine(req[t])'
        BY <2>1 DEF Genuine, Half, FirstText, textVars
      <4> QED BY <2>1, <3>1, <3>2, <3>3, <4>1 DEF GenuineThread, Delivering, Told, AnswerFor, FirstText, textVars
    <3> QED BY <1>3, <1>4, <1>5, <1>6, <2>1, <3>3, <3>4, ChildCombine
  <2> QED BY <1>13, <2>2, <2>3 DEF Consult
<1>14. CASE Move(t)
  <2>1. LocalsMoved(t) /\ GenuineThread(t)'
    BY <1>1, <1>14, IdleFacts DEF Move
  <2>2. /\ UNCHANGED <<textVars, cnt, super, sending, ran, tableVars, countVars, resultVars>>
        /\ LockedPush(NextChild(t), req[t]) /\ Genuine(req[t]) /\ NextChild(t) \in Threads
    BY <1>7, <1>14, ThreadFacts DEF Move
  <2>3. /\ q' \in [Threads -> Seq(Request)]
        /\ \A u \in Threads : \A j \in 1 .. Len(q'[u]) : Genuine(q'[u][j])
        /\ phase' \in [Supers -> PhaseNames]
        /\ \A s \in Supers : \/ phase'[s] = phase[s]
                             \/ phase[s] = "pushing" /\ phase'[s] = "overwritten"
    BY <1>1, <2>2, LockedPushFacts
  <2>4. QueueTypes' /\ QueuesGenuine'
    BY <1>1, <2>2, <2>3, SameText DEF QueueTypes, QueuesGenuine
  <2> QED BY <1>4, <1>5, <2>1, <2>2, <2>3, <2>4, ChildCombine
<1>15. CASE Escalate(t)
  <2>1. LocalsMoved(t) /\ GenuineThread(t)'
    BY <1>1, <1>15, IdleFacts DEF Escalate
  <2>2. UNCHANGED textVars /\ Genuine(req[t])
    BY <1>7, <1>15 DEF Escalate, driverVars
  <2>3. QueueTypes' /\ QueuesGenuine'
    <3> DEFINE sq == super[t[1]]
    <3>1. sq \in Seq(Request)
      BY <1>1, <1>2 DEF QueueTypes
    <3>2. /\ Append(sq, req[t]) \in Seq(Request)
          /\ \A j \in 1 .. Len(Append(sq, req[t])) :
                \/ j \in 1 .. Len(sq) /\ Append(sq, req[t])[j] = sq[j]
                \/ Append(sq, req[t])[j] = req[t]
      BY <1>7, <1>15, <3>1 DEF Escalate
    <3>3. /\ super' \in [Supers -> Seq(Request)]
          /\ \A s \in Supers : super'[s] = IF s = t[1] THEN Append(sq, req[t]) ELSE super[s]
      BY <1>1, <1>2, <1>15, <3>2 DEF Escalate, QueueTypes
    <3>4. \A s \in Supers : \A j \in 1 .. Len(super'[s]) : Genuine(super'[s][j])
      BY <1>1, <1>2, <2>2, <3>2, <3>3 DEF QueuesGenuine
    <3> QED BY <1>1, <1>15, <2>2, <3>3, <3>4, SameText DEF QueueTypes, QueuesGenuine, Escalate
  <2> QED BY <1>4, <1>5, <1>6, <1>15, <2>1, <2>2, <2>3, ChildCombine DEF Escalate
<1>16. CASE WriteOwn(t) \/ WriteRemote(t)
  <2>1. PICK label \in {"count", "load"}, k \in {0, req[t].index} :
           /\ Goto(t, label) /\ (label = "count" <=> Own(t))
           /\ ans[t] # NoAnswer => k = req[t].index
           /\ translated' = [translated EXCEPT ![req[t].super][k] = ans[t]]
    <3>1. CASE WriteOwn(t)
      BY <3>1 DEF WriteOwn, Own
    <3>2. CASE WriteRemote(t)
      BY <1>8, <3>2 DEF WriteRemote, ResIndex
    <3> QED BY <1>16, <3>1, <3>2
  <2>2. /\ UNCHANGED <<driverVars, queueVars, req, word, ans, tmp, cache, words, countVars, resultVars>>
        /\ UNCHANGED textVars /\ pc[t] = "deliver"
    BY <1>16 DEF WriteOwn, WriteRemote, driverVars
  <2>3. Genuine(req[t]) /\ AnswerFor(req[t].word, ans[t]) /\ Told(t)
    BY <1>1, <2>2 DEF GenuineThread, Delivering
  <2>4. LocalsMoved(t) /\ pc'[t] = label /\ Genuine(req[t])'
    BY <1>1, <2>1, <2>2, <2>3, JumpFacts DEF Labels, ThreadTypes
  <2>5. GenuineThread(t)'
    BY <2>1, <2>2, <2>3, <2>4 DEF GenuineThread, Delivering, Own, Told, AnswerFor, FirstText, textVars
  <2>6. TableTypes' /\ TablesGenuine'
    <3>1. req[t].super \in Supers /\ k \in Index /\ ans[t] \in Entry
      BY <1>7, <2>1, <2>2, <2>3, TranslatorAssumption DEF AnswerFor, Index
    <3>2. Fits(req[t].super, k, ans[t])
      BY <2>1, <2>3 DEF Fits, Genuine, AnswerFor
    <3> QED BY <1>1, <2>1, <2>2, <3>1, <3>2, WriteFacts
  <2> QED BY <1>3, <1>5, <1>6, <2>2, <2>4, <2>5, <2>6, ChildCombine
<1>17. CASE CountOwn(t)
  <2>1. CountTypes'
    BY <1>1, <1>17 DEF CountOwn, CountTypes
  <2>2. LocalsMoved(t) /\ GenuineThread(t)'
    <3>1. CASE Idle(t)
      BY <1>1, <3>1, IdleFacts
    <3>2. CASE Goto(t, "memo") /\ UNCHANGED <<req, word, ans, tmp>>
      <4>1. UNCHANGED textVars /\ Genuine(req[t]) /\ Told(t)
        BY <1>1, <1>7, <1>17 DEF CountOwn, driverVars, GenuineThread
      <4>2. LocalsMoved(t) /\ pc'[t] = "memo" /\ Genuine(req[t])'
        BY <1>1, <3>2, <4>1, JumpFacts DEF Labels, ThreadTypes
      <4> QED BY <3>2, <4>1, <4>2 DEF GenuineThread, Delivering, Told, AnswerFor, FirstText, textVars
    <3> QED BY <1>17, <3>1, <3>2 DEF CountOwn
  <2> QED BY <1>3, <1>4, <1>6, <1>17, <2>1, <2>2, ChildCombine DEF CountOwn, driverVars
<1>18. CASE Memo(t)
  <2>1. LocalsMoved(t) /\ GenuineThread(t)'
    BY <1>1, <1>18, IdleFacts DEF Memo
  <2>2. UNCHANGED <<textVars, words, translated>> /\ Told(t)
    BY <1>1, <1>18 DEF Memo, driverVars, GenuineThread
  <2>3. TableTypes' /\ TablesGenuine'
    <3>1. PICK m \in Stored(cache[t[1]], req[t].word, word[t]) :
             cache' = [cache EXCEPT ![t[1]] = m]
      BY <1>18 DEF Memo
    <3>2. /\ req[t].word \in Entry /\ word[t] \in Answers \cup {NoAnswer}
          /\ FirstText => word[t] \in {req[t].word, Miss, NoAnswer}
      BY <1>7, <1>18, <2>2 DEF Memo, Told, AnswerFor, Entry, Answers
    <3> QED BY <1>1, <1>2, <2>2, <3>1, <3>2, CacheFacts
  <2> QED BY <1>3, <1>5, <1>6, <1>18, <2>1, <2>3, ChildCombine DEF Memo
<1>19. CASE LoadCount(t) \/ StoreCount(t)
  <2>1. superCount[Peer(t[1])] \in Nat /\ tmp[t] \in Nat /\ tmp \in [Threads -> Nat]
        /\ superCount \in [Supers -> Nat] /\ childCount \in [Threads -> Nat]
    BY <1>1, <1>2 DEF CountTypes, ThreadTypes
  <2>2. tmp' \in [Threads -> Nat] /\ CountTypes'
    BY <1>2, <1>19, <2>1 DEF LoadCount, StoreCount, CountTypes, countVars
  <2>3. PICK label \in {"store", "memoRemote"} : Goto(t, label)
    BY <1>19 DEF LoadCount, StoreCount
  <2>4. /\ UNCHANGED <<driverVars, queueVars, req, word, ans, tableVars, resultVars>>
        /\ UNCHANGED textVars /\ pc[t] \in {"load", "store"}
    BY <1>19 DEF LoadCount, StoreCount, driverVars
  <2>5. /\ Genuine(req[t]) /\ AnswerFor(req[t].word, ans[t]) /\ Told(t)
        /\ ~Own(t)
    BY <1>1, <2>4 DEF GenuineThread, Delivering, Told, AnswerFor, FirstText, textVars
  <2>6. LocalsMoved(t) /\ pc'[t] = label /\ Genuine(req[t])'
    BY <1>1, <2>2, <2>3, <2>4, <2>5, JumpFacts DEF Labels
  <2>7. GenuineThread(t)'
    BY <2>4, <2>5, <2>6 DEF GenuineThread, Delivering, Own, Told, AnswerFor, FirstText, textVars
  <2> QED BY <1>3, <1>4, <1>6, <2>2, <2>4, <2>6, <2>7, ChildCombine
<1>20. CASE MemoRemote(t)
  <2> DEFINE k == words[Peer(t[1])][ResIndex(t)]
  <2>1. /\ UNCHANGED <<driverVars, queueVars, req, word, ans, tmp, words, translated,
                       countVars, resultVars>>
        /\ UNCHANGED textVars /\ pc[t] = "memoRemote" /\ Goto(t, "memo")
    BY <1>20 DEF MemoRemote, driverVars
  <2>2. /\ Genuine(req[t]) /\ AnswerFor(req[t].word, ans[t]) /\ Told(t)
        /\ ~Own(t) /\ req[t].super = Peer(t[1])
    BY <1>1, <1>8, <2>1 DEF GenuineThread, Delivering
  <2>3. LocalsMoved(t) /\ pc'[t] = "memo" /\ Genuine(req[t])'
    BY <1>1, <2>1, <2>2, JumpFacts DEF Labels, ThreadTypes
  <2>4. GenuineThread(t)'
    BY <2>1, <2>2, <2>3 DEF GenuineThread, Delivering, Told, AnswerFor, FirstText, textVars
  <2>5. TableTypes' /\ TablesGenuine'
    <3>1. PICK m \in Stored(cache[Peer(t[1])], k, ans[t]) :
             cache' = [cache EXCEPT ![Peer(t[1])] = m]
      BY <1>20 DEF MemoRemote
    <3>2. ResIndex(t) \in Index
      BY <1>7, <2>1, TranslatorAssumption DEF ResIndex, Index
    <3>3. k \in Entry /\ ans[t] \in Answers \cup {NoAnswer}
      BY <1>1, <1>2, <2>2, <3>2 DEF TableTypes
    <3>4. FirstText /\ k \in Word => ans[t] \in {k, NoAnswer}
      <4>1. Fits(Peer(t[1]), ResIndex(t), k)
        BY <1>1, <1>2, <3>2 DEF TablesGenuine
      <4>2. k \in Word => k # NoAnswer
        BY TranslatorAssumption
      <4>3. ans[t] # NoAnswer => ResIndex(t) = req[t].index
        BY DEF ResIndex
      <4> HIDE DEF k
      <4> QED BY <2>2, <4>1, <4>2, <4>3 DEF Fits, Genuine, AnswerFor
    <3> HIDE DEF k
    <3> QED BY <1>1, <1>2, <2>1, <3>1, <3>3, <3>4, CacheFacts
  <2> QED BY <1>3, <1>5, <1>6, <2>1, <2>3, <2>4, <2>5, ChildCombine
<1>21. CASE LoseAnswer(t)
  <2>1. /\ UNCHANGED <<driverVars, queueVars, req, word, ans, tmp, tableVars, countVars, resultVars>>
        /\ UNCHANGED textVars /\ pc[t] = "deliver" /\ Goto(t, "memo")
    BY <1>21 DEF LoseAnswer, driverVars
  <2>2. Genuine(req[t]) /\ Told(t)
    BY <1>1, <2>1 DEF GenuineThread
  <2>3. LocalsMoved(t) /\ pc'[t] = "memo" /\ Genuine(req[t])'
    BY <1>1, <2>1, <2>2, JumpFacts DEF Labels, ThreadTypes
  <2>4. GenuineThread(t)'
    BY <2>1, <2>2, <2>3 DEF GenuineThread, Delivering, Told, AnswerFor, FirstText, textVars
  <2> QED BY <1>3, <1>4, <1>5, <1>6, <2>1, <2>3, <2>4, ChildCombine
<1> QED BY <1>9, <1>10, <1>11, <1>12, <1>13, <1>14, <1>15, <1>16, <1>17, <1>18, <1>19, <1>20, <1>21
        DEF ChildThread

(* super_word() hands on genuine words: the peer only gives them another   *)
(* child to start at.                                                      *)
LEMMA SuperStep ==
  ASSUME SoundInv, NEW s \in Supers, SuperThread(s)
  PROVE  SoundInv'
<1>1. /\ UNCHANGED <<textVars, cnt, threadVars, tableVars, countVars, resultVars>>
  BY DEF SuperThread, PickWord, SendWord, LoseWord, driverVars
<1>2. /\ TypeOK /\ QueuesGenuine /\ ThreadsGenuine /\ TablesGenuine /\ DriversInOrder
      /\ QueueTypes /\ phase \in [Supers -> PhaseNames]
  BY DEF SoundInv, TypeOK, DriverTypes
<1>3. ThreadsGenuine' /\ TablesGenuine'
  <2>1. TablesGenuine'
    BY <1>1, <1>2, SameText DEF TablesGenuine, HitsRight, tableVars
  <2> QED BY <1>1, <1>2, <2>1, ThreadsKept
<1>4. ASSUME QueueTypes', QueuesGenuine', phase' \in [Supers -> PhaseNames],
             \A p \in Supers : \/ phase'[p] = phase[p]
                               \/ phase[p] = "pushing" /\ phase'[p] = "overwritten"
      PROVE  SoundInv'
  <2>1. TypeOK'
    BY <1>1, <1>2, <1>4 DEF TypeOK, DriverTypes, ThreadTypes, TableTypes, CountTypes,
       ResultTypes, textVars, threadVars, tableVars, countVars, resultVars
  <2>2. DriversInOrder'
    <3>1. \A p \in Supers : OrderOf(p)'
      BY <1>1, <1>2, <1>4, SameText DEF DriversInOrder, OrderOf, textVars
    <3> QED BY <1>1, <1>2, <3>1, OrderKept
  <2> QED BY <1>3, <1>4, <2>1, <2>2 DEF SoundInv
<1>5. CASE PickWord(s)
  <2> DEFINE sq == super[s]
  <2>1. sq \in Seq(Request) /\ sq # <<>>
    BY <1>2, <1>5 DEF PickWord, QueueTypes
  <2>2. /\ Head(sq) \in Request /\ Head(sq) = sq[1] /\ 1 \in 1 .. Len(sq)
        /\ Tail(sq) \in Seq(Request)
        /\ \A j \in 1 .. Len(Tail(sq)) : j + 1 \in 1 .. Len(sq) /\ Tail(sq)[j] = sq[j + 1]
    BY <2>1
  <2>3. /\ super' \in [Supers -> Seq(Request)]
        /\ \A p \in Supers : super'[p] = IF p = s THEN Tail(sq) ELSE super[p]
        /\ sending' \in [Supers -> Request \cup {NoReq}]
        /\ \A p \in Supers : sending'[p] = IF p = s THEN Head(sq) ELSE sending[p]
        /\ UNCHANGED <<q, ran, phase>>
    <3>1. /\ super' = [super EXCEPT ![s] = Tail(sq)] /\ sending' = [sending EXCEPT ![s] = Head(sq)]
          /\ UNCHANGED <<q, ran, phase>>
      BY <1>5 DEF PickWord, driverVars
    <3>2. super \in [Supers -> Seq(Request)] /\ sending \in [Supers -> Request \cup {NoReq}]
      BY <1>2 DEF QueueTypes
    <3>3. Tail(sq) \in Seq(Request) /\ Head(sq) \in Request
      BY <2>2
    <3> HIDE DEF sq
    <3> QED BY <3>1, <3>2, <3>3
  <2>4. /\ \A p \in Supers : \A j \in 1 .. Len(super'[p]) : Genuine(super'[p][j])
        /\ \A p \in Supers : sending'[p] # NoReq => Genuine(sending'[p])
    <3>1. /\ \A p \in Supers : \A j \in 1 .. Len(super[p]) : Genuine(super[p][j])
          /\ \A p \in Supers : sending[p] # NoReq => Genuine(sending[p])
      BY <1>2 DEF QueuesGenuine
    <3>2. Genuine(Head(sq)) /\ \A j \in 1 .. Len(Tail(sq)) : Genuine(Tail(sq)[j])
      BY <2>2, <3>1
    <3> HIDE DEF sq
    <3> QED BY <2>3, <3>1, <3>2
  <2>5. QueueTypes' /\ QueuesGenuine'
    BY <1>1, <1>2, <2>3, <2>4, SameText DEF QueueTypes, QueuesGenuine
  <2> QED BY <1>2, <1>4, <2>3, <2>5
<1>6. CASE SendWord(s)
  <2> DEFINE p == Peer(s)
             r == [sending[s] EXCEPT !.start = ran[p]]
  <2>1. /\ p \in Supers /\ ran[p] \in Children(p) /\ ran[p] \in Nat /\ <<p, ran[p]>> \in Threads
    BY <1>2, ThreadFacts DEF QueueTypes
  <2>2. Genuine(sending[s])
    BY <1>2, <1>6 DEF SendWord, QueuesGenuine
  <2>3. Genuine(r)
    <3>1. sending[s] \in Request
      BY <2>2 DEF Genuine
    <3>2. r \in Request /\ r.super = sending[s].super /\ r.index = sending[s].index
          /\ r.word = sending[s].word
      BY <2>1, <3>1 DEF Request
    <3> HIDE DEF r
    <3> QED BY <2>2, <3>2 DEF Genuine
  <2>4. LockedPush(<<p, ran[p]>>, r)
    BY <1>6 DEF SendWord
  <2> HIDE DEF r
  <2>5. /\ q' \in [Threads -> Seq(Request)]
        /\ \A u \in Threads : \A j \in 1 .. Len(q'[u]) : Genuine(q'[u][j])
        /\ phase' \in [Supers -> PhaseNames]
        /\ \A x \in Supers : \/ phase'[x] = phase[x]
                             \/ phase[x] = "pushing" /\ phase'[x] = "overwritten"
    BY <1>2, <2>1, <2>3, <2>4, LockedPushFacts
  <2>6. DOMAIN ran' = Supers /\ \A x \in Supers : ran'[x] \in Children(x)
    <3>1. ran' = [ran EXCEPT ![p] = (@ + 1) % ChildNum[p]] /\ DOMAIN ran = Supers
      BY <1>2, <1>6 DEF SendWord, QueueTypes
    <3>2. (ran[p] + 1) % ChildNum[p] \in Children(p)
      <4>1. ran[p] + 1 \in Nat
        BY <2>1
      <4> QED BY <2>1, <4>1, ThreadFacts
    <3>3. \A x \in Supers : ran[x] \in Children(x)
      BY <1>2 DEF QueueTypes
    <3> HIDE DEF p
    <3> QED BY <2>1, <3>1, <3>2, <3>3
  <2>7. /\ super' = super /\ sending' \in [Supers -> Request \cup {NoReq}]
        /\ \A x \in Supers : sending'[x] \in {sending[x], NoReq}
    BY <1>2, <1>6 DEF SendWord, QueueTypes
  <2>8. QueueTypes' /\ QueuesGenuine'
    BY <1>1, <1>2, <2>5, <2>6, <2>7, SameText DEF QueueTypes, QueuesGenuine
  <2> QED BY <1>4, <2>5, <2>8
<1>7. CASE LoseWord(s)
  <2>1. /\ UNCHANGED <<q, super, ran, phase>>
        /\ sending' \in [Supers -> Request \cup {NoReq}]
        /\ \A x \in Supers : sending'[x] \in {sending[x], NoReq}
    BY <1>2, <1>7 DEF LoseWord, QueueTypes, driverVars
  <2>2. QueueTypes' /\ QueuesGenuine'
    BY <1>1, <1>2, <2>1, SameText DEF QueueTypes, QueuesGenuine
  <2> QED BY <1>2, <1>4, <2>1, <2>2
<1> QED BY <1>5, <1>6, <1>7 DEF SuperThread

LEMMA SoundStep == SoundInv /\ [Next]_vars => SoundInv'
<1> SUFFICES ASSUME SoundInv, [Next]_vars PROVE SoundInv'
  OBVIOUS
<1>1. CASE UNCHANGED vars
  <2>1. /\ UNCHANGED <<textVars, phase, cnt, q, super, sending, ran, pc, req, word, ans, tmp>>
        /\ UNCHANGED <<cache, words, translated, childCount, superCount>>
        /\ UNCHANGED <<result, result2, reply, threadVars>>
    BY <1>1 DEF vars, driverVars, queueVars, threadVars, tableVars, countVars, resultVars
  <2>2. TypeOK'
    BY <2>1 DEF SoundInv, TypeOK, DriverTypes, QueueTypes, ThreadTypes, TableTypes,
       CountTypes, ResultTypes, textVars
  <2>3. QueuesGenuine'
    BY <2>1, SameText DEF SoundInv, QueuesGenuine
  <2>4. ThreadsGenuine'
    BY <2>1, ThreadsKept DEF SoundInv
  <2>5. TablesGenuine'
    BY <2>1, SameText DEF SoundInv, TablesGenuine, HitsRight
  <2>6. DriversInOrder'
    <3>1. \A s \in Supers : OrderOf(s)'
      BY <2>1, SameText DEF SoundInv, DriversInOrder, OrderOf, textVars
    <3> QED BY <2>1, <3>1, OrderKept DEF SoundInv
  <2> QED BY <2>2, <2>3, <2>4, <2>5, <2>6 DEF SoundInv
<1>2. CASE Next
  BY <1>2, AcceptStep, DriverStep, ChildStep, SuperStep DEF Next
<1> QED BY <1>1, <1>2

LEMMA SoundAlways == Spec => []SoundInv
BY SoundInit, SoundStep, PTL DEF Spec

-----------------------------------------------------------------------------
(* Every reachable state of the translator has values of the right kind,   *)
(* for any number of texts and whatever calls fail: no index leaves the    *)
(* arrays words and translated_word, whatever the interleaving.            *)
THEOREM TypeCorrect == Spec => []TypeOK
<1>1. SoundInv => TypeOK
  BY DEF SoundInv
<1> QED BY SoundAlways, <1>1, PTL

-----------------------------------------------------------------------------
(* The sequence out has a place for every word of half, with its           *)
(* translation or nothing.                                                 *)
InPlace(out, half) ==
  /\ Len(out) = Len(half)
  /\ \A k \in 1 .. Len(half) : out[k] \in {half[k], NoAnswer}

(* What the drivers have put together and passed on of the first text.     *)
ReplyInv ==
  FirstText =>
    /\ \A s \in Supers : phase[s] \in {"join", "reset"} => InPlace(result[s], Half(s))
    /\ result2 # NoAnswer => text # NoText /\ InPlace(result2, Half(2))
    /\ stale = <<>>
    /\ ReplyInPlace

LEMMA ReplyInit == Init => ReplyInv
BY DEF Init, ReplyInv, ReplyInPlace

(* Only Accept, Assemble, SendResult, Reply and Reset touch the results.   *)
LEMMA ReplyKept ==
  ASSUME SoundInv, ReplyInv, UNCHANGED <<textVars, resultVars>>,
         \A s \in Supers : phase'[s] \in {"join", "reset"} => phase[s] \in {"join", "reset"}
  PROVE  ReplyInv'
<1>1. /\ text' = text /\ jobs' = jobs /\ stale' = stale
      /\ result' = result /\ result2' = result2 /\ reply' = reply
      /\ \A s \in Supers : Half(s)' = Half(s)
  BY SameText DEF textVars, resultVars
<1> QED BY <1>1 DEF ReplyInv, ReplyInPlace, FirstText, InPlace, Supers

(* The elements of two sequences put one behind the other. *)
LEMMA Joined ==
  ASSUME NEW S, NEW x \in Seq(S), NEW y \in Seq(S)
  PROVE  /\ Len(x \o y) = Len(x) + Len(y)
         /\ DOMAIN (x \o y) = 1 .. Len(x) + Len(y)
         /\ \A k \in 1 .. Len(x) + Len(y) :
              \/ k \in 1 .. Len(x) /\ (x \o y)[k] = x[k]
              \/ /\ k - Len(x) \in 1 .. Len(y)
                 /\ (x \o y)[k] = y[k - Len(x)]
OBVIOUS

LEMMA ReplyDriver ==
  ASSUME SoundInv, ReplyInv, NEW s \in Supers, Driver(s)
  PROVE  ReplyInv'
<1>1. /\ UNCHANGED textVars /\ phase \in [Supers -> PhaseNames]
      /\ result \in [Supers -> Seq(Entry)] /\ result2 \in Seq(Entry) \cup {NoAnswer}
      /\ text' = text /\ jobs' = jobs /\ stale' = stale
      /\ translated \in [Supers -> [Index -> Entry]]
  BY DEF Driver, BeginPush, EndPush, FileWord, Assemble, SendResult, Reply, Reset,
         SoundInv, TypeOK, DriverTypes, ResultTypes, TableTypes, textVars
<1>2. /\ \A p \in Supers : Half(p)' = Half(p) /\ Half(p) \in Seq(Word)
                            /\ Len(Half(p)) \in Index
      /\ FirstText' <=> FirstText
  BY <1>1, SameText, HalfFacts DEF SoundInv, TypeOK
<1>3. CASE BeginPush(s) \/ EndPush(s) \/ (s = 2 /\ FileWord)
  <2>1. /\ UNCHANGED resultVars
        /\ \A p \in Supers : phase'[p] \in {"join", "reset"} => phase[p] \in {"join", "reset"}
    BY <1>1, <1>3 DEF BeginPush, EndPush, FileWord
  <2> QED BY <1>1, <2>1, ReplyKept
<1>4. CASE Assemble(s)
  <2>1. PICK trailing \in BOOLEAN : result' = [result EXCEPT ![s] = Assembled(s, trailing)]
    BY <1>4 DEF Assemble
  <2>2. FirstText => InPlace(Assembled(s, trailing), Half(s))
    <3> DEFINE n == Len(Half(s))
               body == [k \in 1 .. n |-> translated[s][k - 1]]
    <3>1. ASSUME FirstText, NEW k \in Index
          PROVE  /\ k >= n => translated[s][k] = NoAnswer
                 /\ k < n => translated[s][k] \in {Half(s)[k + 1], NoAnswer}
      <4>1. Fits(s, k, translated[s][k])
        BY <3>1 DEF SoundInv, TablesGenuine
      <4>2. n \in Nat /\ k \in Nat
        BY <1>2 DEF Index
      <4> QED BY <3>1, <4>1, <4>2 DEF Fits
    <3>2. n \in Index /\ n \in Nat /\ \A k \in 1 .. n : k - 1 \in Index /\ k - 1 < n
      BY <1>2, TranslatorAssumption DEF Index
    <3>3. FirstText => Assembled(s, trailing) = body
      BY <3>1, <3>2 DEF Assembled
    <3>4. Len(body) = n
      BY <3>2
    <3>5. ASSUME FirstText, NEW k \in 1 .. n PROVE body[k] \in {Half(s)[k], NoAnswer}
      <4>1. translated[s][k - 1] \in {Half(s)[(k - 1) + 1], NoAnswer}
        BY <3>1, <3>2, <3>5
      <4>2. (k - 1) + 1 = k
        BY <3>2
      <4> QED BY <4>1, <4>2
    <3> QED BY <3>3, <3>4, <3>5 DEF InPlace
  <2>3. /\ \A p \in Supers : result'[p] = IF p = s THEN Assembled(s, trailing) ELSE result[p]
        /\ \A p \in Supers \ {s} : phase'[p] = phase[p]
        /\ UNCHANGED <<result2, reply>>
    BY <1>1, <1>4, <2>1 DEF Assemble
  <2> QED BY <1>1, <1>2, <2>2, <2>3 DEF ReplyInv, ReplyInPlace, FirstText, InPlace, Supers
<1>5. CASE s = 2 /\ SendResult
  <2>1. /\ UNCHANGED <<result, reply>> /\ result2' \in {NoAnswer, result[2], result2}
        /\ phase[2] = "join" /\ phase' = [phase EXCEPT ![2] = "reset"]
    BY <1>5 DEF SendResult
  <2>2. text # NoText
    BY <1>5, <2>1 DEF SoundInv, DriversInOrder, OrderOf
  <2>3. /\ \A p \in Supers : phase'[p] \in {"join", "reset"} => phase[p] \in {"join", "reset"}
    BY <1>1, <2>1
  <2> QED BY <1>1, <1>2, <1>5, <2>1, <2>2, <2>3 DEF ReplyInv, ReplyInPlace, FirstText, InPlace, Supers
<1>6. CASE s = 1 /\ Reply
  <2>1. /\ UNCHANGED <<result, result2>> /\ reply' = result[1] \o result2
        /\ result2 # NoAnswer /\ phase[1] = "join" /\ phase' = [phase EXCEPT ![1] = "reset"]
    BY <1>6 DEF Reply
  <2>2. \A p \in Supers : phase'[p] \in {"join", "reset"} => phase[p] \in {"join", "reset"}
    BY <1>1, <2>1
  <2>3. FirstText => ReplyInPlace'
    <3> SUFFICES ASSUME FirstText PROVE ReplyInPlace'
      OBVIOUS
    <3> DEFINE out == result[1] \o result2
               sent == text.first \o text.second
    <3>1. /\ text # NoText /\ stale = <<>>
          /\ InPlace(result[1], Half(1)) /\ InPlace(result2, Half(2))
      BY <1>6, <2>1 DEF ReplyInv
    <3>2. /\ text.first \in Seq(Word) /\ text.second \in Seq(Word)
          /\ Half(1) = text.first /\ Half(2) = text.second
      BY <3>1, TranslatorAssumption DEF Half, SoundInv, TypeOK, DriverTypes, Text
    <3>3. /\ result[1] \in Seq(Entry) /\ result2 \in Seq(Entry)
          /\ Len(result[1]) = Len(text.first) /\ Len(result2) = Len(text.second)
      BY <1>1, <1>6, <2>1, <3>1, <3>2 DEF InPlace
    <3>4. /\ Len(out) = Len(sent)
          /\ DOMAIN sent = 1 .. Len(text.first) + Len(text.second)
      <4>1. Len(out) = Len(result[1]) + Len(result2)
        BY <3>3, Joined
      <4>2. /\ Len(sent) = Len(text.first) + Len(text.second)
            /\ DOMAIN sent = 1 .. Len(text.first) + Len(text.second)
        BY <3>2, Joined
      <4> HIDE DEF out, sent
      <4> QED BY <3>3, <4>1, <4>2
    <3>5. ASSUME NEW k \in 1 .. Len(text.first) + Len(text.second)
          PROVE  out[k] \in {sent[k], NoAnswer}
      <4> DEFINE j == k - Len(text.first)
      <4>1. \/ k \in 1 .. Len(text.first) /\ sent[k] = text.first[k]
            \/ j \in 1 .. Len(text.second) /\ sent[k] = text.second[j]
        BY <3>2, Joined
      <4>2. \/ k \in 1 .. Len(text.first) /\ out[k] = result[1][k]
            \/ j \in 1 .. Len(text.second) /\ out[k] = result2[j]
        <5>1. \A x, y \in Seq(Entry) : \A n \in 1 .. Len(x) + Len(y) :
                 \/ n \in 1 .. Len(x) /\ (x \o y)[n] = x[n]
                 \/ n - Len(x) \in 1 .. Len(y) /\ (x \o y)[n] = y[n - Len(x)]
          BY Joined
        <5>2. k \in 1 .. Len(result[1]) + Len(result2)
          BY <3>3
        <5>3. \/ k \in 1 .. Len(result[1]) /\ out[k] = result[1][k]
              \/ k - Len(result[1]) \in 1 .. Len(result2) /\ out[k] = result2[k - Len(result[1])]
          BY <3>3, <5>1, <5>2
        <5> HIDE DEF out
        <5> QED BY <3>3, <5>3
      <4>3. ~(k \in 1 .. Len(text.first) /\ j \in 1 .. Len(text.second))
        BY <3>2
      <4> QED BY <3>1, <3>2, <4>1, <4>2, <4>3 DEF InPlace
    <3> QED BY <1>1, <2>1, <3>4, <3>5 DEF ReplyInPlace
  <2> QED BY <1>1, <1>2, <2>1, <2>2, <2>3 DEF ReplyInv, FirstText, InPlace, Supers
<1>7. CASE Reset(s)
  <2>1. /\ UNCHANGED <<result, reply>> /\ result2' \in {NoAnswer, result2}
        /\ \A p \in Supers : phase'[p] \in {"join", "reset"} => phase[p] \in {"join", "reset"}
    BY <1>1, <1>7 DEF Reset
  <2> QED BY <1>1, <1>2, <2>1 DEF ReplyInv, ReplyInPlace, FirstText, InPlace, Supers
<1> QED BY <1>3, <1>4, <1>5, <1>6, <1>7 DEF Driver

LEMMA ReplyStep == SoundInv /\ ReplyInv /\ [Next]_vars => ReplyInv'
<1> SUFFICES ASSUME SoundInv, ReplyInv, [Next]_vars PROVE ReplyInv'
  OBVIOUS
<1>1. phase \in [Supers -> PhaseNames] /\ jobs \in Nat
  BY DEF SoundInv, TypeOK, DriverTypes
<1>2. ASSUME NEW txt \in Texts, Accept(txt) PROVE ReplyInv'
  <2>1. /\ jobs' = jobs + 1 /\ text' = txt /\ stale' \in Leftovers(txt) /\ reply' = NoAnswer
        /\ \A s \in Supers : phase'[s] \in {"idle", "deal"}
        /\ UNCHANGED result2
    BY <1>1, <1>2 DEF Accept
  <2>2. CASE jobs = 0
    <3>1. text = NoText /\ FirstText
      BY <2>2 DEF SoundInv, DriversInOrder, FirstText
    <3>2. Half(1) = <<>> /\ Half(2) = <<>>
      BY <3>1 DEF Half
    <3>3. InBuffer = <<>> /\ Len(InBuffer) = 0
      BY <3>2 DEF InBuffer
    <3>4. \A n \in 1 .. 1 : SubSeq(<<>>, n, 0) = <<>>
      OBVIOUS
    <3>5. stale' = <<>>
      BY <2>1, <3>3, <3>4 DEF Leftovers
    <3>6. result2' = NoAnswer
      BY <2>1, <3>1 DEF ReplyInv
    <3> QED BY <2>1, <3>5, <3>6 DEF ReplyInv, ReplyInPlace
  <2>3. CASE jobs # 0
    BY <1>1, <2>1, <2>3 DEF ReplyInv, FirstText
  <2> QED BY <2>2, <2>3
<1>3. ASSUME NEW t \in Threads, ChildThread(t) PROVE ReplyInv'
  <2>1. /\ UNCHANGED <<textVars, resultVars>>
        /\ \/ UNCHANGED phase
           \/ phase' = [phase EXCEPT ![NextChild(t)[1]] = "overwritten"]
    BY <1>3 DEF ChildThread, Take, Ask, GiveUpOwn, GiveUpForeign, Consult, Move, Escalate,
         WriteOwn, CountOwn, Memo, WriteRemote, LoseAnswer, LoadCount, StoreCount,
         MemoRemote, LockedPush, driverVars
  <2> QED BY <1>1, <2>1, ReplyKept
<1>4. ASSUME NEW s \in Supers, SuperThread(s) PROVE ReplyInv'
  <2>1. /\ UNCHANGED <<textVars, resultVars>>
        /\ \/ UNCHANGED phase
           \/ phase' = [phase EXCEPT ![<<Peer(s), ran[Peer(s)]>>[1]] = "overwritten"]
    BY <1>4 DEF SuperThread, PickWord, SendWord, LoseWord, LockedPush, driverVars
  <2> QED BY <1>1, <2>1, ReplyKept
<1>5. CASE UNCHANGED vars
  BY <1>5, ReplyKept DEF vars, driverVars
<1> QED BY <1>2, <1>3, <1>4, <1>5, ReplyDriver DEF Next

(* The reply to the first text is in place whatever calls fail: for each   *)
(* word its own translation, or nothing, but never that of another word,   *)
(* and never in another place (super.cc:157,398,423,726-735,850-858).      *)
THEOREM RepliesInPlace == Spec => []ReplyInPlace
<1>1. SoundInv /\ ReplyInv => ReplyInPlace
  <2>1. jobs = 1 => FirstText
    BY DEF FirstText
  <2>2. ~(jobs = 1) => ReplyInPlace
    BY DEF ReplyInPlace
  <2> QED BY <2>1, <2>2 DEF ReplyInv
<1> QED BY SoundAlways, ReplyInit, ReplyStep, <1>1, PTL DEF Spec

-----------------------------------------------------------------------------
(* The places a word_info can be in: number at of a queue or of super, the *)
(* hands of a thread, the call super_word() makes.                         *)
Place == ({"queue", "thread"} \X Threads \X Nat)
         \cup ({"super", "sending"} \X Supers \X Nat)

Nth(sq, j) == IF j \in 1 .. Len(sq) THEN sq[j] ELSE NoReq

(* The word_info in a place. *)
At(x) ==
  CASE x[1] = "queue"   -> Nth(q[x[2]], x[3])
    [] x[1] = "thread"  -> IF x[3] = 0 /\ Busy(x[2]) THEN req[x[2]] ELSE NoReq
    [] x[1] = "super"   -> Nth(super[x[2]], x[3])
    [] x[1] = "sending" -> IF x[3] = 0 THEN sending[x[2]] ELSE NoReq

SameWord(r, o) == r # NoReq /\ o # NoReq /\ r.super = o.super /\ r.index = o.index

(* No word is in two places. *)
Distinct == \A x, y \in Place : SameWord(At(x), At(y)) => x = y

(* The words of supernode s that are somewhere. *)
Live(s) == {k \in Index : \E x \in Place : Names(At(x), s, k)}

(* How many words of its half the driver has given out. *)
GivenOut(s) == IF phase[s] = "file" THEN cnt[s] + 1 ELSE cnt[s]

Dealing == {"deal", "pushing", "overwritten", "file"}

(* n units counted for supernode s by word_res are not too many. *)
Covered(s, n) == Cardinality(Ticks(s)) + n + Cardinality(Live(s)) <= GivenOut(s)

CountsIn(s) ==
  /\ phase[s] \in Dealing =>
       /\ \A k \in Live(s) : k < GivenOut(s)
       /\ Covered(s, superCount[s])
       /\ \A t \in Threads : pc[t] = "store" /\ req[t].super = s => Covered(s, tmp[t])
  /\ phase[s] \notin Dealing => Live(s) = {}
  /\ phase[s] = "idle" => superCount[s] = 0 /\ \A i \in Children(s) : childCount[<<s, i>>] = 0

PlaceInv == Distinct /\ \A s \in Supers : CountsIn(s)

-----------------------------------------------------------------------------
LEMMA PlaceFacts ==
  ASSUME NEW x \in Place
  PROVE  /\ x[3] \in Nat /\ x = <<x[1], x[2], x[3]>>
         /\ \/ x[1] \in {"queue", "thread"} /\ x[2] \in Threads
            \/ x[1] \in {"super", "sending"} /\ x[2] \in Supers
BY DEF Place

(* Where every word_info after a step was one before it, each in a place   *)
(* of its own, no word comes to be in two places.                          *)
LEMMA Moved ==
  ASSUME Distinct, NEW f \in [Place -> Place],
         \A x \in Place : At(x)' # NoReq => SameWord(At(x)', At(f[x])),
         \A x, y \in Place : At(x)' # NoReq /\ At(y)' # NoReq /\ f[x] = f[y] => x = y
  PROVE  /\ Distinct'
         /\ \A s \in Supers : Live(s)' \subseteq Live(s)
<1>1. Distinct'
  <2>1. ASSUME NEW x \in Place, NEW y \in Place, SameWord(At(x)', At(y)') PROVE x = y
    <3>1. SameWord(At(x)', At(f[x])) /\ SameWord(At(y)', At(f[y])) /\ f[x] \in Place /\ f[y] \in Place
      BY <2>1 DEF SameWord
    <3>2. SameWord(At(f[x]), At(f[y]))
      BY <2>1, <3>1 DEF SameWord
    <3>3. f[x] = f[y]
      BY <3>1, <3>2 DEF Distinct
    <3> QED BY <2>1, <3>3 DEF SameWord
  <2>2. ASSUME NEW x \in Place, NEW y \in Place, SameWord(At(x), At(y))' PROVE x = y
    BY <2>1, <2>2 DEF SameWord
  <2> QED BY <2>2 DEF Distinct
<1>2. ASSUME NEW s \in Supers, NEW k \in Index, NEW x \in Place, Names(At(x), s, k)'
      PROVE  f[x] \in Place /\ Names(At(f[x]), s, k)
  BY <1>2 DEF Names, SameWord
<1> QED BY <1>1, <1>2 DEF Live

(* Where nothing moves, but a word may be let go. *)
LEMMA Stays ==
  ASSUME Distinct, UNCHANGED <<q, super>>,
         \A p \in Supers : sending'[p] \in {sending[p], NoReq},
         \A t \in Threads : Busy(t)' => Busy(t) /\ req'[t] = req[t]
  PROVE  /\ Distinct'
         /\ \A s \in Supers : Live(s)' \subseteq Live(s)
         /\ \A x \in Place : At(x)' \in {At(x), NoReq}
<1> DEFINE f == [x \in Place |-> x]
<1>1. \A x \in Place : At(x)' \in {At(x), NoReq}
  BY PlaceFacts DEF At, Nth
<1>2. f \in [Place -> Place] /\ \A x \in Place : f[x] = x
  OBVIOUS
<1> HIDE DEF f
<1> QED BY <1>1, <1>2, Moved DEF SameWord

(* The word a thread is done with is nowhere. *)
LEMMA LetGo ==
  ASSUME Distinct, NEW t \in Threads, Busy(t), ~Busy(t)',
         NEW s \in Supers, NEW k \in Index, Names(req[t], s, k),
         UNCHANGED <<q, super, sending>>,
         \A u \in Threads : Busy(u)' => Busy(u) /\ req'[u] = req[u]
  PROVE  k \in Live(s) /\ k \notin Live(s)'
<1> DEFINE z == <<"thread", t, 0>>
<1>1. z \in Place /\ z[1] = "thread" /\ z[2] = t /\ z[3] = 0
  BY DEF Place
<1>2. At(z) = req[t] /\ At(z)' = NoReq
  BY <1>1 DEF At
<1> HIDE DEF z
<1>3. k \in Live(s)
  BY <1>1, <1>2 DEF Live
<1>4. ASSUME NEW x \in Place, Names(At(x)', s, k) PROVE FALSE
  <2>1. At(x)' = At(x)
    BY <1>4, Stays DEF Names
  <2>2. SameWord(At(x), At(z))
    BY <1>2, <1>4, <2>1 DEF SameWord, Names
  <2>3. x = z
    BY <1>1, <2>2 DEF Distinct
  <2> QED BY <1>2, <1>4, <2>3 DEF Names
<1> QED BY <1>3, <1>4 DEF Live, Names

LEMMA NthFacts ==
  ASSUME NEW sq \in Seq(Request), NEW j \in Nat
  PROVE  /\ Nth(sq, j) \in Request \cup {NoReq}
         /\ \A r : Nth(Append(sq, r), j) = IF j = Len(sq) + 1 THEN r ELSE Nth(sq, j)
         /\ sq # <<>> => /\ Nth(sq, 1) = Head(sq)
                         /\ Nth(Tail(sq), j) = IF j = 0 THEN NoReq ELSE Nth(sq, j + 1)
         /\ Nth(sq, 0) = NoReq /\ Nth(sq, Len(sq) + 1) = NoReq
<1>1. ASSUME NEW r PROVE Nth(Append(sq, r), j) = IF j = Len(sq) + 1 THEN r ELSE Nth(sq, j)
  BY DEF Nth
<1>2. ASSUME sq # <<>> PROVE /\ Nth(sq, 1) = Head(sq)
                             /\ Nth(Tail(sq), j) = IF j = 0 THEN NoReq ELSE Nth(sq, j + 1)
  <2>1. Len(sq) \in Nat \ {0} /\ Len(Tail(sq)) = Len(sq) - 1 /\ Head(sq) = sq[1]
    BY <1>2
  <2>2. \A i \in 1 .. Len(sq) - 1 : Tail(sq)[i] = sq[i + 1]
    BY <1>2
  <2> QED BY <2>1, <2>2 DEF Nth
<1> QED BY <1>1, <1>2 DEF Nth

(* What is in a place of a queue. *)
LEMMA AtQueue ==
  ASSUME NEW z, z[1] = "queue"
  PROVE  At(z) = Nth(q[z[2]], z[3]) /\ At(z)' = Nth(q'[z[2]], z[3])
BY DEF At, Nth

LEMMA AtSuper ==
  ASSUME NEW z, z[1] = "super"
  PROVE  At(z) = Nth(super[z[2]], z[3]) /\ At(z)' = Nth(super'[z[2]], z[3])
BY DEF At, Nth

(* A word goes from place y to the end of queue u. *)
LEMMA PushedFrom ==
  ASSUME Distinct, QueueTypes, NEW u \in Threads, NEW r \in Request, NEW y \in Place,
         y[1] # "queue", SameWord(r, At(y)), At(y)' = NoReq,
         \A x \in Place : x[1] # "queue" => At(x)' \in {NoReq, At(x)},
         q' = [q EXCEPT ![u] = Append(@, r)]
  PROVE  /\ Distinct'
         /\ \A s \in Supers : Live(s)' \subseteq Live(s)
<1>0. PICK n \in Nat : n = Len(q[u]) + 1
  BY DEF QueueTypes
<1> DEFINE z == <<"queue", u, n>>
           f == [x \in Place |-> IF x = z THEN y ELSE x]
<1>1. q \in [Threads -> Seq(Request)] /\ q[u] \in Seq(Request) /\ Len(q[u]) \in Nat
  BY DEF QueueTypes
<1>2. z \in Place /\ z[1] = "queue" /\ z[2] = u /\ z[3] = n
  BY <1>1 DEF Place
<1>3. ASSUME NEW x \in Place, x # z PROVE At(x)' \in {NoReq, At(x)}
  <2>1. CASE x[1] = "queue"
    <3>1. x[2] \in Threads /\ x[3] \in Nat /\ x = <<"queue", x[2], x[3]>>
      BY <2>1, PlaceFacts
    <3>2. At(x) = Nth(q[x[2]], x[3]) /\ At(x)' = Nth(q'[x[2]], x[3])
      BY <2>1 DEF At, Nth
    <3>3. CASE x[2] = u
      BY <1>0, <1>1, <1>3, <3>1, <3>2, <3>3, NthFacts
    <3>4. CASE x[2] # u
      BY <1>1, <3>1, <3>2, <3>4
    <3> QED BY <3>3, <3>4
  <2> QED BY <2>1
<1>4. At(z)' = r
  <2>1. Len(q[u]) + 1 \in Nat
    BY <1>1
  <2>2. q'[u] = Append(q[u], r)
    BY <1>1
  <2>3. At(z)' = Nth(q'[u], n)
    <3> HIDE DEF z
    <3> QED BY <1>2, AtQueue
  <2> QED BY <1>0, <1>1, <2>1, <2>2, <2>3, NthFacts
<1>5. /\ f \in [Place -> Place] /\ f[z] = y
      /\ \A x \in Place : x # z => f[x] = x
  BY <1>2
<1> HIDE DEF z, f
<1>6. ASSUME NEW x \in Place, At(x)' # NoReq PROVE SameWord(At(x)', At(f[x]))
  <2>1. CASE x = z
    BY <1>4, <1>5, <2>1
  <2>2. CASE x # z
    BY <1>3, <1>5, <1>6, <2>2 DEF SameWord
  <2> QED BY <2>1, <2>2
<1>7. \A x, w \in Place : At(x)' # NoReq /\ At(w)' # NoReq /\ f[x] = f[w] => x = w
  BY <1>5
<1> QED BY <1>5, <1>6, <1>7, Moved

(* A word that is nowhere comes to the end of queue u. *)
LEMMA PushedNew ==
  ASSUME Distinct, QueueTypes, NEW u \in Threads, NEW r \in Request,
         \A x \in Place : ~SameWord(At(x), r),
         q' = [q EXCEPT ![u] = Append(@, r)], UNCHANGED <<super, sending, pc, req>>
  PROVE  /\ Distinct'
         /\ \A s \in Supers : Live(s)' \subseteq
              IF s = r.super THEN Live(s) \cup {r.index} ELSE Live(s)
<1>0. PICK n \in Nat : n = Len(q[u]) + 1
  BY DEF QueueTypes
<1> DEFINE z == <<"queue", u, n>>
<1>1. q \in [Threads -> Seq(Request)] /\ q[u] \in Seq(Request) /\ Len(q[u]) \in Nat
  BY DEF QueueTypes
<1>2. z \in Place /\ z[1] = "queue" /\ z[2] = u /\ z[3] = n
  BY <1>1 DEF Place
<1>3. ASSUME NEW x \in Place, x # z PROVE At(x)' = At(x)
  <2>1. CASE x[1] = "queue"
    <3>1. x[2] \in Threads /\ x[3] \in Nat /\ x = <<"queue", x[2], x[3]>>
      BY <2>1, PlaceFacts
    <3>2. At(x) = Nth(q[x[2]], x[3]) /\ At(x)' = Nth(q'[x[2]], x[3])
      BY <2>1 DEF At, Nth
    <3>3. CASE x[2] = u
      BY <1>0, <1>1, <1>3, <3>1, <3>2, <3>3, NthFacts
    <3>4. CASE x[2] # u
      BY <1>1, <3>1, <3>2, <3>4
    <3> QED BY <3>3, <3>4
  <2>2. CASE x[1] # "queue"
    BY <2>2, PlaceFacts DEF At, Busy
  <2> QED BY <2>1, <2>2
<1>4. At(z)' = r
  <2>1. Len(q[u]) + 1 \in Nat
    BY <1>1
  <2>2. q'[u] = Append(q[u], r)
    BY <1>1
  <2>3. At(z)' = Nth(q'[u], n)
    <3> HIDE DEF z
    <3> QED BY <1>2, AtQueue
  <2> QED BY <1>0, <1>1, <2>1, <2>2, <2>3, NthFacts
<1> HIDE DEF z
<1>5. ASSUME NEW x \in Place, NEW y \in Place, SameWord(At(x), At(y))' PROVE x = y
  <2>1. SameWord(At(x)', At(y)')
    BY <1>5 DEF SameWord
  <2>2. CASE x # z /\ y # z
    BY <1>3, <2>1, <2>2 DEF Distinct
  <2>3. CASE x = z /\ y # z
    <3>1. SameWord(r, At(y))
      BY <1>3, <1>4, <2>1, <2>3
    <3> QED BY <3>1 DEF SameWord
  <2>4. CASE x # z /\ y = z
    <3>1. SameWord(At(x), r)
      BY <1>3, <1>4, <2>1, <2>4
    <3> QED BY <3>1
  <2> QED BY <2>2, <2>3, <2>4
<1>6. ASSUME NEW s \in Supers, NEW k \in Index, NEW x \in Place, Names(At(x), s, k)'
      PROVE  Names(At(x), s, k) \/ (s = r.super /\ k = r.index)
  <2>1. Names(At(x)', s, k)
    BY <1>6 DEF Names
  <2>2. CASE x = z
    BY <1>4, <2>1, <2>2 DEF Names
  <2>3. CASE x # z
    BY <1>3, <2>1, <2>3
  <2> QED BY <2>2, <2>3
<1> QED BY <1>5, <1>6 DEF Distinct, Live

(* A thread takes the front word of its queue. *)
LEMMA TakenFrom ==
  ASSUME Distinct, QueueTypes, ThreadTypes, NEW t \in Threads, Take(t)
  PROVE  /\ Distinct'
         /\ \A s \in Supers : Live(s)' \subseteq Live(s)
<1> DEFINE f == [x \in Place |->
                   IF x[1] = "queue" /\ x[2] = t THEN <<"queue", t, x[3] + 1>>
                   ELSE IF x[1] = "thread" /\ x[2] = t THEN <<"queue", t, 1>> ELSE x]
<1>1. /\ q \in [Threads -> Seq(Request)] /\ q[t] \in Seq(Request) /\ q[t] # <<>>
      /\ q' = [q EXCEPT ![t] = Tail(@)] /\ req' = [req EXCEPT ![t] = Head(q[t])]
      /\ UNCHANGED <<super, sending>> /\ \A u \in Threads \ {t} : pc'[u] = pc[u] /\ req'[u] = req[u]
      /\ q'[t] = Tail(q[t]) /\ req'[t] = Head(q[t]) /\ \A u \in Threads \ {t} : q'[u] = q[u]
  BY DEF QueueTypes, ThreadTypes, Take, Goto
<1>2. ASSUME NEW x \in Place
      PROVE  /\ f[x] \in Place
             /\ At(x)' # NoReq => At(x)' = At(f[x])
             /\ x[1] = "queue" /\ x[2] = t => f[x] = <<"queue", t, x[3] + 1>>
             /\ x[1] = "thread" /\ x[2] = t => f[x] = <<"queue", t, 1>>
             /\ x[1] \notin {"queue", "thread"} \/ x[2] # t => f[x] = x
  <2>1. x[3] \in Nat /\ x[3] + 1 \in Nat /\ 1 \in Nat /\ x = <<x[1], x[2], x[3]>>
    BY PlaceFacts
  <2>2. CASE x[1] = "queue" /\ x[2] = t
    <3>1. f[x] = <<"queue", t, x[3] + 1>>
      BY <2>2
    <3> HIDE DEF f
    <3>2. f[x] \in Place /\ f[x][1] = "queue" /\ f[x][2] = t /\ f[x][3] = x[3] + 1
      BY <2>1, <3>1 DEF Place
    <3>3. At(f[x]) = Nth(q[t], x[3] + 1)
      BY <3>2 DEF At
    <3>4. At(x)' = Nth(Tail(q[t]), x[3])
      BY <1>1, <2>2 DEF At, Nth
    <3> QED BY <1>1, <2>1, <2>2, <3>1, <3>2, <3>3, <3>4, NthFacts
  <2>3. CASE x[1] = "thread" /\ x[2] = t
    <3>1. f[x] = <<"queue", t, 1>>
      BY <2>3
    <3> HIDE DEF f
    <3>2. f[x] \in Place /\ f[x][1] = "queue" /\ f[x][2] = t /\ f[x][3] = 1
      BY <2>1, <3>1 DEF Place
    <3>3. At(f[x]) = Nth(q[t], 1)
      BY <3>2 DEF At
    <3>4. At(x)' \in {NoReq, Head(q[t])}
      BY <1>1, <2>3 DEF At, Busy
    <3> QED BY <1>1, <2>1, <2>3, <3>1, <3>2, <3>3, <3>4, NthFacts
  <2>4. CASE x[1] \notin {"queue", "thread"} \/ x[2] # t
    <3>1. f[x] = x
      BY <2>4
    <3> HIDE DEF f
    <3>2. At(x)' = At(x)
      BY <1>1, <2>4, PlaceFacts DEF At, Busy, Nth
    <3> QED BY <2>4, <3>1, <3>2
  <2> QED BY <2>2, <2>3, <2>4
<1>3. f \in [Place -> Place]
  BY <1>2
<1> HIDE DEF f
<1>4. ASSUME NEW x \in Place, x[1] = "queue", x[2] = t, At(x)' # NoReq PROVE x[3] # 0
  <2>1. At(x)' = Nth(q'[t], x[3])
    BY <1>4 DEF At, Nth
  <2> QED BY <1>1, <2>1, <1>4 DEF Nth
<1>5. ASSUME NEW x \in Place, x[1] = "thread", x[2] = t, At(x)' # NoReq PROVE x[3] = 0
  BY <1>5 DEF At
<1>6. ASSUME NEW x \in Place, NEW y \in Place, At(x)' # NoReq, At(y)' # NoReq, f[x] = f[y]
      PROVE  x = y
  <2>1. x = <<x[1], x[2], x[3]>> /\ y = <<y[1], y[2], y[3]>> /\ x[3] \in Nat /\ y[3] \in Nat
    BY PlaceFacts
  <2> QED BY <1>2, <1>4, <1>5, <1>6, <2>1
<1>7. \A x \in Place : At(x)' # NoReq => SameWord(At(x)', At(f[x]))
  BY <1>2 DEF SameWord
<1> QED BY <1>3, <1>6, <1>7, Moved

(* A thread puts its word at the end of super. *)
LEMMA EscalatedFrom ==
  ASSUME Distinct, QueueTypes, ThreadTypes, NEW t \in Threads, Escalate(t), req[t] \in Request
  PROVE  /\ Distinct'
         /\ \A s \in Supers : Live(s)' \subseteq Live(s)
<1>1. PICK p \in Supers : p = t[1]
  BY ThreadFacts
<1>0. PICK n \in Nat : n = Len(super[p]) + 1
  <2>1. super[p] \in Seq(Request)
    BY DEF QueueTypes
  <2> QED BY <2>1
<1> DEFINE y == <<"thread", t, 0>>
           z == <<"super", p, n>>
           f == [x \in Place |-> IF x = z THEN y ELSE x]
<1>2. /\ super[p] \in Seq(Request) /\ super'[p] = Append(super[p], req[t])
      /\ \A s \in Supers \ {p} : super'[s] = super[s]
      /\ UNCHANGED <<q, sending>> /\ Busy(t) /\ ~Busy(t)' /\ req[t] # NoReq
      /\ \A u \in Threads \ {t} : pc'[u] = pc[u] /\ req'[u] = req[u]
  BY <1>1, TranslatorAssumption DEF QueueTypes, ThreadTypes, Escalate, Idle, Goto, Busy
<1>3. /\ z \in Place /\ z[1] = "super" /\ z[2] = p /\ z[3] = n
      /\ y \in Place /\ y[1] = "thread" /\ y[2] = t /\ y[3] = 0
  BY DEF Place
<1>4. ASSUME NEW x \in Place, x # z PROVE At(x)' \in {NoReq, At(x)}
  <2>1. CASE x[1] = "super" /\ x[2] = p
    <3>1. x[3] \in Nat /\ x[3] # n
      BY <1>4, <2>1, PlaceFacts
    <3>2. At(x) = Nth(super[p], x[3]) /\ At(x)' = Nth(super'[p], x[3])
      BY <2>1 DEF At, Nth
    <3> QED BY <1>0, <1>1, <1>2, <3>1, <3>2, NthFacts
  <2>2. CASE ~(x[1] = "super" /\ x[2] = p)
    BY <1>2, <2>2, PlaceFacts DEF At, Busy, Nth
  <2> QED BY <2>1, <2>2
<1>5. At(z)' = req[t] /\ At(y) = req[t] /\ At(y)' = NoReq
  <2>1. At(z)' = Nth(super'[p], n)
    <3> HIDE DEF z
    <3> QED BY <1>3, AtSuper
  <2>2. Nth(super'[p], n) = req[t]
    BY <1>0, <1>2, NthFacts
  <2> QED BY <1>2, <1>3, <2>1, <2>2 DEF At
<1>6. /\ f \in [Place -> Place] /\ f[z] = y
      /\ \A x \in Place : x # z => f[x] = x
  BY <1>3
<1> HIDE DEF y, z, f
<1>7. ASSUME NEW x \in Place, At(x)' # NoReq PROVE SameWord(At(x)', At(f[x]))
  <2>1. CASE x = z
    BY <1>2, <1>5, <1>6, <2>1 DEF SameWord
  <2>2. CASE x # z
    BY <1>4, <1>6, <1>7, <2>2 DEF SameWord
  <2> QED BY <2>1, <2>2
<1>8. \A x, w \in Place : At(x)' # NoReq /\ At(w)' # NoReq /\ f[x] = f[w] => x = w
  BY <1>5, <1>6
<1> QED BY <1>6, <1>7, <1>8, Moved

(* super_word() takes the front word of super. *)
LEMMA PickedFrom ==
  ASSUME Distinct, QueueTypes, NEW s \in Supers, PickWord(s)
  PROVE  /\ Distinct'
         /\ \A p \in Supers : Live(p)' \subseteq Live(p)
<1> DEFINE f == [x \in Place |->
                   IF x[1] = "super" /\ x[2] = s THEN <<"super", s, x[3] + 1>>
                   ELSE IF x[1] = "sending" /\ x[2] = s THEN <<"super", s, 1>> ELSE x]
<1>1. /\ super[s] \in Seq(Request) /\ super[s] # <<>>
      /\ super'[s] = Tail(super[s]) /\ sending'[s] = Head(super[s])
      /\ \A p \in Supers \ {s} : super'[p] = super[p] /\ sending'[p] = sending[p]
      /\ UNCHANGED <<q, pc, req>>
  BY DEF QueueTypes, PickWord, threadVars
<1>2. ASSUME NEW x \in Place
      PROVE  /\ f[x] \in Place
             /\ At(x)' # NoReq => At(x)' = At(f[x])
             /\ x[1] = "super" /\ x[2] = s => f[x] = <<"super", s, x[3] + 1>>
             /\ x[1] = "sending" /\ x[2] = s => f[x] = <<"super", s, 1>>
             /\ x[1] \notin {"super", "sending"} \/ x[2] # s => f[x] = x
  <2>1. x[3] \in Nat /\ x[3] + 1 \in Nat /\ 1 \in Nat
    BY PlaceFacts
  <2>2. CASE x[1] = "super" /\ x[2] = s
    <3>1. f[x] = <<"super", s, x[3] + 1>>
      BY <2>2
    <3> HIDE DEF f
    <3>2. f[x] \in Place /\ f[x][1] = "super" /\ f[x][2] = s /\ f[x][3] = x[3] + 1
      BY <2>1, <3>1 DEF Place
    <3>3. At(f[x]) = Nth(super[s], x[3] + 1)
      BY <3>2 DEF At
    <3>4. At(x)' = Nth(Tail(super[s]), x[3])
      BY <1>1, <2>2 DEF At, Nth
    <3> QED BY <1>1, <2>1, <2>2, <3>1, <3>2, <3>3, <3>4, NthFacts
  <2>3. CASE x[1] = "sending" /\ x[2] = s
    <3>1. f[x] = <<"super", s, 1>>
      BY <2>3
    <3> HIDE DEF f
    <3>2. f[x] \in Place /\ f[x][1] = "super" /\ f[x][2] = s /\ f[x][3] = 1
      BY <2>1, <3>1 DEF Place
    <3>3. At(f[x]) = Nth(super[s], 1)
      BY <3>2 DEF At
    <3>4. At(x)' \in {NoReq, Head(super[s])}
      BY <1>1, <2>3 DEF At
    <3> QED BY <1>1, <2>1, <2>3, <3>1, <3>2, <3>3, <3>4, NthFacts
  <2>4. CASE x[1] \notin {"super", "sending"} \/ x[2] # s
    <3>1. f[x] = x
      BY <2>4
    <3> HIDE DEF f
    <3>2. At(x)' = At(x)
      BY <1>1, <2>4, PlaceFacts DEF At, Busy, Nth
    <3> QED BY <2>4, <3>1, <3>2
  <2> QED BY <2>2, <2>3, <2>4
<1>3. f \in [Place -> Place]
  BY <1>2
<1> HIDE DEF f
<1>4. ASSUME NEW x \in Place, x[1] = "super", x[2] = s, At(x)' # NoReq PROVE x[3] # 0
  <2>1. At(x)' = Nth(super'[s], x[3])
    BY <1>4 DEF At, Nth
  <2> QED BY <2>1, <1>4 DEF Nth
<1>5. ASSUME NEW x \in Place, x[1] = "sending", x[2] = s, At(x)' # NoReq PROVE x[3] = 0
  BY <1>5 DEF At
<1>6. ASSUME NEW x \in Place, NEW y \in Place, At(x)' # NoReq, At(y)' # NoReq, f[x] = f[y]
      PROVE  x = y
  <2>1. x = <<x[1], x[2], x[3]>> /\ y = <<y[1], y[2], y[3]>> /\ x[3] \in Nat /\ y[3] \in Nat
    BY PlaceFacts
  <2> QED BY <1>2, <1>4, <1>5, <1>6, <2>1
<1>7. \A x \in Place : At(x)' # NoReq => SameWord(At(x)', At(f[x]))
  BY <1>2 DEF SameWord
<1> QED BY <1>3, <1>6, <1>7, Moved

(* A word is moved to the next child, or lost in the push. *)
LEMMA MovedOn ==
  ASSUME Distinct, QueueTypes, ThreadTypes, NEW t \in Threads, Move(t), req[t] \in Request
  PROVE  /\ Distinct'
         /\ \A s \in Supers : Live(s)' \subseteq Live(s)
<1> DEFINE y == <<"thread", t, 0>>
<1>1. /\ UNCHANGED <<super, sending>> /\ Busy(t) /\ ~Busy(t)' /\ req[t] # NoReq
      /\ \A u \in Threads \ {t} : pc'[u] = pc[u] /\ req'[u] = req[u]
      /\ NextChild(t) \in Threads
  BY ThreadFacts, TranslatorAssumption DEF ThreadTypes, Move, Idle, Goto, Busy
<1>2. y \in Place /\ y[1] = "thread" /\ y[2] = t /\ y[3] = 0
  BY DEF Place
<1>3. At(y) = req[t] /\ At(y)' = NoReq
  BY <1>1, <1>2 DEF At
<1>4. ASSUME NEW x \in Place, x[1] # "queue" PROVE At(x)' \in {NoReq, At(x)}
  BY <1>1, <1>4, PlaceFacts DEF At, Busy, Nth
<1> HIDE DEF y
<1>5. CASE q' = [q EXCEPT ![NextChild(t)] = Append(@, req[t])]
  <2>1. SameWord(req[t], At(y))
    BY <1>1, <1>3 DEF SameWord
  <2>2. PICK u \in Threads : u = NextChild(t)
    BY <1>1
  <2> QED BY <1>2, <1>3, <1>4, <1>5, <2>1, <2>2, PushedFrom
<1>6. CASE UNCHANGED q
  BY <1>1, <1>6, Stays DEF Busy
<1> QED BY <1>5, <1>6 DEF Move, LockedPush

(* A word goes to a child of the peer, or is lost in the push. *)
LEMMA SentOn ==
  ASSUME Distinct, QueueTypes, NEW s \in Supers, SendWord(s)
  PROVE  /\ Distinct'
         /\ \A p \in Supers : Live(p)' \subseteq Live(p)
<1> DEFINE y == <<"sending", s, 0>>
<1>0. PICK r : r = [sending[s] EXCEPT !.start = ran[Peer(s)]]
  OBVIOUS
<1>1. /\ UNCHANGED <<super, pc, req>> /\ sending[s] \in Request /\ sending[s] # NoReq
      /\ sending'[s] = NoReq /\ \A p \in Supers \ {s} : sending'[p] = sending[p]
      /\ ran[Peer(s)] \in Nat /\ <<Peer(s), ran[Peer(s)]>> \in Threads
  BY ThreadFacts DEF QueueTypes, SendWord, threadVars
<1>2. r \in Request /\ r.super = sending[s].super /\ r.index = sending[s].index /\ r # NoReq
  BY <1>0, <1>1, TranslatorAssumption DEF Request
<1>3. y \in Place /\ y[1] = "sending" /\ y[2] = s /\ y[3] = 0
  BY DEF Place
<1>4. At(y) = sending[s] /\ At(y)' = NoReq
  BY <1>1, <1>3 DEF At
<1>5. ASSUME NEW x \in Place, x[1] # "queue" PROVE At(x)' \in {NoReq, At(x)}
  BY <1>1, <1>5, PlaceFacts DEF At, Busy, Nth
<1> HIDE DEF y
<1>6. PICK u \in Threads : u = <<Peer(s), ran[Peer(s)]>>
  BY <1>1
<1>7. CASE q' = [q EXCEPT ![u] = Append(@, r)]
  <2>1. SameWord(r, At(y))
    BY <1>1, <1>2, <1>4 DEF SameWord
  <2> QED BY <1>2, <1>3, <1>4, <1>5, <1>7, <2>1, PushedFrom
<1>8. CASE UNCHANGED q
  BY <1>1, <1>8, Stays DEF Busy
<1>9. q' = [q EXCEPT ![u] = Append(@, r)] \/ UNCHANGED q
  <2>1. LockedPush(u, r)
    BY <1>0, <1>6 DEF SendWord
  <2> QED BY <2>1 DEF LockedPush
<1> QED BY <1>7, <1>8, <1>9

-----------------------------------------------------------------------------
(* Each kind of step keeps the words apart; only the push of the driver    *)
(* brings a new one.                                                       *)
LEMMA ChildPlaces ==
  ASSUME SoundInv, Distinct, NEW t \in Threads, ChildThread(t)
  PROVE  /\ Distinct'
         /\ \A s \in Supers : Live(s)' \subseteq Live(s)
<1>1. QueueTypes /\ ThreadTypes /\ GenuineThread(t)
  BY DEF SoundInv, TypeOK, ThreadsGenuine
<1>2. pc[t] # "idle" => req[t] \in Request
  BY <1>1 DEF GenuineThread, Genuine
<1>3. CASE Take(t)
  BY <1>1, <1>3, TakenFrom
<1>4. CASE Move(t)
  <2>1. pc[t] # "idle"
    BY <1>4 DEF Move
  <2> QED BY <1>1, <1>2, <1>4, <2>1, MovedOn
<1>5. CASE Escalate(t)
  <2>1. pc[t] # "idle"
    BY <1>5 DEF Escalate
  <2> QED BY <1>1, <1>2, <1>5, <2>1, EscalatedFrom
<1>6. CASE \/ Ask(t) \/ GiveUpOwn(t) \/ GiveUpForeign(t) \/ Consult(t)
           \/ WriteOwn(t) \/ CountOwn(t) \/ Memo(t)
           \/ WriteRemote(t) \/ LoseAnswer(t) \/ LoadCount(t) \/ StoreCount(t) \/ MemoRemote(t)
  <2>1. /\ UNCHANGED <<q, super, sending>>
        /\ \A u \in Threads \ {t} : pc'[u] = pc[u] /\ req'[u] = req[u]
    BY <1>1, <1>6 DEF Ask, GiveUpOwn, GiveUpForeign, Consult, WriteOwn, CountOwn, Memo,
       WriteRemote,
       LoseAnswer, LoadCount, StoreCount, MemoRemote, Idle, Goto, queueVars, ThreadTypes
  <2>2. Busy(t)' => Busy(t) /\ req'[t] = req[t]
    BY <1>1, <1>6 DEF Ask, GiveUpOwn, GiveUpForeign, Consult, WriteOwn, CountOwn, Memo,
       WriteRemote,
       LoseAnswer, LoadCount, StoreCount, MemoRemote, Idle, Goto, Busy, ThreadTypes
  <2>3. \A u \in Threads : Busy(u)' => Busy(u) /\ req'[u] = req[u]
    BY <2>1, <2>2 DEF Busy
  <2> QED BY <2>1, <2>3, Stays
<1> QED BY <1>3, <1>4, <1>5, <1>6 DEF ChildThread

LEMMA SuperPlaces ==
  ASSUME SoundInv, Distinct, NEW p \in Supers, SuperThread(p)
  PROVE  /\ Distinct'
         /\ \A s \in Supers : Live(s)' \subseteq Live(s)
<1>1. QueueTypes
  BY DEF SoundInv, TypeOK
<1>2. CASE LoseWord(p)
  <2>1. UNCHANGED <<q, super, pc, req>> /\ \A s \in Supers : sending'[s] \in {sending[s], NoReq}
    BY <1>1, <1>2 DEF LoseWord, QueueTypes, threadVars
  <2>2. \A u \in Threads : Busy(u)' => Busy(u) /\ req'[u] = req[u]
    BY <2>1 DEF Busy
  <2> QED BY <2>1, <2>2, Stays
<1> QED BY <1>1, <1>2, PickedFrom, SentOn DEF SuperThread

LEMMA DriverPlaces ==
  ASSUME SoundInv, Distinct, NEW p \in Supers, CountsIn(p), Driver(p)
  PROVE  /\ Distinct'
         /\ \A s \in Supers : Live(s)' \subseteq
              IF s = p /\ EndPush(p) /\ phase[p] = "pushing" THEN Live(s) \cup {cnt[s]} ELSE Live(s)
<1>1. QueueTypes /\ DriversInOrder /\ DriverTypes
  BY DEF SoundInv, TypeOK
<1>2. UNCHANGED <<super, sending, pc, req>>
  BY DEF Driver, BeginPush, EndPush, FileWord, Assemble, SendResult, Reply, Reset,
     queueVars, threadVars
<1>3. \A t \in Threads : Busy(t)' => Busy(t) /\ req'[t] = req[t]
  BY <1>2 DEF Busy
<1>4. CASE UNCHANGED q
  BY <1>2, <1>3, <1>4, Stays
<1>5. CASE EndPush(p) /\ phase[p] = "pushing"
  <2>1. PICK r : r = Dealt(p)
    OBVIOUS
  <2>2. cnt[p] \in Nat /\ cnt[p] < Len(Half(p))
    BY <1>1, <1>5 DEF DriversInOrder, OrderOf, DriverTypes
  <2>3. PICK u \in Threads : u = <<p, cnt[p] % ChildNum[p]>>
    BY <2>2, ThreadFacts
  <2>4. r \in Request /\ r.super = p /\ r.index = cnt[p]
    <3>1. cnt[p] \in Index /\ Half(p)[cnt[p] + 1] \in Word
      BY <1>1, <2>2, HalfFacts
    <3>2. cnt[p] % ChildNum[p] \in Nat
      BY <2>2, ThreadFacts
    <3> QED BY <2>1, <3>1, <3>2 DEF Dealt, Request
  <2>5. q' = [q EXCEPT ![u] = Append(@, r)]
    BY <1>5, <2>1, <2>3 DEF EndPush
  <2>6. ASSUME NEW x \in Place, SameWord(At(x), r) PROVE FALSE
    <3>1. cnt[p] \in Live(p)
      BY <2>4, <2>6 DEF Live, Names, SameWord, Request
    <3>2. cnt[p] < GivenOut(p) /\ GivenOut(p) = cnt[p]
      BY <1>5, <3>1 DEF CountsIn, Dealing, GivenOut
    <3> QED BY <2>2, <3>2
  <2> QED BY <1>1, <1>2, <1>5, <2>4, <2>5, <2>6, PushedNew
<1>6. (EndPush(p) /\ phase[p] = "pushing") \/ UNCHANGED q
  BY DEF Driver, BeginPush, EndPush, FileWord, Assemble, SendResult, Reply, Reset, queueVars
<1> QED BY <1>4, <1>5, <1>6

LEMMA IndexFinite ==
  \A S \in SUBSET Index : IsFiniteSet(S) /\ Cardinality(S) \in Nat /\ (Cardinality(S) = 0 <=> S = {})
<1>1. 0 \in Int /\ MaxWords - 1 \in Int
  BY TranslatorAssumption
<1>2. IsFiniteSet(Index)
  BY <1>1, FS_Interval DEF Index
<1> QED BY <1>2, FS_Subset, FS_CardinalityType, FS_EmptySet

LiveCounted(s) == /\ IsFiniteSet(Live(s)) /\ Cardinality(Live(s)) \in Nat
                  /\ Live(s) \subseteq Index
                  /\ Cardinality(Live(s)) = 0 <=> Live(s) = {}

LEMMA LiveFinite == \A s \in Supers : LiveCounted(s) /\ LiveCounted(s)'
<1>1. \A s \in Supers : Live(s) \in SUBSET Index /\ Live(s)' \in SUBSET Index
  BY DEF Live
<1> QED BY <1>1, IndexFinite DEF LiveCounted

LEMMA TicksFinite ==
  CountTypes => \A s \in Supers :
    /\ IsFiniteSet(Ticks(s)) /\ Cardinality(Ticks(s)) \in Nat
    /\ (\A i \in Children(s) : childCount[<<s, i>>] = 0) => Cardinality(Ticks(s)) = 0
<1> SUFFICES ASSUME CountTypes, NEW s \in Supers
             PROVE  /\ IsFiniteSet(Ticks(s)) /\ Cardinality(Ticks(s)) \in Nat
                    /\ (\A i \in Children(s) : childCount[<<s, i>>] = 0)
                         => Cardinality(Ticks(s)) = 0
  OBVIOUS
<1> DEFINE f == [i \in Children(s) |-> {i} \X (1 .. childCount[<<s, i>>])]
           T == {f[i] : i \in Children(s)}
<1>1. IsFiniteSet(Children(s))
  <2>1. 0 \in Int /\ ChildNum[s] - 1 \in Int
    BY ThreadFacts
  <2> QED BY <2>1, FS_Interval DEF Children
<1>2. ASSUME NEW i \in Children(s) PROVE IsFiniteSet(f[i])
  <2>1. 1 \in Int /\ childCount[<<s, i>>] \in Int
    BY ThreadFacts DEF CountTypes
  <2>2. IsFiniteSet(1 .. childCount[<<s, i>>]) /\ IsFiniteSet({i})
    BY <2>1, FS_Interval, FS_Singleton
  <2>3. IsFiniteSet({i} \X (1 .. childCount[<<s, i>>]))
    BY <2>2, FS_Product
  <2> QED BY <2>3
<1>3. Ticks(s) = UNION T
  BY DEF Ticks
<1>4. ASSUME \A i \in Children(s) : childCount[<<s, i>>] = 0 PROVE Ticks(s) = {}
  <2>1. \A j : j \notin 1 .. 0
    OBVIOUS
  <2>2. ASSUME NEW i \in Children(s) PROVE {i} \X (1 .. childCount[<<s, i>>]) = {}
    <3>1. childCount[<<s, i>>] = 0
      BY <1>4
    <3> QED BY <2>1, <3>1
  <2> QED BY <2>2 DEF Ticks
<1>5. f \in Surjection(Children(s), T)
  BY DEF Surjection
<1> HIDE DEF f
<1>6. \A S \in T : IsFiniteSet(S)
  BY <1>2
<1> HIDE DEF T
<1>7. IsFiniteSet(T)
  BY <1>1, <1>5, FS_Surjection
<1>8. IsFiniteSet(Ticks(s))
  BY <1>3, <1>6, <1>7, FS_UNION
<1> QED BY <1>4, <1>8, FS_CardinalityType, FS_EmptySet

(* What a busy thread works on is somewhere. *)
LEMMA BusyLive ==
  ASSUME NEW t \in Threads, Busy(t), Genuine(req[t])
  PROVE  req[t].index \in Live(req[t].super)
<1>1. PICK z : z = <<"thread", t, 0>>
  OBVIOUS
<1>2. z \in Place /\ z[1] = "thread" /\ z[2] = t /\ z[3] = 0
  BY <1>1 DEF Place
<1>3. At(z) = req[t]
  BY <1>2 DEF At
<1>4. req[t].index \in Index /\ req[t] # NoReq
  BY GenuineFacts
<1> QED BY <1>2, <1>3, <1>4 DEF Live, Names

(* What the children of s counted is unchanged when their counters are. *)
LEMMA TicksSame ==
  ASSUME NEW s \in Supers, \A i \in Children(s) : childCount'[<<s, i>>] = childCount[<<s, i>>]
  PROVE  Ticks(s)' = Ticks(s)
BY DEF Ticks

(* A step that counts nothing for supernode s. *)
LEMMA CountsKept ==
  ASSUME CountTypes, NEW s \in Supers, CountsIn(s),
         cnt[s] \in Nat, GivenOut(s)' \in Nat,
         superCount'[s] = superCount[s],
         \A i \in Children(s) : childCount'[<<s, i>>] = childCount[<<s, i>>],
         phase'[s] \in Dealing =>
           /\ phase[s] \in Dealing
           /\ \A k \in Live(s)' : k < GivenOut(s)'
           /\ Cardinality(Live(s)') + GivenOut(s) <= Cardinality(Live(s)) + GivenOut(s)'
           /\ \A t \in Threads : pc'[t] = "store" /\ req'[t].super = s =>
                 tmp'[t] = superCount[s] \/ (pc[t] = "store" /\ req[t].super = s /\ tmp'[t] = tmp[t]),
         phase'[s] \notin Dealing => Live(s)' = {},
         phase'[s] = "idle" => phase[s] = "idle",
         tmp \in [Threads -> Nat]
  PROVE  CountsIn(s)'
<1>1. Ticks(s)' = Ticks(s)
  BY TicksSame
<1>2. /\ Cardinality(Ticks(s)) \in Nat /\ Cardinality(Live(s)) \in Nat
      /\ Cardinality(Live(s)') \in Nat /\ GivenOut(s) \in Nat /\ superCount[s] \in Nat
  BY LiveFinite, TicksFinite DEF LiveCounted, GivenOut, CountTypes
<1>3. ASSUME phase'[s] \in Dealing, NEW n \in Nat, Covered(s, n) PROVE Covered(s, n)'
  <2>1. Cardinality(Ticks(s)) + n + Cardinality(Live(s)) <= GivenOut(s)
    BY <1>3 DEF Covered
  <2>2. Cardinality(Ticks(s)) + n + Cardinality(Live(s)') <= GivenOut(s)'
    BY <1>2, <1>3, <2>1
  <2> QED BY <1>1, <2>2 DEF Covered
<1>4. ASSUME phase'[s] \in Dealing
      PROVE  /\ \A k \in Live(s)' : k < GivenOut(s)'
             /\ Covered(s, superCount[s])'
             /\ \A t \in Threads : pc'[t] = "store" /\ req'[t].super = s => Covered(s, tmp[t])'
  <2>1. phase[s] \in Dealing
    BY <1>4
  <2>2. Covered(s, superCount[s])'
    <3>1. PICK n \in Nat : n = superCount[s]
      BY <1>2
    <3>2. Covered(s, n)
      BY <2>1, <3>1 DEF CountsIn
    <3>3. Covered(s, n)'
      BY <1>3, <1>4, <3>2
    <3> QED BY <3>1, <3>3 DEF Covered
  <2>3. ASSUME NEW t \in Threads, pc'[t] = "store", req'[t].super = s PROVE Covered(s, tmp[t])'
    <3>1. PICK n : n = tmp'[t]
      OBVIOUS
    <3>2. n \in Nat /\ Covered(s, n)
      BY <1>2, <1>4, <2>1, <2>3, <3>1 DEF CountsIn
    <3>3. Covered(s, n)'
      BY <1>3, <1>4, <3>2
    <3> QED BY <3>1, <3>3 DEF Covered
  <2> QED BY <1>4, <2>2, <2>3
<1>5. phase'[s] = "idle" => superCount'[s] = 0 /\ \A i \in Children(s) : childCount'[<<s, i>>] = 0
  BY DEF CountsIn
<1> QED BY <1>4, <1>5 DEF CountsIn

LEMMA FewerLive ==
  ASSUME NEW s \in Supers, Live(s)' \subseteq Live(s)
  PROVE  /\ Cardinality(Live(s)') <= Cardinality(Live(s))
         /\ \A k \in Live(s) : k \notin Live(s)' =>
              Cardinality(Live(s)') + 1 <= Cardinality(Live(s))
<1>1. /\ IsFiniteSet(Live(s)) /\ IsFiniteSet(Live(s)')
      /\ Cardinality(Live(s)) \in Nat /\ Cardinality(Live(s)') \in Nat
  BY LiveFinite DEF LiveCounted
<1>2. ASSUME NEW k \in Live(s), k \notin Live(s)'
      PROVE  Cardinality(Live(s)') + 1 <= Cardinality(Live(s))
  <2>1. /\ IsFiniteSet(Live(s) \ {k})
        /\ Cardinality(Live(s) \ {k}) = Cardinality(Live(s)) - 1
    BY <1>1, FS_RemoveElement
  <2>2. Live(s)' \in SUBSET (Live(s) \ {k})
    BY <1>2
  <2>3. Cardinality(Live(s)') <= Cardinality(Live(s) \ {k})
    BY <2>1, <2>2, FS_Subset
  <2> QED BY <1>1, <2>1, <2>3
<1>3. Cardinality(Live(s)') <= Cardinality(Live(s))
  <2>1. Live(s)' \in SUBSET Live(s)
    OBVIOUS
  <2> QED BY <1>1, <2>1, FS_Subset
<1> QED BY <1>2, <1>3

(* A step that counts nothing for supernode s and moves its driver nowhere *)
(* but out of an interrupted push.                                         *)
LEMMA CountsStay ==
  ASSUME CountTypes, ThreadTypes, DriverTypes, NEW s \in Supers, CountsIn(s),
         Live(s)' \subseteq Live(s), cnt'[s] = cnt[s],
         phase'[s] = phase[s] \/ (phase[s] = "pushing" /\ phase'[s] = "overwritten"),
         superCount'[s] = superCount[s],
         \A i \in Children(s) : childCount'[<<s, i>>] = childCount[<<s, i>>],
         \A t \in Threads : pc'[t] = "store" /\ req'[t].super = s =>
           tmp'[t] = superCount[s] \/ (pc[t] = "store" /\ req[t].super = s /\ tmp'[t] = tmp[t])
  PROVE  CountsIn(s)'
<1>1. cnt[s] \in Nat /\ GivenOut(s)' = GivenOut(s) /\ GivenOut(s)' \in Nat
  BY DEF DriverTypes, GivenOut
<1>2. Cardinality(Live(s)') <= Cardinality(Live(s))
  BY FewerLive
<1>3. Cardinality(Live(s)') + GivenOut(s) <= Cardinality(Live(s)) + GivenOut(s)'
  BY <1>1, <1>2, LiveFinite DEF LiveCounted
<1>4. phase'[s] \in Dealing <=> phase[s] \in Dealing
  BY DEF Dealing
<1>5. phase[s] \in Dealing => \A k \in Live(s)' : k < GivenOut(s)'
  BY <1>1 DEF CountsIn
<1>6. phase[s] \notin Dealing => Live(s)' = {}
  BY DEF CountsIn
<1>7. tmp \in [Threads -> Nat]
  BY DEF ThreadTypes
<1> QED BY <1>1, <1>3, <1>4, <1>5, <1>6, <1>7, CountsKept

(* A step that counts one word, which is nowhere any more. *)
LEMMA CountsOne ==
  ASSUME CountTypes, ThreadTypes, DriverTypes, NEW s \in Supers, CountsIn(s),
         NEW k \in Live(s), k \notin Live(s)', Live(s)' \subseteq Live(s),
         UNCHANGED <<cnt, phase>>,
         \A t \in Threads : pc'[t] = "store" /\ req'[t].super = s =>
           pc[t] = "store" /\ req[t].super = s /\ tmp'[t] = tmp[t],
         \/ /\ superCount' = superCount
            /\ Cardinality(Ticks(s)') \in Nat
            /\ Cardinality(Ticks(s)') <= Cardinality(Ticks(s)) + 1
         \/ /\ childCount' = childCount
            /\ \E t \in Threads : /\ pc[t] = "store" /\ req[t].super = s
                                  /\ superCount'[s] = tmp[t] + 1
  PROVE  CountsIn(s)'
<1>1. cnt[s] \in Nat /\ GivenOut(s)' = GivenOut(s) /\ GivenOut(s) \in Nat
  BY DEF DriverTypes, GivenOut
<1>2. /\ Cardinality(Live(s)') + 1 <= Cardinality(Live(s))
      /\ Cardinality(Live(s)) \in Nat /\ Cardinality(Live(s)') \in Nat
  BY FewerLive, LiveFinite DEF LiveCounted
<1>3. phase[s] \in Dealing /\ phase'[s] \in Dealing /\ phase'[s] # "idle"
  BY DEF CountsIn, Dealing
<1>4. Cardinality(Ticks(s)) \in Nat /\ superCount[s] \in Nat /\ tmp \in [Threads -> Nat]
  BY TicksFinite DEF CountTypes, ThreadTypes
<1>5. \A j \in Live(s)' : j < GivenOut(s)'
  BY <1>1, <1>3 DEF CountsIn
<1>6. CASE superCount' = superCount /\ Cardinality(Ticks(s)') \in Nat
           /\ Cardinality(Ticks(s)') <= Cardinality(Ticks(s)) + 1
  <2>1. ASSUME NEW n \in Nat, Covered(s, n)
        PROVE  Cardinality(Ticks(s)') + n + Cardinality(Live(s)') <= GivenOut(s)'
    <3>1. Cardinality(Ticks(s)) + n + Cardinality(Live(s)) <= GivenOut(s)
      BY <2>1 DEF Covered
    <3> QED BY <1>1, <1>2, <1>4, <1>6, <3>1
  <2>2. Covered(s, superCount[s])'
    BY <1>3, <1>4, <1>6, <2>1 DEF CountsIn, Covered
  <2>3. ASSUME NEW t \in Threads, pc'[t] = "store", req'[t].super = s PROVE Covered(s, tmp[t])'
    BY <1>3, <1>4, <2>1, <2>3 DEF CountsIn, Covered
  <2> QED BY <1>3, <1>5, <2>2, <2>3 DEF CountsIn
<1>7. ASSUME NEW t \in Threads, pc[t] = "store", req[t].super = s,
             superCount'[s] = tmp[t] + 1, childCount' = childCount
      PROVE  CountsIn(s)'
  <2>1. Ticks(s)' = Ticks(s)
    BY <1>7 DEF Ticks
  <2>2. ASSUME NEW n \in Nat, Covered(s, n)
        PROVE  /\ Cardinality(Ticks(s)') + n + Cardinality(Live(s)') <= GivenOut(s)'
               /\ Cardinality(Ticks(s)') + (n + 1) + Cardinality(Live(s)') <= GivenOut(s)'
    <3>1. Cardinality(Ticks(s)) + n + Cardinality(Live(s)) <= GivenOut(s)
      BY <2>2 DEF Covered
    <3> QED BY <1>1, <1>2, <1>4, <2>1, <3>1
  <2>3. Covered(s, superCount[s])'
    BY <1>3, <1>4, <1>7, <2>2 DEF CountsIn, Covered
  <2>4. ASSUME NEW u \in Threads, pc'[u] = "store", req'[u].super = s PROVE Covered(s, tmp[u])'
    BY <1>3, <1>4, <2>2, <2>4 DEF CountsIn, Covered
  <2> QED BY <1>3, <1>5, <2>3, <2>4 DEF CountsIn
<1> QED BY <1>6, <1>7

(* translate_size_child[i]++ counts at most one unit more. *)
LEMMA TicksCount ==
  ASSUME CountTypes, NEW t \in Threads, CountOwn(t), NEW s \in Supers, s = t[1]
  PROVE  /\ Cardinality(Ticks(s)') \in Nat
         /\ Cardinality(Ticks(s)') <= Cardinality(Ticks(s)) + 1
         /\ \A p \in Supers \ {s} : Ticks(p)' = Ticks(p)
<1>1. t[1] \in Supers /\ t[2] \in Children(t[1]) /\ t = <<t[1], t[2]>>
  BY ThreadFacts DEF Threads
<1>2. PICK x : x = <<t[2], childCount[t] + 1>>
  OBVIOUS
<1>3. \A u \in Threads : /\ childCount[u] \in Nat
                         /\ childCount'[u] = IF u = t THEN childCount[u] + 1 ELSE childCount[u]
  BY DEF CountOwn, CountTypes
<1>4. ASSUME NEW i \in Children(s)
      PROVE  /\ childCount[<<s, i>>] \in Nat
             /\ childCount'[<<s, i>>] = IF i = t[2] THEN childCount[<<s, i>>] + 1
                                                    ELSE childCount[<<s, i>>]
  <2>1. <<s, i>> \in Threads /\ (<<s, i>> = t <=> i = t[2])
    BY <1>1, ThreadFacts
  <2> QED BY <1>3, <2>1
<1>5. ASSUME NEW y \in Ticks(s)' PROVE y \in Ticks(s) \cup {x}
  <2>1. PICK i \in Children(s) : y \in {i} \X (1 .. childCount'[<<s, i>>])
    BY <1>5 DEF Ticks
  <2>2. PICK n \in 1 .. childCount'[<<s, i>>] : y = <<i, n>>
    BY <2>1
  <2>3. CASE n \in 1 .. childCount[<<s, i>>]
    BY <2>2, <2>3 DEF Ticks
  <2>4. CASE n \notin 1 .. childCount[<<s, i>>]
    <3>1. i = t[2] /\ n = childCount[<<s, i>>] + 1
      BY <1>4, <2>2, <2>4
    <3> QED BY <1>1, <1>2, <2>2, <3>1
  <2> QED BY <2>3, <2>4
<1>6. IsFiniteSet(Ticks(s)) /\ Cardinality(Ticks(s)) \in Nat
  BY TicksFinite
<1>7. IsFiniteSet(Ticks(s) \cup {x}) /\ Cardinality(Ticks(s) \cup {x}) \in Nat
      /\ Cardinality(Ticks(s) \cup {x}) <= Cardinality(Ticks(s)) + 1
  <2>1. PICK S : S = Ticks(s)
    OBVIOUS
  <2>2. IsFiniteSet(S \cup {x}) /\ Cardinality(S \cup {x}) \in {Cardinality(S), Cardinality(S) + 1}
    BY <1>6, <2>1, FS_AddElement
  <2> QED BY <1>6, <2>1, <2>2
<1>8. IsFiniteSet(Ticks(s)') /\ Cardinality(Ticks(s)') <= Cardinality(Ticks(s) \cup {x})
  <2>1. Ticks(s)' \in SUBSET (Ticks(s) \cup {x})
    BY <1>5
  <2> QED BY <1>7, <2>1, FS_Subset
<1>9. Cardinality(Ticks(s)') \in Nat
  BY <1>8, FS_CardinalityType
<1>10. ASSUME NEW p \in Supers, p # s PROVE Ticks(p)' = Ticks(p)
  <2>1. ASSUME NEW i \in Children(p) PROVE childCount'[<<p, i>>] = childCount[<<p, i>>]
    <3>1. <<p, i>> \in Threads /\ <<p, i>> # t
      BY <1>10, ThreadFacts
    <3> QED BY <1>3, <3>1
  <2> QED BY <2>1 DEF Ticks
<1> QED BY <1>6, <1>7, <1>8, <1>9, <1>10

LEMMA ChildCounts ==
  ASSUME SoundInv, SoundInv', PlaceInv, NEW t \in Threads, ChildThread(t)
  PROVE  \A s \in Supers : CountsIn(s)'
<1>1. /\ CountTypes /\ CountTypes' /\ ThreadTypes /\ DriverTypes /\ GenuineThread(t)
      /\ QueuesGenuine /\ TypeOK
  BY DEF SoundInv, TypeOK, ThreadsGenuine
<1>2. \A s \in Supers : CountsIn(s) /\ Live(s)' \subseteq Live(s)
  BY ChildPlaces DEF PlaceInv
<1>3. t[1] \in Supers /\ t[2] \in Children(t[1]) /\ t = <<t[1], t[2]>>
  BY ThreadFacts DEF Threads
<1>4. Busy(t) => Genuine(req[t]) /\ req[t].super \in Supers /\ req[t].index \in Index
                 /\ req[t].index \in Live(req[t].super)
  BY <1>1, BusyLive, GenuineFacts DEF GenuineThread, Busy
<1>5. CASE CountOwn(t)
  <2>1. PICK s \in Supers : s = t[1]
    BY <1>3
  <2>2. Busy(t) /\ ~Busy(t)' /\ req[t].super = s
    BY <1>1, <1>5, <2>1 DEF CountOwn, Idle, Goto, Busy, GenuineThread, Own, ThreadTypes
  <2>3. PICK k \in Live(s) : k = req[t].index
    BY <1>4, <2>2
  <2>4. /\ UNCHANGED <<q, super, sending, cnt, phase, superCount>>
        /\ childCount' = [childCount EXCEPT ![t] = @ + 1]
        /\ \A u \in Threads : Busy(u)' => Busy(u) /\ req'[u] = req[u]
        /\ \A u \in Threads : pc'[u] = "store" =>
             pc[u] = "store" /\ req'[u] = req[u] /\ tmp'[u] = tmp[u]
    BY <1>1, <1>5 DEF CountOwn, Idle, Goto, Busy, ThreadTypes, driverVars, queueVars
  <2>5. k \in Index /\ Names(req[t], s, k)
    BY <1>4, <2>2, <2>3, GenuineFacts DEF Names
  <2>6. k \notin Live(s)'
    BY <2>2, <2>4, <2>5, LetGo DEF PlaceInv
  <2>7. /\ Cardinality(Ticks(s)') \in Nat /\ Cardinality(Ticks(s)') <= Cardinality(Ticks(s)) + 1
    BY <1>1, <1>5, <2>1, TicksCount
  <2>8. CountsIn(s)'
    BY <1>1, <1>2, <2>4, <2>6, <2>7, CountsOne
  <2>9. ASSUME NEW p \in Supers, p # s PROVE CountsIn(p)'
    <3>1. \A i \in Children(p) : childCount'[<<p, i>>] = childCount[<<p, i>>]
      BY <1>3, <2>1, <2>4, <2>9, <1>1, ThreadFacts DEF CountTypes
    <3> QED BY <1>1, <1>2, <2>4, <3>1, CountsStay
  <2> QED BY <2>8, <2>9
<1>6. CASE StoreCount(t)
  <2>1. PICK s \in Supers : s = Peer(t[1])
    BY <1>3, ThreadFacts
  <2>2. Busy(t) /\ ~Busy(t)' /\ req[t].super = s /\ pc[t] = "store"
    <3>1. Busy(t) /\ ~Busy(t)' /\ req[t].super # t[1] /\ pc[t] = "store"
      BY <1>1, <1>6 DEF StoreCount, Goto, Busy, GenuineThread, Own, ThreadTypes
    <3> QED BY <1>3, <1>4, <2>1, <3>1, ThreadFacts
  <2>3. PICK k \in Live(s) : k = req[t].index
    BY <1>4, <2>2
  <2>4. /\ UNCHANGED <<q, super, sending, cnt, phase, childCount>>
        /\ superCount'[s] = tmp[t] + 1
        /\ \A p \in Supers \ {s} : superCount'[p] = superCount[p]
        /\ \A u \in Threads : Busy(u)' => Busy(u) /\ req'[u] = req[u]
        /\ \A u \in Threads : pc'[u] = "store" =>
             pc[u] = "store" /\ req'[u] = req[u] /\ tmp'[u] = tmp[u]
    BY <1>1, <1>6, <2>1 DEF StoreCount, Goto, Busy, ThreadTypes, CountTypes, driverVars,
       queueVars
  <2>5. k \in Index /\ Names(req[t], s, k)
    BY <1>4, <2>2, <2>3, GenuineFacts DEF Names
  <2>6. k \notin Live(s)'
    BY <2>2, <2>4, <2>5, LetGo DEF PlaceInv
  <2>7. CountsIn(s)'
    BY <1>1, <1>2, <2>2, <2>4, <2>6, CountsOne
  <2>8. ASSUME NEW p \in Supers, p # s PROVE CountsIn(p)'
    BY <1>1, <1>2, <2>4, <2>8, CountsStay
  <2> QED BY <2>7, <2>8
<1>7. CASE ~CountOwn(t) /\ ~StoreCount(t)
  <2>1. UNCHANGED <<cnt, countVars>>
    BY <1>7 DEF ChildThread, Take, Ask, GiveUpOwn, GiveUpForeign, Consult, Move, Escalate,
       WriteOwn,
       Memo, WriteRemote, LoseAnswer, LoadCount, MemoRemote, driverVars
  <2>2. \A s \in Supers : phase'[s] = phase[s] \/ (phase[s] = "pushing" /\ phase'[s] = "overwritten")
    <3>1. CASE Move(t)
      <4>1. LockedPush(NextChild(t), req[t]) /\ NextChild(t) \in Threads /\ Genuine(req[t])
        BY <1>1, <1>4, <3>1, ThreadFacts DEF Move, Busy
      <4>2. PICK u \in Threads : u = NextChild(t)
        BY <4>1
      <4>3. PICK r : r = req[t]
        OBVIOUS
      <4> QED BY <1>1, <4>1, <4>2, <4>3, LockedPushFacts
    <3>2. CASE ~Move(t)
      BY <1>7, <3>2 DEF ChildThread, Take, Ask, GiveUpOwn, GiveUpForeign, Consult, Escalate,
         WriteOwn,
         Memo, WriteRemote, LoseAnswer, LoadCount, MemoRemote, driverVars
    <3> QED BY <3>1, <3>2
  <2>3. ASSUME NEW s \in Supers, NEW u \in Threads, pc'[u] = "store", req'[u].super = s
        PROVE  tmp'[u] = superCount[s] \/ (pc[u] = "store" /\ req[u].super = s /\ tmp'[u] = tmp[u])
    <3>1. CASE LoadCount(t) /\ u = t
      <4>1. req'[t] = req[t] /\ tmp'[t] = superCount[Peer(t[1])] /\ Busy(t) /\ req[t].super # t[1]
        BY <1>1, <3>1 DEF LoadCount, ThreadTypes, Busy, GenuineThread, Own
      <4>2. req[t].super = Peer(t[1])
        BY <1>3, <1>4, <4>1, ThreadFacts
      <4> QED BY <2>3, <3>1, <4>1, <4>2
    <3>2. CASE ~(LoadCount(t) /\ u = t)
      <4>1. pc[u] = "store" /\ req'[u] = req[u] /\ tmp'[u] = tmp[u]
        BY <1>1, <1>7, <2>3, <3>2 DEF ChildThread, Take, Ask, GiveUpOwn, GiveUpForeign,
           Consult, Move,
           Escalate, WriteOwn, Memo, WriteRemote, LoseAnswer, LoadCount, MemoRemote, Idle,
           Goto, ThreadTypes
      <4> QED BY <2>3, <4>1
    <3> QED BY <3>1, <3>2
  <2> QED BY <1>1, <1>2, <2>1, <2>2, <2>3, CountsStay DEF countVars
<1> QED BY <1>5, <1>6, <1>7

LEMMA SuperCounts ==
  ASSUME SoundInv, PlaceInv, NEW p \in Supers, SuperThread(p)
  PROVE  \A s \in Supers : CountsIn(s)'
<1>1. CountTypes /\ ThreadTypes /\ DriverTypes /\ QueuesGenuine /\ TypeOK
  BY DEF SoundInv, TypeOK
<1>2. \A s \in Supers : CountsIn(s) /\ Live(s)' \subseteq Live(s)
  BY SuperPlaces DEF PlaceInv
<1>3. UNCHANGED <<textVars, cnt, threadVars, countVars>>
  BY DEF SuperThread, PickWord, SendWord, LoseWord, driverVars
<1>4. \A s \in Supers : phase'[s] = phase[s] \/ (phase[s] = "pushing" /\ phase'[s] = "overwritten")
  <2>1. CASE SendWord(p)
    <3>1. PICK u : u = <<Peer(p), ran[Peer(p)]>>
      OBVIOUS
    <3>2. PICK r : r = [sending[p] EXCEPT !.start = ran[Peer(p)]]
      OBVIOUS
    <3>3. LockedPush(u, r)
      BY <2>1, <3>1, <3>2 DEF SendWord
    <3>4. u[1] \in Supers
      BY <3>1, ThreadFacts
    <3> QED BY <1>1, <3>3, <3>4 DEF LockedPush, Collides, DriverTypes
  <2>2. CASE ~SendWord(p)
    BY <2>2 DEF SuperThread, PickWord, LoseWord, driverVars
  <2> QED BY <2>1, <2>2
<1> QED BY <1>1, <1>2, <1>3, <1>4, CountsStay DEF threadVars, countVars

LEMMA DriverCounts ==
  ASSUME SoundInv, PlaceInv, NEW p \in Supers, Driver(p)
  PROVE  \A s \in Supers : CountsIn(s)'
<1>1. CountTypes /\ ThreadTypes /\ DriverTypes /\ DriversInOrder
  BY DEF SoundInv, TypeOK
<1>2. /\ \A s \in Supers : CountsIn(s)
      /\ \A s \in Supers : Live(s)' \subseteq
           IF s = p /\ EndPush(p) /\ phase[p] = "pushing" THEN Live(s) \cup {cnt[s]} ELSE Live(s)
  BY DriverPlaces DEF PlaceInv
<1>3. UNCHANGED threadVars
  BY DEF Driver, BeginPush, EndPush, FileWord, Assemble, SendResult, Reply, Reset
<1>4. cnt[p] \in Nat /\ cnt[p] <= Len(Half(p)) /\ cnt \in [Supers -> Nat]
      /\ phase \in [Supers -> PhaseNames] /\ Len(Half(p)) \in Nat
  BY <1>1, HalfFacts DEF DriverTypes, DriversInOrder, OrderOf, Index
<1>5. ASSUME NEW s \in Supers, s # p PROVE CountsIn(s)'
  <2>1. cnt'[s] = cnt[s] /\ phase'[s] = phase[s] /\ superCount'[s] = superCount[s]
    BY <1>1, <1>4, <1>5 DEF Driver, BeginPush, EndPush, FileWord, Assemble, SendResult, Reply,
       Reset,
       countVars, CountTypes
  <2>2. \A i \in Children(s) : childCount'[<<s, i>>] = childCount[<<s, i>>]
    <3>1. \A u \in Threads : u[1] = s => childCount'[u] = childCount[u]
      BY <1>1, <1>5 DEF Driver, BeginPush, EndPush, FileWord, Assemble, SendResult, Reply,
         Reset,
         countVars, CountTypes
    <3> QED BY <3>1, ThreadFacts
  <2>3. Live(s)' \subseteq Live(s)
    BY <1>2, <1>5
  <2> QED BY <1>1, <1>2, <1>3, <2>1, <2>2, <2>3, CountsStay DEF threadVars
<1>6. ASSUME Reset(p) PROVE CountsIn(p)'
  <2>1. Live(p)' = {}
    BY <1>2, <1>6 DEF Reset, EndPush, CountsIn, Dealing
  <2>2. phase'[p] = "idle" /\ superCount'[p] = 0
    BY <1>1, <1>4, <1>6 DEF Reset, CountTypes
  <2>3. \A i \in Children(p) : childCount'[<<p, i>>] = 0
    <3>1. \A u \in Threads : u[1] = p => childCount'[u] = 0
      BY <1>6 DEF Reset
    <3>2. \A i \in Children(p) : <<p, i>> \in Threads /\ <<p, i>>[1] = p
      BY ThreadFacts
    <3> QED BY <3>1, <3>2
  <2>4. phase'[p] \notin Dealing
    BY <2>2 DEF Dealing
  <2> QED BY <2>1, <2>2, <2>3, <2>4 DEF CountsIn
<1>7. ASSUME ~Reset(p) PROVE CountsIn(p)'
  <2>1. superCount' = superCount /\ childCount' = childCount
    BY <1>7 DEF Driver, BeginPush, EndPush, FileWord, Assemble, SendResult, Reply, countVars
  <2>2. \A t \in Threads : pc'[t] = "store" /\ req'[t].super = p =>
          tmp'[t] = superCount[p] \/ (pc[t] = "store" /\ req[t].super = p /\ tmp'[t] = tmp[t])
    BY <1>3 DEF threadVars
  <2>3. IsFiniteSet(Live(p)) /\ Cardinality(Live(p)) \in Nat /\ Cardinality(Live(p)') \in Nat
    BY LiveFinite DEF LiveCounted
  <2>4. tmp \in [Threads -> Nat]
    BY <1>1 DEF ThreadTypes
  <2>6. /\ superCount'[p] = superCount[p]
        /\ \A i \in Children(p) : childCount'[<<p, i>>] = childCount[<<p, i>>]
    BY <2>1
  <2>5. CASE BeginPush(p) \/ EndPush(p) \/ (p = 2 /\ FileWord)
    <3>1. phase[p] \in Dealing /\ phase'[p] \in Dealing /\ phase'[p] # "idle"
      BY <1>4, <1>7, <2>5 DEF Driver, BeginPush, EndPush, FileWord, Dealing
    <3>2. \/ GivenOut(p)' = GivenOut(p) /\ ~(EndPush(p) /\ phase[p] = "pushing")
          \/ GivenOut(p)' = GivenOut(p) + 1 /\ GivenOut(p) = cnt[p]
      BY <1>4, <1>7, <2>5 DEF Driver, BeginPush, EndPush, FileWord, GivenOut
    <3>3. GivenOut(p) \in Nat /\ GivenOut(p)' \in Nat
      BY <1>4, <3>2 DEF GivenOut
    <3>4. CASE GivenOut(p)' = GivenOut(p) /\ ~(EndPush(p) /\ phase[p] = "pushing")
      <4>1. Live(p)' \subseteq Live(p)
        BY <1>2, <3>4
      <4>2. Cardinality(Live(p)') <= Cardinality(Live(p))
        BY <4>1, FewerLive
      <4>3. Cardinality(Live(p)') + GivenOut(p) <= Cardinality(Live(p)) + GivenOut(p)'
        BY <2>3, <3>3, <3>4, <4>2
      <4>4. \A k \in Live(p)' : k < GivenOut(p)'
        BY <1>2, <3>1, <3>4, <4>1 DEF CountsIn
      <4> QED BY <1>1, <1>2, <1>4, <2>2, <2>4, <2>6, <3>1, <3>3, <4>3, <4>4, CountsKept
    <3>5. CASE GivenOut(p)' = GivenOut(p) + 1 /\ GivenOut(p) = cnt[p]
      <4>1. Live(p)' \subseteq Live(p) \cup {cnt[p]}
        BY <1>2
      <4>2. Cardinality(Live(p)') <= Cardinality(Live(p)) + 1
        <5>0. PICK x : x = cnt[p]
          OBVIOUS
        <5>1. /\ IsFiniteSet(Live(p) \cup {x})
              /\ Cardinality(Live(p) \cup {x}) \in Nat
              /\ Cardinality(Live(p) \cup {x}) <= Cardinality(Live(p)) + 1
          BY <2>3, FS_AddElement
        <5>2. Live(p)' \in SUBSET (Live(p) \cup {x})
          BY <4>1, <5>0
        <5>3. Cardinality(Live(p)') <= Cardinality(Live(p) \cup {x})
          BY <5>1, <5>2, FS_Subset
        <5> QED BY <2>3, <5>1, <5>3
      <4>3. Cardinality(Live(p)') + GivenOut(p) <= Cardinality(Live(p)) + GivenOut(p)'
        BY <2>3, <3>3, <3>5, <4>2
      <4>4. \A k \in Live(p)' : k < GivenOut(p)'
        <5>1. \A k \in Live(p) : k \in Nat /\ k < GivenOut(p)
          BY <1>2, <3>1 DEF CountsIn, Live, Index
        <5> QED BY <1>4, <3>3, <3>5, <4>1, <5>1
      <4> QED BY <1>1, <1>2, <1>4, <2>2, <2>4, <2>6, <3>1, <3>3, <4>3, <4>4, CountsKept
    <3> QED BY <3>2, <3>4, <3>5
  <2>7. CASE Assemble(p) \/ (p = 1 /\ Reply) \/ (p = 2 /\ SendResult)
    <3>1. phase'[p] \notin Dealing /\ phase'[p] # "idle" /\ cnt'[p] = cnt[p]
      BY <1>4, <2>7 DEF Assemble, Reply, SendResult, Dealing
    <3>2. Live(p)' \subseteq Live(p)
      BY <1>2, <2>7 DEF Assemble, Reply, SendResult, EndPush
    <3>3. Live(p) = {}
      <4>1. CASE ~Assemble(p)
        BY <1>2, <2>7, <4>1 DEF Reply, SendResult, CountsIn, Dealing
      <4>2. CASE Assemble(p)
        <5>1. phase[p] = "deal" /\ phase[p] \in Dealing /\ GivenOut(p) = cnt[p] /\ cnt[p] = Len(Half(p))
          BY <4>2 DEF Assemble, Dealing, GivenOut
        <5>2. CASE Half(p) = <<>>
          <6>1. \A k \in Live(p) : k \in Nat /\ k < 0
            BY <1>2, <5>1, <5>2 DEF CountsIn, Live, Index
          <6> QED BY <6>1
        <5>3. CASE Counted(p) = Len(Half(p))
          <6>1. Cardinality(Ticks(p)) + superCount[p] + Cardinality(Live(p)) <= cnt[p]
            BY <1>2, <5>1 DEF CountsIn, Covered
          <6>2. Cardinality(Ticks(p)) + superCount[p] = cnt[p]
            BY <5>1, <5>3 DEF Counted
          <6>3. Cardinality(Ticks(p)) \in Nat /\ superCount[p] \in Nat
            BY <1>1, TicksFinite DEF CountTypes
          <6>4. Cardinality(Live(p)) = 0
            BY <1>4, <2>3, <6>1, <6>2, <6>3
          <6> QED BY <6>4, LiveFinite DEF LiveCounted
        <5> QED BY <4>2, <5>2, <5>3 DEF Assemble
      <4> QED BY <4>1, <4>2
    <3>4. GivenOut(p)' \in Nat
      BY <1>4, <3>1 DEF GivenOut
    <3> QED BY <1>1, <1>2, <1>4, <2>6, <2>4, <3>1, <3>2, <3>3, <3>4, CountsKept
  <2> QED BY <1>7, <2>5, <2>7 DEF Driver
<1> QED BY <1>5, <1>6, <1>7

LEMMA AcceptCounts ==
  ASSUME SoundInv, PlaceInv, NEW txt \in Texts, Accept(txt)
  PROVE  PlaceInv'
<1>1. /\ CountTypes /\ ThreadTypes /\ DriverTypes
  BY DEF SoundInv, TypeOK
<1>2. /\ UNCHANGED <<q, super, sending, pc, req, tmp, childCount, superCount>>
      /\ \A s \in Supers : phase[s] = "idle" /\ cnt'[s] = 0 /\ phase'[s] \in {"idle", "deal"}
  BY DEF Accept, Supers, queueVars, threadVars, countVars
<1>3. Distinct' /\ \A s \in Supers : Live(s)' \subseteq Live(s)
  <2>1. \A t \in Threads : Busy(t)' => Busy(t) /\ req'[t] = req[t]
    BY <1>2 DEF Busy
  <2> QED BY <1>2, <2>1, Stays DEF PlaceInv
<1>4. ASSUME NEW s \in Supers PROVE CountsIn(s)'
  <2>1. /\ Live(s) = {} /\ superCount[s] = 0 /\ \A i \in Children(s) : childCount[<<s, i>>] = 0
    BY <1>2 DEF PlaceInv, CountsIn, Dealing
  <2>2. Live(s)' = {} /\ superCount'[s] = 0 /\ GivenOut(s)' = 0
        /\ \A i \in Children(s) : childCount'[<<s, i>>] = 0
    BY <1>2, <1>3, <2>1 DEF GivenOut
  <2>3. ASSUME NEW t \in Threads, pc'[t] = "store", req'[t].super = s PROVE FALSE
    <3>1. Busy(t) /\ Genuine(req[t])
      BY <1>2, <2>3 DEF SoundInv, ThreadsGenuine, GenuineThread, Busy
    <3>2. req[t].index \in Live(req[t].super)
      BY <3>1, BusyLive
    <3> QED BY <1>2, <2>1, <2>3, <3>2
  <2>4. Covered(s, superCount[s])'
    <3>1. Ticks(s)' = Ticks(s) /\ Cardinality(Ticks(s)) = 0
      BY <1>1, <1>2, <2>1, TicksFinite DEF Ticks
    <3>2. Cardinality(Live(s)') = 0
      BY <2>2, FS_EmptySet
    <3> QED BY <2>2, <3>1, <3>2 DEF Covered
  <2> QED BY <2>2, <2>3, <2>4 DEF CountsIn
<1> QED BY <1>3, <1>4 DEF PlaceInv

LEMMA PlaceInit == Init => PlaceInv
<1> SUFFICES ASSUME Init PROVE PlaceInv
  OBVIOUS
<1>1. ASSUME NEW x \in Place PROVE At(x) = NoReq
  <2>1. /\ \A t \in Threads : q[t] = <<>> /\ ~Busy(t)
        /\ \A s \in Supers : super[s] = <<>> /\ sending[s] = NoReq
    BY DEF Init, Busy
  <2>2. \A j \in Nat : Nth(<<>>, j) = NoReq
    BY DEF Nth
  <2> QED BY <2>1, <2>2, PlaceFacts DEF At
<1>2. Distinct
  BY <1>1 DEF Distinct, SameWord
<1>3. ASSUME NEW s \in Supers PROVE CountsIn(s)
  <2>1. Live(s) = {}
    BY <1>1 DEF Live, Names
  <2>2. phase[s] = "idle" /\ superCount[s] = 0 /\ \A t \in Threads : childCount[t] = 0
    BY DEF Init
  <2>3. \A i \in Children(s) : childCount[<<s, i>>] = 0
    BY <2>2, ThreadFacts
  <2> QED BY <2>1, <2>2, <2>3 DEF CountsIn, Dealing
<1> QED BY <1>2, <1>3 DEF PlaceInv

LEMMA PlaceStep == SoundInv /\ SoundInv' /\ PlaceInv /\ [Next]_vars => PlaceInv'
<1> SUFFICES ASSUME SoundInv, SoundInv', PlaceInv, [Next]_vars PROVE PlaceInv'
  OBVIOUS
<1>1. ASSUME NEW txt \in Texts, Accept(txt) PROVE PlaceInv'
  BY <1>1, AcceptCounts
<1>2. ASSUME NEW s \in Supers, Driver(s) PROVE PlaceInv'
  BY <1>2, DriverCounts, DriverPlaces DEF PlaceInv
<1>3. ASSUME NEW s \in Supers, SuperThread(s) PROVE PlaceInv'
  BY <1>3, SuperCounts, SuperPlaces DEF PlaceInv
<1>4. ASSUME NEW t \in Threads, ChildThread(t) PROVE PlaceInv'
  BY <1>4, ChildCounts, ChildPlaces DEF PlaceInv
<1>5. CASE UNCHANGED vars
  <2>1. UNCHANGED <<q, super, sending, pc, req, tmp, childCount, superCount, phase, cnt>>
    BY <1>5 DEF vars, driverVars, queueVars, threadVars, countVars
  <2>2. \A t \in Threads : Busy(t)' => Busy(t) /\ req'[t] = req[t]
    BY <2>1 DEF Busy
  <2>3. Distinct' /\ \A s \in Supers : Live(s)' \subseteq Live(s)
    BY <2>1, <2>2, Stays DEF PlaceInv
  <2>4. CountTypes /\ ThreadTypes /\ DriverTypes
    BY DEF SoundInv, TypeOK
  <2>5. \A s \in Supers : CountsIn(s)'
    BY <2>1, <2>3, <2>4, CountsStay DEF PlaceInv
  <2> QED BY <2>3, <2>5 DEF PlaceInv
<1> QED BY <1>1, <1>2, <1>3, <1>4, <1>5 DEF Next

LEMMA PlaceAlways == Spec => [](SoundInv /\ PlaceInv)
BY SoundInit, SoundStep, PlaceInit, PlaceStep, PTL DEF Spec

-----------------------------------------------------------------------------
LEMMA AtMostOne ==
  ASSUME NEW S, \A x, y \in S : x = y
  PROVE  Cardinality(S) \in {0, 1} /\ (Cardinality(S) = 0 <=> S = {})
<1>1. CASE S = {}
  BY <1>1, FS_EmptySet
<1>2. CASE S # {}
  <2>1. PICK x \in S : S = {x}
    BY <1>2
  <2> QED BY <2>1, FS_Singleton
<1> QED BY <1>1, <1>2

(* What Places counts is what At finds. *)
LEMMA PlacesFacts ==
  ASSUME Distinct, QueueTypes, NEW s \in Supers, NEW k \in Index
  PROVE  Places(s, k) \in {0, 1} /\ (Places(s, k) = 0 <=> k \notin Live(s))
<1> DEFINE Here == {z \in Place : Names(At(z), s, k)}
<1>1. \A y, z \in Here : y = z
  BY DEF Distinct, SameWord, Names
<1>2. \A x \in InQueues(s, k) : <<"queue", x[1], x[2]>> \in Here /\ x = <<x[1], x[2]>>
  <2>1. ASSUME NEW x \in InQueues(s, k) PROVE <<"queue", x[1], x[2]>> \in Here /\ x = <<x[1], x[2]>>
    <3>1. PICK t \in Threads : \E j \in DOMAIN q[t] : x = <<t, j>> /\ Names(q[t][j], s, k)
      BY DEF InQueues
    <3>2. PICK j \in DOMAIN q[t] : x = <<t, j>> /\ Names(q[t][j], s, k)
      BY <3>1
    <3>3. q[t] \in Seq(Request) /\ j \in 1 .. Len(q[t]) /\ j \in Nat
      BY DEF QueueTypes
    <3>4. PICK z : z = <<"queue", t, j>>
      OBVIOUS
    <3>5. z \in Place /\ z[1] = "queue" /\ z[2] = t /\ z[3] = j
      BY <3>3, <3>4 DEF Place
    <3>6. At(z) = q[t][j]
      BY <3>3, <3>5 DEF At, Nth
    <3> QED BY <3>2, <3>4, <3>5, <3>6
  <2> QED BY <2>1
<1>3. \A t \in InThreads(s, k) : <<"thread", t, 0>> \in Here
  <2>1. ASSUME NEW t \in InThreads(s, k) PROVE <<"thread", t, 0>> \in Here
    <3>1. t \in Threads /\ Busy(t) /\ Names(req[t], s, k)
      BY DEF InThreads
    <3>2. PICK z : z = <<"thread", t, 0>>
      OBVIOUS
    <3>3. z \in Place /\ z[1] = "thread" /\ z[2] = t /\ z[3] = 0
      BY <3>1, <3>2 DEF Place
    <3>4. At(z) = req[t]
      BY <3>1, <3>3 DEF At
    <3> QED BY <3>1, <3>2, <3>3, <3>4
  <2> QED BY <2>1
<1>4. \A x \in InSupers(s, k) : <<"super", x[1], x[2]>> \in Here /\ x = <<x[1], x[2]>>
  <2>1. ASSUME NEW x \in InSupers(s, k) PROVE <<"super", x[1], x[2]>> \in Here /\ x = <<x[1], x[2]>>
    <3>1. PICK p \in Supers : \E j \in DOMAIN super[p] : x = <<p, j>> /\ Names(super[p][j], s, k)
      BY DEF InSupers
    <3>2. PICK j \in DOMAIN super[p] : x = <<p, j>> /\ Names(super[p][j], s, k)
      BY <3>1
    <3>3. super[p] \in Seq(Request) /\ j \in 1 .. Len(super[p]) /\ j \in Nat
      BY DEF QueueTypes
    <3>4. PICK z : z = <<"super", p, j>>
      OBVIOUS
    <3>5. z \in Place /\ z[1] = "super" /\ z[2] = p /\ z[3] = j
      BY <3>3, <3>4 DEF Place
    <3>6. At(z) = super[p][j]
      BY <3>3, <3>5 DEF At, Nth
    <3> QED BY <3>2, <3>4, <3>5, <3>6
  <2> QED BY <2>1
<1>5. \A p \in InTransit(s, k) : <<"sending", p, 0>> \in Here
  <2>1. ASSUME NEW p \in InTransit(s, k) PROVE <<"sending", p, 0>> \in Here
    <3>1. p \in Supers /\ Names(sending[p], s, k)
      BY DEF InTransit
    <3>2. PICK z : z = <<"sending", p, 0>>
      OBVIOUS
    <3>3. z \in Place /\ z[1] = "sending" /\ z[2] = p /\ z[3] = 0
      BY <3>1, <3>2 DEF Place
    <3>4. At(z) = sending[p]
      BY <3>3 DEF At
    <3> QED BY <3>1, <3>2, <3>3, <3>4
  <2> QED BY <2>1
<1>6. ASSUME NEW z \in Here
      PROVE  InQueues(s, k) # {} \/ InThreads(s, k) # {} \/ InSupers(s, k) # {} \/ InTransit(s, k) # {}
  <2>1. z \in Place /\ Names(At(z), s, k)
    OBVIOUS
  <2>2. CASE z[1] = "queue" /\ z[2] \in Threads
    <3>1. At(z) = Nth(q[z[2]], z[3]) /\ q[z[2]] \in Seq(Request)
      BY <2>2 DEF At, QueueTypes
    <3>2. z[3] \in DOMAIN q[z[2]] /\ Names(q[z[2]][z[3]], s, k)
      BY <2>1, <3>1 DEF Nth, Names
    <3>3. <<z[2], z[3]>> \in InQueues(s, k)
      BY <2>2, <3>2 DEF InQueues
    <3> QED BY <3>3
  <2>3. CASE z[1] = "thread" /\ z[2] \in Threads
    <3>1. Busy(z[2]) /\ Names(req[z[2]], s, k)
      BY <2>1, <2>3 DEF At, Names
    <3> QED BY <2>3, <3>1 DEF InThreads
  <2>4. CASE z[1] = "super" /\ z[2] \in Supers
    <3>1. At(z) = Nth(super[z[2]], z[3]) /\ super[z[2]] \in Seq(Request)
      BY <2>4 DEF At, QueueTypes
    <3>2. z[3] \in DOMAIN super[z[2]] /\ Names(super[z[2]][z[3]], s, k)
      BY <2>1, <3>1 DEF Nth, Names
    <3>3. <<z[2], z[3]>> \in InSupers(s, k)
      BY <2>4, <3>2 DEF InSupers
    <3> QED BY <3>3
  <2>5. CASE z[1] = "sending" /\ z[2] \in Supers
    <3>1. Names(sending[z[2]], s, k)
      BY <2>1, <2>5 DEF At, Names
    <3> QED BY <2>5, <3>1 DEF InTransit
  <2> QED BY <2>1, <2>2, <2>3, <2>4, <2>5, PlaceFacts
<1>7. Here # {} <=> k \in Live(s)
  BY DEF Live
<1> HIDE DEF Here
<1>8. /\ \A x, y \in InQueues(s, k) : x = y
      /\ \A x, y \in InThreads(s, k) : x = y
      /\ \A x, y \in InSupers(s, k) : x = y
      /\ \A x, y \in InTransit(s, k) : x = y
  <2>1. \A x, y \in InQueues(s, k) : x = y
    <3>1. ASSUME NEW x \in InQueues(s, k), NEW y \in InQueues(s, k) PROVE x = y
      <4>1. <<"queue", x[1], x[2]>> = <<"queue", y[1], y[2]>>
        BY <1>1, <1>2
      <4> QED BY <1>2, <4>1
    <3> QED BY <3>1
  <2>2. \A x, y \in InSupers(s, k) : x = y
    <3>1. ASSUME NEW x \in InSupers(s, k), NEW y \in InSupers(s, k) PROVE x = y
      <4>1. <<"super", x[1], x[2]>> = <<"super", y[1], y[2]>>
        BY <1>1, <1>4
      <4> QED BY <1>4, <4>1
    <3> QED BY <3>1
  <2>3. \A x, y \in InThreads(s, k) : x = y
    BY <1>1, <1>3
  <2>4. \A x, y \in InTransit(s, k) : x = y
    BY <1>1, <1>5
  <2> QED BY <2>1, <2>2, <2>3, <2>4
<1>9. /\ InQueues(s, k) # {} => InThreads(s, k) = {} /\ InSupers(s, k) = {} /\ InTransit(s, k) = {}
      /\ InThreads(s, k) # {} => InSupers(s, k) = {} /\ InTransit(s, k) = {}
      /\ InSupers(s, k) # {} => InTransit(s, k) = {}
  <2>1. \A a, b, c, d :
          /\ <<"queue", a, b>> # <<"thread", c, d>> /\ <<"queue", a, b>> # <<"super", c, d>>
          /\ <<"queue", a, b>> # <<"sending", c, d>> /\ <<"thread", a, b>> # <<"super", c, d>>
          /\ <<"thread", a, b>> # <<"sending", c, d>> /\ <<"super", a, b>> # <<"sending", c, d>>
    OBVIOUS
  <2> QED BY <1>1, <1>2, <1>3, <1>4, <1>5, <2>1
<1>10. (InQueues(s, k) # {} \/ InThreads(s, k) # {} \/ InSupers(s, k) # {} \/ InTransit(s, k) # {})
         <=> k \in Live(s)
  BY <1>2, <1>3, <1>4, <1>5, <1>6, <1>7
<1>11. \A S \in {InQueues(s, k), InThreads(s, k), InSupers(s, k), InTransit(s, k)} :
          Cardinality(S) \in {0, 1} /\ (Cardinality(S) = 0 <=> S = {})
  BY <1>8, AtMostOne
<1> QED BY <1>9, <1>10, <1>11 DEF Places

(* However a word travels between the queues, the threads and the          *)
(* supernodes, from text to text and with calls failing, it is never in    *)
(* two places, so no two threads deliver it (super.cc:131-144,344-440,     *)
(* 684-697,810-821).                                                       *)
THEOREM NeverTwice == Spec => []OnePlace
<1>1. SoundInv /\ PlaceInv => OnePlace
  BY PlacesFacts DEF SoundInv, TypeOK, PlaceInv, OnePlace
<1> QED BY PlaceAlways, <1>1, PTL

-----------------------------------------------------------------------------
(* The words of supernode s given out, translated and nowhere any more. *)
Backed(s) == {k \in Index : /\ k < Len(Half(s))
                            /\ translated[s][k] = Half(s)[k + 1]
                            /\ k \notin Live(s)
                            /\ k < GivenOut(s)}

(* An answer in hand is an answer, one about to be counted is written, and *)
(* what is about to be stored in translate_size_super is not too much.     *)
BackedThread(t) ==
  /\ pc[t] \in Delivering => ans[t] # NoAnswer
  /\ pc[t] \in {"count", "load", "store"} =>
       translated[req[t].super][req[t].index] = req[t].word
  /\ pc[t] = "store" =>
       Cardinality(Ticks(req[t].super)) + tmp[t] <= Cardinality(Backed(req[t].super))

BackedInv ==
  FirstText => /\ \A t \in Threads : BackedThread(t)
               /\ \A s \in Supers : Counted(s) <= Cardinality(Backed(s))

LEMMA BackedFinite ==
  \A s \in Supers : /\ IsFiniteSet(Backed(s)) /\ Cardinality(Backed(s)) \in Nat
                    /\ IsFiniteSet(Backed(s)') /\ Cardinality(Backed(s)') \in Nat
<1>1. \A s \in Supers : Backed(s) \in SUBSET Index /\ Backed(s)' \in SUBSET Index
  BY DEF Backed
<1> QED BY <1>1, IndexFinite

LEMMA MoreBacked ==
  ASSUME NEW s \in Supers, Backed(s) \subseteq Backed(s)'
  PROVE  /\ Cardinality(Backed(s)) <= Cardinality(Backed(s)')
         /\ \A k \in Backed(s)' : k \notin Backed(s) =>
              Cardinality(Backed(s)) + 1 <= Cardinality(Backed(s)')
<1>1. /\ IsFiniteSet(Backed(s)) /\ Cardinality(Backed(s)) \in Nat
      /\ IsFiniteSet(Backed(s)') /\ Cardinality(Backed(s)') \in Nat
  BY BackedFinite
<1>2. Cardinality(Backed(s)) <= Cardinality(Backed(s)')
  <2>1. Backed(s) \in SUBSET (Backed(s)')
    OBVIOUS
  <2> QED BY <1>1, <2>1, FS_Subset
<1>3. ASSUME NEW k \in Backed(s)', k \notin Backed(s)
      PROVE  Cardinality(Backed(s)) + 1 <= Cardinality(Backed(s)')
  <2>1. /\ IsFiniteSet(Backed(s) \cup {k})
        /\ Cardinality(Backed(s) \cup {k}) = Cardinality(Backed(s)) + 1
    BY <1>1, <1>3, FS_AddElement
  <2>2. Backed(s) \cup {k} \in SUBSET (Backed(s)')
    BY <1>3
  <2>3. Cardinality(Backed(s) \cup {k}) <= Cardinality(Backed(s)')
    BY <1>1, <2>2, FS_Subset
  <2> QED BY <2>1, <2>3
<1> QED BY <1>2, <1>3

(* A step that counts nothing. *)
LEMMA BackedKept ==
  ASSUME CountTypes, ThreadTypes, QueuesGenuine, BackedInv, FirstText,
         UNCHANGED <<textVars, countVars>>,
         \A s \in Supers : Backed(s) \subseteq Backed(s)',
         \A t \in Threads :
           /\ pc'[t] \in Delivering => ans'[t] # NoAnswer
           /\ pc'[t] \in {"count", "load", "store"} =>
                translated'[req'[t].super][req'[t].index] = req'[t].word
           /\ pc'[t] = "store" =>
                /\ req'[t].super \in Supers
                /\ \/ tmp'[t] = superCount[req'[t].super]
                   \/ pc[t] = "store" /\ req'[t] = req[t] /\ tmp'[t] = tmp[t]
  PROVE  BackedInv'
<1>1. \A s \in Supers : Ticks(s)' = Ticks(s) /\ Counted(s)' = Counted(s)
  BY DEF Ticks, Counted, countVars
<1>2. \A s \in Supers : /\ Cardinality(Ticks(s)) \in Nat /\ superCount[s] \in Nat
                        /\ Cardinality(Backed(s)) \in Nat /\ Cardinality(Backed(s)') \in Nat
                        /\ Cardinality(Backed(s)) <= Cardinality(Backed(s)')
  BY TicksFinite, BackedFinite, MoreBacked DEF CountTypes
<1>3. \A s \in Supers : Counted(s) <= Cardinality(Backed(s))
  BY DEF BackedInv
<1>4. \A s \in Supers : Counted(s)' <= Cardinality(Backed(s))'
  BY <1>1, <1>2, <1>3 DEF Counted
<1>5. ASSUME NEW t \in Threads PROVE BackedThread(t)'
  <2>1. ASSUME pc'[t] = "store"
        PROVE  Cardinality(Ticks(req[t].super))' + tmp'[t] <= Cardinality(Backed(req[t].super))'
    <3>1. PICK s \in Supers : s = req'[t].super
      BY <2>1
    <3>2. Cardinality(Ticks(s)) + tmp'[t] <= Cardinality(Backed(s))
      <4>1. CASE tmp'[t] = superCount[s]
        BY <1>3, <4>1 DEF Counted
      <4>2. CASE pc[t] = "store" /\ req'[t] = req[t] /\ tmp'[t] = tmp[t]
        BY <3>1, <4>2 DEF BackedInv, BackedThread
      <4> QED BY <2>1, <3>1, <4>1, <4>2
    <3>3. tmp'[t] \in Nat
      BY <1>2, <2>1, <3>1 DEF ThreadTypes
    <3>4. Cardinality(Ticks(s)') + tmp'[t] <= Cardinality(Backed(s)')
      BY <1>1, <1>2, <3>2, <3>3
    <3>5. Ticks(req[t].super)' = Ticks(s)' /\ Backed(req[t].super)' = Backed(s)'
      BY <3>1 DEF Ticks, Backed, Half, Live, GivenOut
    <3> QED BY <3>4, <3>5
  <2> QED BY <2>1 DEF BackedThread
<1> QED BY <1>4, <1>5 DEF BackedInv

(* A step that counts one word, which is settled by it. *)
LEMMA BackedOne ==
  ASSUME CountTypes, ThreadTypes, QueuesGenuine, BackedInv, FirstText, UNCHANGED textVars,
         \A s \in Supers : Backed(s) \subseteq Backed(s)',
         NEW p \in Supers, NEW k \in Backed(p)', k \notin Backed(p),
         \A t \in Threads :
           /\ pc'[t] \in Delivering => ans'[t] # NoAnswer
           /\ pc'[t] \in {"count", "load", "store"} =>
                translated'[req'[t].super][req'[t].index] = req'[t].word
           /\ pc'[t] = "store" =>
                req'[t].super \in Supers /\ pc[t] = "store" /\ req'[t] = req[t] /\ tmp'[t] = tmp[t],
         \A s \in Supers \ {p} : Ticks(s)' = Ticks(s) /\ superCount'[s] = superCount[s],
         \/ /\ superCount'[p] = superCount[p]
            /\ Cardinality(Ticks(p)') \in Nat
            /\ Cardinality(Ticks(p)') <= Cardinality(Ticks(p)) + 1
         \/ /\ Ticks(p)' = Ticks(p)
            /\ \E t \in Threads : /\ pc[t] = "store" /\ req[t].super = p
                                  /\ superCount'[p] = tmp[t] + 1
  PROVE  BackedInv'
<1>1. \A s \in Supers : /\ Cardinality(Ticks(s)) \in Nat /\ superCount[s] \in Nat
                        /\ Cardinality(Backed(s)) \in Nat /\ Cardinality(Backed(s)') \in Nat
                        /\ Cardinality(Backed(s)) <= Cardinality(Backed(s)')
  BY TicksFinite, BackedFinite, MoreBacked DEF CountTypes
<1>2. Cardinality(Backed(p)) + 1 <= Cardinality(Backed(p)')
  BY MoreBacked
<1>3. /\ \A s \in Supers : Cardinality(Ticks(s)) + superCount[s] <= Cardinality(Backed(s))
      /\ \A t \in Threads : pc[t] = "store" =>
           /\ tmp[t] \in Nat
           /\ Cardinality(Ticks(req[t].super)) + tmp[t] <= Cardinality(Backed(req[t].super))
  BY DEF BackedInv, BackedThread, Counted, ThreadTypes
<1>4. ASSUME NEW s \in Supers
      PROVE  Cardinality(Ticks(s)') + superCount'[s] <= Cardinality(Backed(s)')
  <2>1. CASE s # p
    BY <1>1, <1>3, <2>1
  <2>2. CASE s = p /\ superCount'[p] = superCount[p] /\ Cardinality(Ticks(p)') \in Nat
             /\ Cardinality(Ticks(p)') <= Cardinality(Ticks(p)) + 1
    BY <1>1, <1>2, <1>3, <2>2
  <2>3. ASSUME s = p, Ticks(p)' = Ticks(p), NEW t \in Threads,
               pc[t] = "store", req[t].super = p, superCount'[p] = tmp[t] + 1
        PROVE  Cardinality(Ticks(s)') + superCount'[s] <= Cardinality(Backed(s)')
    <3>1. tmp[t] \in Nat /\ Cardinality(Ticks(p)) + tmp[t] <= Cardinality(Backed(p))
      BY <1>3, <2>3
    <3> QED BY <1>1, <1>2, <2>3, <3>1
  <2> QED BY <2>1, <2>2, <2>3
<1>5. ASSUME NEW t \in Threads PROVE BackedThread(t)'
  <2>1. ASSUME pc'[t] = "store"
        PROVE  Cardinality(Ticks(req[t].super))' + tmp'[t] <= Cardinality(Backed(req[t].super))'
    <3>1. PICK s \in Supers : s = req[t].super /\ s = req'[t].super
      BY <2>1
    <3>2. tmp[t] \in Nat /\ tmp'[t] = tmp[t] /\ Cardinality(Ticks(s)) + tmp[t] <= Cardinality(Backed(s))
      BY <1>3, <2>1, <3>1
    <3>3. Cardinality(Ticks(s)') + tmp'[t] <= Cardinality(Backed(s)')
      <4>1. CASE s # p
        BY <1>1, <3>2, <4>1
      <4>2. CASE s = p
        BY <1>1, <1>2, <3>2, <4>2
      <4> QED BY <4>1, <4>2
    <3>4. Ticks(req[t].super)' = Ticks(s)' /\ Backed(req[t].super)' = Backed(s)'
      BY <3>1 DEF Ticks, Backed, Half, Live, GivenOut
    <3> QED BY <3>3, <3>4
  <2> QED BY <2>1 DEF BackedThread
<1> QED BY <1>4, <1>5 DEF BackedInv, Counted

(* Two threads have no word in common. *)
LEMMA ThreadsApart ==
  ASSUME Distinct, NEW t \in Threads, NEW u \in Threads, t # u, Busy(t), Busy(u),
         Genuine(req[t]), Genuine(req[u])
  PROVE  req[t].super # req[u].super \/ req[t].index # req[u].index
<1>1. PICK x, y : x = <<"thread", t, 0>> /\ y = <<"thread", u, 0>>
  OBVIOUS
<1>2. /\ x \in Place /\ x[1] = "thread" /\ x[2] = t /\ x[3] = 0
      /\ y \in Place /\ y[1] = "thread" /\ y[2] = u /\ y[3] = 0
  BY <1>1 DEF Place
<1>3. At(x) = req[t] /\ At(y) = req[u] /\ req[t] # NoReq /\ req[u] # NoReq
  BY <1>2, GenuineFacts DEF At
<1> QED BY <1>2, <1>3 DEF Distinct, SameWord

LEMMA ChildBacked ==
  ASSUME Faults = {}, SoundInv, SoundInv', PlaceInv, BackedInv, FirstText,
         NEW t \in Threads, ChildThread(t)
  PROVE  BackedInv'
<1>1. /\ CountTypes /\ ThreadTypes /\ ThreadTypes' /\ TableTypes /\ QueuesGenuine
      /\ DriverTypes /\ TypeOK
      /\ \A u \in Threads : GenuineThread(u) /\ GenuineThread(u)'
      /\ FirstText' /\ UNCHANGED textVars
  <2>1. UNCHANGED textVars
    BY DEF ChildThread, Take, Ask, GiveUpOwn, GiveUpForeign, Consult, Move, Escalate, WriteOwn,
       CountOwn, Memo, WriteRemote, LoseAnswer, LoadCount, StoreCount, MemoRemote, driverVars
  <2> QED BY <2>1, SameText DEF SoundInv, TypeOK, ThreadsGenuine
<1>2. t[1] \in Supers /\ t[2] \in Children(t[1]) /\ t = <<t[1], t[2]>>
  BY ThreadFacts DEF Threads
<1>3. \A u \in Threads : Busy(u) =>
         /\ Genuine(req[u]) /\ req[u].super \in Supers /\ req[u].index \in Index
         /\ req[u].word \in Word /\ req[u].index \in Live(req[u].super)
  BY <1>1, BusyLive, GenuineFacts DEF GenuineThread, Busy
<1>4. \A s \in Supers : Live(s)' \subseteq Live(s)
  BY ChildPlaces DEF PlaceInv
<1>5. \A s \in Supers, k \in Index : translated'[s][k] # translated[s][k] =>
        /\ pc[t] = "deliver" /\ pc'[t] \in {"count", "load"} /\ req'[t] = req[t]
        /\ req[t].super = s /\ req[t].index = k
  <2>1. CASE WriteOwn(t)
    BY <1>1, <1>2, <2>1 DEF WriteOwn, Own, Goto, ThreadTypes, TableTypes
  <2>2. CASE WriteRemote(t)
    <3>1. ResIndex(t) = req[t].index
      BY <2>2 DEF WriteRemote, ResIndex, BackedInv, BackedThread, Delivering
    <3>2. Peer(t[1]) = req[t].super
      BY <1>2, <1>3, <2>2, ThreadFacts DEF WriteRemote, Own, Busy
    <3> QED BY <1>1, <1>2, <2>2, <3>1, <3>2 DEF WriteRemote, Goto, ThreadTypes, TableTypes
  <2>3. CASE ~WriteOwn(t) /\ ~WriteRemote(t)
    BY <2>3 DEF ChildThread, Take, Ask, GiveUpOwn, GiveUpForeign, Consult, Move, Escalate,
       CountOwn, Memo, LoseAnswer, LoadCount, StoreCount, MemoRemote, tableVars
  <2> QED BY <2>1, <2>2, <2>3
<1>6. /\ UNCHANGED cnt
      /\ \A s \in Supers : \/ phase'[s] = phase[s]
                           \/ phase[s] = "pushing" /\ phase'[s] = "overwritten"
  <2>1. CASE Move(t)
    <3>1. LockedPush(NextChild(t), req[t]) /\ NextChild(t) \in Threads /\ Genuine(req[t])
      BY <1>3, <2>1, ThreadFacts DEF Move, Busy
    <3>2. PICK u, r : u \in Threads /\ u = NextChild(t) /\ r = req[t]
      BY <3>1
    <3> QED BY <1>1, <2>1, <3>1, <3>2, LockedPushFacts DEF Move
  <2>2. CASE ~Move(t)
    BY <2>2 DEF ChildThread, Take, Ask, GiveUpOwn, GiveUpForeign, Consult, Escalate, WriteOwn,
       CountOwn, Memo, WriteRemote, LoseAnswer, LoadCount, StoreCount, MemoRemote, driverVars
  <2> QED BY <2>1, <2>2
<1>7. ASSUME NEW s \in Supers PROVE Backed(s) \subseteq Backed(s)'
  <2>1. ASSUME NEW k \in Backed(s) PROVE k \in Backed(s)'
    <3>1. k \in Index /\ k < Len(Half(s)) /\ translated[s][k] = Half(s)[k + 1]
          /\ k \notin Live(s) /\ k < GivenOut(s)
      BY DEF Backed
    <3>2. translated'[s][k] = translated[s][k]
      BY <1>3, <1>5, <3>1 DEF Busy
    <3>3. GivenOut(s)' = GivenOut(s)
      BY <1>6 DEF GivenOut
    <3>4. Half(s)' = Half(s)
      BY <1>1, SameText
    <3> QED BY <1>4, <3>1, <3>2, <3>3, <3>4 DEF Backed
  <2> QED BY <2>1
<1>8. ASSUME NEW u \in Threads
      PROVE  /\ pc'[u] \in Delivering => ans'[u] # NoAnswer
             /\ pc'[u] \in {"count", "load", "store"} =>
                  translated'[req'[u].super][req'[u].index] = req'[u].word
             /\ pc'[u] = "store" =>
                  /\ req'[u].super \in Supers
                  /\ \/ LoadCount(t) /\ u = t /\ tmp'[u] = superCount[req'[u].super]
                     \/ pc[u] = "store" /\ req'[u] = req[u] /\ tmp'[u] = tmp[u]
  <2>1. CASE u # t
    <3>1. pc'[u] = pc[u] /\ req'[u] = req[u] /\ ans'[u] = ans[u] /\ tmp'[u] = tmp[u]
      BY <1>1, <2>1 DEF ChildThread, Take, Ask, GiveUpOwn, GiveUpForeign, Consult, Move,
         Escalate, WriteOwn,
         CountOwn, Memo, WriteRemote, LoseAnswer, LoadCount, StoreCount, MemoRemote, Idle,
         Goto, ThreadTypes
    <3>2. ASSUME pc[u] \in {"count", "load", "store"}
          PROVE  translated'[req[u].super][req[u].index] = translated[req[u].super][req[u].index]
      <4>1. Busy(u) /\ Genuine(req[u]) /\ req[u].super \in Supers /\ req[u].index \in Index
        BY <1>3, <3>2 DEF Busy
      <4>2. ASSUME translated'[req[u].super][req[u].index] # translated[req[u].super][req[u].index]
            PROVE  FALSE
        <5>1. Busy(t) /\ req[t].super = req[u].super /\ req[t].index = req[u].index
          BY <1>5, <4>1, <4>2 DEF Busy
        <5> QED BY <1>3, <2>1, <4>1, <5>1, ThreadsApart DEF PlaceInv
      <4> QED BY <4>2
    <3>3. pc[u] = "store" => req[u].super \in Supers
      BY <1>3 DEF Busy
    <3> QED BY <3>1, <3>2, <3>3 DEF BackedInv, BackedThread
  <2>2. CASE u = t
    <3>1. pc'[t] \in Delivering => ans'[t] # NoAnswer
      <4>1. CASE Ask(t)
        <5>1. req[t].word # NoAnswer /\ Miss # NoAnswer
          BY <1>3, <4>1, TranslatorAssumption DEF Ask, Busy
        <5>2. PICK a \in {ChildAnswer(t, req[t].word)} : ans' = [ans EXCEPT ![t] = a]
          BY <4>1 DEF Ask
        <5> QED BY <1>1, <5>1, <5>2 DEF ChildAnswer, ThreadTypes
      <4>2. CASE ~Ask(t)
        BY <1>1, <4>2 DEF BackedInv, BackedThread, ChildThread, Take, GiveUpOwn, GiveUpForeign,
           Consult, Move,
           Escalate, WriteOwn, CountOwn, Memo, WriteRemote, LoseAnswer, LoadCount, StoreCount,
           MemoRemote,
           Idle, Goto, ThreadTypes, Delivering
      <4> QED BY <4>1, <4>2
    <3>2. pc'[t] \in {"count", "load", "store"} =>
            translated'[req'[t].super][req'[t].index] = req'[t].word
      <4>1. CASE WriteOwn(t) \/ WriteRemote(t)
        <5>1. pc[t] = "deliver" /\ Busy(t) /\ req'[t] = req[t] /\ ans[t] # NoAnswer
          BY <4>1 DEF WriteOwn, WriteRemote, Busy, BackedInv, BackedThread, Delivering
        <5>2. ans[t] = req[t].word
          BY <1>1, <5>1 DEF GenuineThread, AnswerFor, Delivering
        <5>3. CASE WriteOwn(t)
          BY <1>1, <1>2, <1>3, <5>1, <5>2, <5>3 DEF WriteOwn, Own, TableTypes
        <5>4. CASE WriteRemote(t)
          <6>1. ResIndex(t) = req[t].index
            BY <5>1 DEF ResIndex
          <6>2. Peer(t[1]) = req[t].super
            BY <1>2, <1>3, <5>1, <5>4, ThreadFacts DEF WriteRemote, Own
          <6> QED BY <1>1, <1>3, <5>1, <5>2, <5>4, <6>1, <6>2 DEF WriteRemote, TableTypes
        <5> QED BY <4>1, <5>3, <5>4
      <4>2. CASE ~WriteOwn(t) /\ ~WriteRemote(t)
        BY <1>1, <4>2 DEF BackedInv, BackedThread, ChildThread, Take, Ask, GiveUpOwn,
           GiveUpForeign, Consult,
           Move, Escalate, CountOwn, Memo, LoseAnswer, LoadCount, StoreCount, MemoRemote,
           Idle, Goto, ThreadTypes, tableVars
      <4> QED BY <4>1, <4>2
    <3>3. ASSUME pc'[t] = "store" PROVE LoadCount(t)
      BY <1>1, <3>3 DEF ChildThread, Take, Ask, GiveUpOwn, GiveUpForeign, Consult, Move,
         Escalate, WriteOwn,
         CountOwn, Memo, WriteRemote, LoseAnswer, LoadCount, StoreCount, MemoRemote, Idle,
         Goto, ThreadTypes
    <3>4. ASSUME LoadCount(t) PROVE req'[t].super \in Supers /\ tmp'[t] = superCount[req'[t].super]
      <4>1. req'[t] = req[t] /\ tmp'[t] = superCount[Peer(t[1])] /\ Busy(t) /\ req[t].super # t[1]
        BY <1>1, <3>4 DEF LoadCount, ThreadTypes, Busy, GenuineThread, Own
      <4>2. req[t].super = Peer(t[1])
        BY <1>2, <1>3, <4>1, ThreadFacts
      <4> QED BY <1>2, <4>1, <4>2, ThreadFacts
    <3> QED BY <2>2, <3>1, <3>2, <3>3, <3>4
  <2> QED BY <2>1, <2>2
<1>9. CASE ~CountOwn(t) /\ ~StoreCount(t)
  <2>1. UNCHANGED countVars
    BY <1>9 DEF ChildThread, Take, Ask, GiveUpOwn, GiveUpForeign, Consult, Move, Escalate,
       WriteOwn,
       Memo, WriteRemote, LoseAnswer, LoadCount, MemoRemote
  <2> QED BY <1>1, <1>7, <1>8, <2>1, BackedKept
<1>10. ASSUME NEW s \in Supers,
              (CountOwn(t) /\ s = t[1]) \/ (StoreCount(t) /\ s = Peer(t[1]))
       PROVE  \E k \in Backed(s)' : k \notin Backed(s)
  <2>1. /\ Busy(t) /\ ~Busy(t)' /\ pc[t] \in {"count", "store"}
        /\ UNCHANGED <<q, super, sending, translated>>
        /\ \A u \in Threads : Busy(u)' => Busy(u) /\ req'[u] = req[u]
    BY <1>1, <1>10 DEF CountOwn, StoreCount, Idle, Goto, Busy, ThreadTypes, queueVars, tableVars
  <2>2. req[t].super = s
    <3>1. CountOwn(t) => req[t].super = t[1]
      BY <1>1 DEF CountOwn, GenuineThread, Own
    <3>2. StoreCount(t) => req[t].super # t[1]
      BY <1>1 DEF StoreCount, GenuineThread, Own
    <3> QED BY <1>2, <1>3, <1>10, <2>1, <3>1, <3>2, ThreadFacts
  <2>3. PICK k \in Live(s) : k = req[t].index
    BY <1>3, <2>1, <2>2
  <2>4. k \in Index /\ Names(req[t], s, k)
    BY <1>3, <2>1, <2>2, <2>3, GenuineFacts DEF Names
  <2>5. k \notin Live(s)'
    BY <2>1, <2>4, LetGo DEF PlaceInv
  <2>6. k < GivenOut(s)' /\ k < GivenOut(s)
    <3>1. k < GivenOut(s)
      BY DEF PlaceInv, CountsIn
    <3>2. GivenOut(s)' = GivenOut(s)
      BY <1>6 DEF GivenOut
    <3> QED BY <3>1, <3>2
  <2>7. k < Len(Half(s)) /\ translated[s][k] = Half(s)[k + 1]
    BY <1>3, <2>1, <2>2, <2>3 DEF BackedInv, BackedThread, Genuine
  <2>8. k \in Backed(s)'
    BY <1>1, <2>1, <2>4, <2>5, <2>6, <2>7, SameText DEF Backed
  <2> QED BY <2>8 DEF Backed
<1>11. CASE CountOwn(t)
  <2>1. PICK s \in Supers : s = t[1]
    BY <1>2
  <2>2. PICK k \in Backed(s)' : k \notin Backed(s)
    BY <1>10, <1>11, <2>1
  <2>3. superCount' = superCount /\ ~LoadCount(t)
    BY <1>11 DEF CountOwn, LoadCount
  <2>4. /\ Cardinality(Ticks(s)') \in Nat /\ Cardinality(Ticks(s)') <= Cardinality(Ticks(s)) + 1
        /\ \A p \in Supers \ {s} : Ticks(p)' = Ticks(p)
    BY <1>1, <1>11, <2>1, TicksCount
  <2> QED BY <1>1, <1>7, <1>8, <2>2, <2>3, <2>4, BackedOne
<1>12. CASE StoreCount(t)
  <2>1. PICK s \in Supers : s = Peer(t[1])
    BY <1>2, ThreadFacts
  <2>2. PICK k \in Backed(s)' : k \notin Backed(s)
    BY <1>10, <1>12, <2>1
  <2>3. /\ \A p \in Supers : Ticks(p)' = Ticks(p)
        /\ \A p \in Supers \ {s} : superCount'[p] = superCount[p]
        /\ superCount'[s] = tmp[t] + 1 /\ pc[t] = "store" /\ ~LoadCount(t)
    BY <1>1, <1>12, <2>1 DEF StoreCount, LoadCount, Ticks, CountTypes
  <2>4. req[t].super = s
    BY <1>1, <1>2, <1>3, <2>1, <2>3, ThreadFacts DEF GenuineThread, Own, Busy
  <2> QED BY <1>1, <1>7, <1>8, <2>2, <2>3, <2>4, BackedOne
<1> QED BY <1>9, <1>11, <1>12

LEMMA BackedGrows ==
  ASSUME UNCHANGED <<textVars, translated>>, NEW s \in Supers,
         GivenOut(s) \in Nat, GivenOut(s)' \in Nat, GivenOut(s) <= GivenOut(s)',
         Live(s)' \subseteq Live(s) \cup {GivenOut(s)}
  PROVE  Backed(s) \subseteq Backed(s)'
<1>1. Half(s)' = Half(s)
  BY SameText
<1>2. ASSUME NEW k \in Backed(s) PROVE k \in Backed(s)'
  <2>1. k \in Index /\ k < Len(Half(s)) /\ translated[s][k] = Half(s)[k + 1]
        /\ k \notin Live(s) /\ k < GivenOut(s) /\ k \in Nat
    BY DEF Backed, Index
  <2>2. k \notin Live(s)' /\ k < GivenOut(s)'
    BY <2>1
  <2> QED BY <1>1, <2>1, <2>2 DEF Backed
<1> QED BY <1>2

LEMMA SuperBacked ==
  ASSUME SoundInv, PlaceInv, BackedInv, FirstText, NEW p \in Supers, SuperThread(p)
  PROVE  BackedInv'
<1>1. CountTypes /\ ThreadTypes /\ DriverTypes /\ QueuesGenuine /\ ThreadsGenuine
  BY DEF SoundInv, TypeOK
<1>2. \A s \in Supers : Live(s)' \subseteq Live(s)
  BY SuperPlaces DEF PlaceInv
<1>3. UNCHANGED <<textVars, cnt, threadVars, countVars, translated>>
  BY DEF SuperThread, PickWord, SendWord, LoseWord, driverVars, tableVars
<1>4. \A s \in Supers : phase'[s] = "file" <=> phase[s] = "file"
  <2>1. CASE SendWord(p)
    <3>1. PICK u : u = <<Peer(p), ran[Peer(p)]>>
      OBVIOUS
    <3>2. PICK r : r = [sending[p] EXCEPT !.start = ran[Peer(p)]]
      OBVIOUS
    <3>3. LockedPush(u, r)
      BY <2>1, <3>1, <3>2 DEF SendWord
    <3>4. u[1] \in Supers
      BY <3>1, ThreadFacts
    <3> QED BY <1>1, <3>3, <3>4 DEF LockedPush, Collides, DriverTypes
  <2>2. CASE ~SendWord(p)
    BY <2>2 DEF SuperThread, PickWord, LoseWord, driverVars
  <2> QED BY <2>1, <2>2
<1>5. \A s \in Supers : Backed(s) \subseteq Backed(s)'
  <2>1. \A s \in Supers : GivenOut(s)' = GivenOut(s) /\ GivenOut(s) \in Nat
    BY <1>1, <1>3, <1>4 DEF GivenOut, DriverTypes
  <2> QED BY <1>2, <1>3, <2>1, BackedGrows
<1>6. \A t \in Threads : pc[t] = "store" => req[t].super \in Supers
  BY <1>1, GenuineFacts DEF ThreadsGenuine, GenuineThread
<1> QED BY <1>1, <1>3, <1>5, <1>6, BackedKept DEF threadVars, BackedInv, BackedThread

LEMMA DriverBacked ==
  ASSUME SoundInv, SoundInv', PlaceInv, BackedInv, FirstText, NEW p \in Supers, Driver(p)
  PROVE  BackedInv'
<1>1. /\ CountTypes /\ CountTypes' /\ ThreadTypes /\ DriverTypes /\ QueuesGenuine /\ ThreadsGenuine
      /\ DriversInOrder
  BY DEF SoundInv, TypeOK
<1>2. \A s \in Supers : Live(s)' \subseteq
        IF s = p /\ EndPush(p) /\ phase[p] = "pushing" THEN Live(s) \cup {cnt[s]} ELSE Live(s)
  BY DriverPlaces DEF PlaceInv
<1>3. UNCHANGED <<textVars, threadVars, translated>>
  BY DEF Driver, BeginPush, EndPush, FileWord, Assemble, SendResult, Reply, Reset, tableVars
<1>4. \A s \in Supers : GivenOut(s) \in Nat /\ GivenOut(s)' \in Nat /\ GivenOut(s) <= GivenOut(s)'
  BY <1>1 DEF Driver, BeginPush, EndPush, FileWord, Assemble, SendResult, Reply, Reset,
     GivenOut, DriverTypes
<1>5. ASSUME NEW s \in Supers PROVE Backed(s) \subseteq Backed(s)'
  <2>1. Live(s)' \subseteq Live(s) \cup {GivenOut(s)}
    BY <1>2 DEF GivenOut
  <2> QED BY <1>3, <1>4, <2>1, BackedGrows
<1>6. \A t \in Threads : pc[t] = "store" => req[t].super \in Supers
  BY <1>1, GenuineFacts DEF ThreadsGenuine, GenuineThread
<1>7. CASE ~Reset(p)
  <2>1. UNCHANGED countVars
    BY <1>7 DEF Driver, BeginPush, EndPush, FileWord, Assemble, SendResult, Reply
  <2> QED BY <1>1, <1>3, <1>5, <1>6, <2>1, BackedKept DEF threadVars, BackedInv, BackedThread
<1>8. CASE Reset(p)
  <2>1. \A s \in Supers : Cardinality(Backed(s)) \in Nat /\ Cardinality(Backed(s)') \in Nat
                          /\ Cardinality(Backed(s)) <= Cardinality(Backed(s)')
    BY <1>5, BackedFinite, MoreBacked
  <2>2. \A s \in Supers \ {p} : Ticks(s)' = Ticks(s) /\ superCount'[s] = superCount[s]
    <3>1. ASSUME NEW s \in Supers \ {p}, NEW i \in Children(s)
          PROVE  childCount'[<<s, i>>] = childCount[<<s, i>>]
      <4>1. <<s, i>> \in Threads /\ <<s, i>>[1] # p
        BY <3>1, ThreadFacts
      <4> QED BY <1>8, <4>1 DEF Reset
    <3>2. \A s \in Supers \ {p} : Ticks(s)' = Ticks(s)
      BY <3>1 DEF Ticks
    <3> QED BY <1>1, <1>8, <3>2 DEF Reset, CountTypes
  <2>3. Cardinality(Ticks(p)') = 0 /\ superCount'[p] = 0
    <3>1. ASSUME NEW i \in Children(p) PROVE childCount'[<<p, i>>] = 0
      <4>1. <<p, i>> \in Threads /\ <<p, i>>[1] = p
        BY <3>1, ThreadFacts
      <4> QED BY <1>8, <4>1 DEF Reset
    <3>2. Ticks(p)' = {}
      <4>1. \A j : j \notin 1 .. 0
        OBVIOUS
      <4>2. ASSUME NEW i \in Children(p) PROVE {i} \X (1 .. childCount'[<<p, i>>]) = {}
        BY <3>1, <4>1
      <4> QED BY <4>2 DEF Ticks
    <3> QED BY <1>1, <1>8, <3>2, FS_EmptySet DEF Reset, CountTypes
  <2>4. \A s \in Supers : Counted(s)' <= Cardinality(Backed(s))'
    <3>1. \A s \in Supers : Cardinality(Ticks(s)) + superCount[s] <= Cardinality(Backed(s))
      BY DEF BackedInv, Counted
    <3>2. \A s \in Supers : Cardinality(Ticks(s)) \in Nat /\ superCount[s] \in Nat
      BY <1>1, TicksFinite DEF CountTypes
    <3>3. ASSUME NEW s \in Supers
          PROVE  Cardinality(Ticks(s)') + superCount'[s] <= Cardinality(Backed(s)')
      <4>1. CASE s = p
        BY <2>1, <2>3, <4>1
      <4>2. CASE s # p
        BY <2>1, <2>2, <3>1, <3>2, <4>2
      <4> QED BY <4>1, <4>2
    <3> QED BY <3>3 DEF Counted
  <2>5. ASSUME NEW t \in Threads PROVE BackedThread(t)'
    <3>1. /\ pc'[t] = pc[t] /\ req'[t] = req[t] /\ ans'[t] = ans[t] /\ tmp'[t] = tmp[t]
          /\ translated' = translated
      BY <1>3 DEF threadVars
    <3>2. ASSUME pc[t] = "store"
          PROVE  Cardinality(Ticks(req[t].super))' + tmp'[t] <= Cardinality(Backed(req[t].super))'
      <4>1. PICK s \in Supers : s = req[t].super
        BY <1>6, <3>2
      <4>2. s # p
        <5>1. Busy(t) /\ Genuine(req[t])
          BY <1>1, <3>2 DEF ThreadsGenuine, GenuineThread, Busy
        <5>2. Live(s) # {}
          BY <4>1, <5>1, BusyLive
        <5> QED BY <1>8, <5>2 DEF Reset, PlaceInv, CountsIn, Dealing
      <4>3. Cardinality(Ticks(s)) + tmp[t] <= Cardinality(Backed(s))
        BY <3>2, <4>1 DEF BackedInv, BackedThread
      <4>4. tmp[t] \in Nat /\ Cardinality(Ticks(s)) \in Nat
        BY <1>1, TicksFinite DEF ThreadTypes
      <4>5. Cardinality(Ticks(s)') + tmp'[t] <= Cardinality(Backed(s)')
        BY <2>1, <2>2, <3>1, <4>2, <4>3, <4>4
      <4>6. Ticks(req[t].super)' = Ticks(s)' /\ Backed(req[t].super)' = Backed(s)'
        BY <3>1, <4>1 DEF Ticks, Backed, Half, Live, GivenOut
      <4> QED BY <4>5, <4>6
    <3> QED BY <3>1, <3>2 DEF BackedInv, BackedThread
  <2> QED BY <2>4, <2>5 DEF BackedInv
<1> QED BY <1>7, <1>8

(* Before the first text nothing is counted and no thread has a word. *)
LEMMA AcceptBacked ==
  ASSUME SoundInv, PlaceInv, NEW txt \in Texts, Accept(txt)
  PROVE  BackedInv'
<1> SUFFICES ASSUME FirstText' PROVE BackedInv'
  BY DEF BackedInv
<1>1. /\ CountTypes /\ text = NoText
      /\ UNCHANGED <<pc, childCount, superCount>> /\ \A s \in Supers : phase[s] = "idle"
  BY DEF SoundInv, TypeOK, DriverTypes, DriversInOrder, FirstText, Accept, threadVars,
     countVars, Supers
<1>2. \A t \in Threads : pc'[t] = "idle"
  <2>1. FirstText
    BY DEF FirstText, SoundInv, TypeOK, DriverTypes, Accept
  <2> QED BY <1>1, <2>1 DEF SoundInv, ThreadsGenuine, GenuineThread, Genuine
<1>3. \A t \in Threads : BackedThread(t)'
  BY <1>2 DEF BackedThread, Delivering
<1>4. ASSUME NEW s \in Supers PROVE Counted(s)' <= Cardinality(Backed(s))'
  <2>1. superCount[s] = 0 /\ \A i \in Children(s) : childCount[<<s, i>>] = 0
    BY <1>1 DEF PlaceInv, CountsIn
  <2>2. Cardinality(Ticks(s)') = 0 /\ superCount'[s] = 0
    <3>1. Ticks(s)' = Ticks(s) /\ Cardinality(Ticks(s)) = 0
      BY <1>1, <2>1, TicksFinite DEF Ticks
    <3> QED BY <1>1, <2>1, <3>1
  <2>3. Cardinality(Backed(s)') \in Nat
    BY BackedFinite
  <2> QED BY <2>2, <2>3 DEF Counted
<1> QED BY <1>3, <1>4 DEF BackedInv

LEMMA BackedInit == Init => BackedInv
<1> SUFFICES ASSUME Init PROVE BackedInv
  OBVIOUS
<1>1. \A t \in Threads : BackedThread(t)
  BY DEF Init, BackedThread, Delivering
<1>2. ASSUME NEW s \in Supers PROVE Counted(s) <= Cardinality(Backed(s))
  <2>1. CountTypes /\ superCount[s] = 0 /\ \A i \in Children(s) : childCount[<<s, i>>] = 0
    BY SoundInit, ThreadFacts DEF SoundInv, TypeOK, Init
  <2>2. Cardinality(Ticks(s)) = 0 /\ Cardinality(Backed(s)) \in Nat
    BY <2>1, TicksFinite, BackedFinite
  <2> QED BY <2>1, <2>2 DEF Counted
<1> QED BY <1>1, <1>2 DEF BackedInv

LEMMA BackedStep ==
  ASSUME Faults = {}
  PROVE  SoundInv /\ SoundInv' /\ PlaceInv /\ BackedInv /\ [Next]_vars => BackedInv'
<1> SUFFICES ASSUME SoundInv, SoundInv', PlaceInv, BackedInv, [Next]_vars PROVE BackedInv'
  OBVIOUS
<1>1. ASSUME NEW txt \in Texts, Accept(txt) PROVE BackedInv'
  BY <1>1, AcceptBacked
<1>2. CASE UNCHANGED vars
  <2>1. UNCHANGED <<textVars, phase, cnt, q, super, sending, threadVars, translated, countVars>>
    BY <1>2 DEF vars, driverVars, queueVars, tableVars
  <2>2. \A s \in Supers : Ticks(s)' = Ticks(s) /\ Backed(s)' = Backed(s) /\ Counted(s)' = Counted(s)
    BY <2>1 DEF Ticks, Counted, Backed, Half, GivenOut, Live, At, Busy, Names, textVars,
       threadVars, countVars
  <2>3. \A t \in Threads : BackedThread(t)' <=> BackedThread(t)
    BY <2>1 DEF BackedThread, Ticks, Backed, Half, GivenOut, Live, At, Busy, Names, textVars,
       threadVars,
       countVars
  <2>4. FirstText' <=> FirstText
    BY <2>1 DEF FirstText, textVars
  <2> QED BY <2>2, <2>3, <2>4 DEF BackedInv
<1>3. CASE ~FirstText
  <2>1. ~FirstText'
    <3>1. jobs' \in {jobs, jobs + 1} /\ jobs \in Nat
      BY DEF SoundInv, TypeOK, DriverTypes, Next, vars, Accept, Driver, BeginPush, EndPush,
         FileWord, Assemble,
         SendResult, Reply, Reset, SuperThread, PickWord, SendWord, LoseWord,
         ChildThread, Take, Ask, GiveUpOwn, GiveUpForeign, Consult, Move, Escalate, WriteOwn,
         CountOwn, Memo, WriteRemote, LoseAnswer, LoadCount, StoreCount, MemoRemote,
         driverVars, textVars
    <3> QED BY <1>3, <3>1 DEF FirstText
  <2> QED BY <2>1 DEF BackedInv
<1>4. CASE FirstText
  <2>1. ASSUME NEW s \in Supers, Driver(s) PROVE BackedInv'
    BY <1>4, <2>1, DriverBacked
  <2>2. ASSUME NEW s \in Supers, SuperThread(s) PROVE BackedInv'
    BY <1>4, <2>2, SuperBacked
  <2>3. ASSUME NEW t \in Threads, ChildThread(t) PROVE BackedInv'
    BY <1>4, <2>3, ChildBacked
  <2> QED BY <1>1, <1>2, <2>1, <2>2, <2>3 DEF Next
<1> QED BY <1>3, <1>4

(* As long as no call fails and the first text is translated, the counters *)
(* the drivers wait on never run ahead of the words: each unit counted is  *)
(* a word whose translation is in the array and that is in no queue and no *)
(* thread any more (super.cc:146-158,396-400,711-717).                     *)
THEOREM NotAhead ==
  ASSUME Faults = {}
  PROVE  Spec => [](FirstText => CountsBacked)
<1>1. SoundInv /\ PlaceInv /\ BackedInv => (FirstText => CountsBacked)
  <2> SUFFICES ASSUME SoundInv, PlaceInv, BackedInv, FirstText, NEW s \in Supers
               PROVE  Counted(s) <= Cardinality(Settled(s))
    BY DEF CountsBacked
  <2>1. Backed(s) \subseteq Settled(s)
    BY PlacesFacts DEF Backed, Settled, PlaceInv, SoundInv, TypeOK
  <2>2. IsFiniteSet(Settled(s)) /\ Cardinality(Settled(s)) \in Nat
    <3>1. Settled(s) \in SUBSET Index
      BY DEF Settled
    <3> QED BY <3>1, IndexFinite
  <2>3. Cardinality(Backed(s)) <= Cardinality(Settled(s))
    <3>1. Backed(s) \in SUBSET Settled(s)
      BY <2>1
    <3> QED BY <2>2, <3>1, FS_Subset
  <2>4. Counted(s) <= Cardinality(Backed(s)) /\ Cardinality(Backed(s)) \in Nat
    BY BackedFinite DEF BackedInv
  <2>5. Counted(s) \in Nat
    BY TicksFinite DEF Counted, SoundInv, TypeOK, CountTypes
  <2> QED BY <2>2, <2>3, <2>4, <2>5
<1>2. SoundInv /\ SoundInv' /\ PlaceInv /\ BackedInv /\ [Next]_vars => BackedInv'
  BY BackedStep
<1>3. Spec => []BackedInv
  BY SoundInit, SoundStep, PlaceInit, PlaceStep, BackedInit, <1>2, PTL DEF Spec
<1> QED BY PlaceAlways, <1>1, <1>3, PTL

-----------------------------------------------------------------------------
(* What the drivers have put together and passed on of the first text when *)
(* no call fails: the halves themselves.                                   *)
ExactInv ==
  FirstText =>
    /\ \A s \in Supers : phase[s] \in {"join", "reset"} => result[s] = Half(s)
    /\ result2 # NoAnswer => result2 = Half(2)
    /\ phase[1] \in Dealing \cup {"join"} => reply = NoAnswer
    /\ text = NoText => reply = NoAnswer

(* No more texts come than MaxTexts. *)
Bounded == jobs <= MaxTexts

(* A driver that leaves its spin loop finds every word of its half.        *)
LEMMA AssembledWhole ==
  ASSUME SoundInv, BackedInv, FirstText, NEW s \in Supers, Assemble(s), NEW trailing \in BOOLEAN
  PROVE  Assembled(s, trailing) = Half(s)
<1> DEFINE n == Len(Half(s))
           body == [k \in 1 .. n |-> translated[s][k - 1]]
<1>1. n \in Index /\ n \in Nat /\ Half(s) \in Seq(Word) /\ NoAnswer \notin Word
  BY HalfFacts, TranslatorAssumption DEF SoundInv, TypeOK, Index
<1>2. translated[s][n] = NoAnswer
  BY <1>1 DEF SoundInv, TablesGenuine, Fits
<1>3. ASSUME NEW k \in 0 .. n - 1 PROVE translated[s][k] = Half(s)[k + 1]
  <2>1. Counted(s) = n
    <3>1. n # 0
      BY <1>1, <1>3
    <3> QED BY <1>1, <3>1 DEF Assemble
  <2>2. 0 \in Int /\ n - 1 \in Int /\ ~(0 > n - 1)
    BY <1>1, <1>3
  <2>3. IsFiniteSet(0 .. n - 1) /\ Cardinality(0 .. n - 1) = (n - 1) - 0 + 1
    BY <2>2, FS_Interval
  <2>4. Cardinality(0 .. n - 1) = n
    BY <1>1, <2>3
  <2>5. Backed(s) \in SUBSET (0 .. n - 1)
    BY <1>1 DEF Backed, Index
  <2>6. Cardinality(Backed(s)) <= n
    BY <2>3, <2>4, <2>5, FS_Subset
  <2>7. Cardinality(Backed(s)) = n
    BY <1>1, <2>1, <2>6, BackedFinite DEF BackedInv
  <2>8. Backed(s) = 0 .. n - 1
    BY <2>3, <2>4, <2>5, <2>7, FS_Subset
  <2> QED BY <2>8 DEF Backed
<1>4. body = Half(s)
  <2>1. Half(s) = [k \in 1 .. n |-> Half(s)[k]]
    BY <1>1
  <2>2. ASSUME NEW k \in 1 .. n PROVE translated[s][k - 1] = Half(s)[k]
    <3>1. k - 1 \in 0 .. n - 1 /\ (k - 1) + 1 = k
      BY <1>1
    <3> QED BY <1>3, <3>1
  <2> QED BY <2>1, <2>2
<1> QED BY <1>2, <1>4 DEF Assembled

LEMMA ExactStep ==
  ASSUME Faults = {}
  PROVE  SoundInv /\ ReplyInv /\ BackedInv /\ ExactInv /\ [Next]_vars => ExactInv'
<1> SUFFICES ASSUME SoundInv, ReplyInv, BackedInv, ExactInv, [Next]_vars, FirstText' PROVE ExactInv'
  BY DEF ExactInv
<1>1. /\ phase \in [Supers -> PhaseNames] /\ result \in [Supers -> Seq(Entry)] /\ jobs \in Nat
      /\ \A s \in Supers : phase[s] # "idle" => text # NoText
  BY DEF SoundInv, TypeOK, DriverTypes, ResultTypes, DriversInOrder, OrderOf
<1>2. ASSUME NEW txt \in Texts, Accept(txt) PROVE ExactInv'
  <2>1. /\ text' = txt /\ reply' = NoAnswer /\ result2' = result2
        /\ \A s \in Supers : phase'[s] \in {"idle", "deal"}
    BY <1>1, <1>2 DEF Accept
  <2>2. FirstText /\ text = NoText
    BY <1>1, <1>2 DEF Accept, FirstText, SoundInv, DriversInOrder
  <2>3. result2 = NoAnswer
    BY <2>2 DEF ReplyInv
  <2> QED BY <2>1, <2>3 DEF ExactInv
<1>3. ASSUME UNCHANGED <<textVars, resultVars>>,
             \A s \in Supers : \/ phase'[s] = phase[s]
                               \/ phase[s] \in Dealing /\ phase'[s] \in Dealing
      PROVE  ExactInv'
  <2>1. /\ text' = text /\ result' = result /\ result2' = result2 /\ reply' = reply /\ FirstText
        /\ \A s \in Supers : Half(s)' = Half(s)
    BY <1>3, SameText DEF textVars, resultVars
  <2>2. \A s \in Supers : phase'[s] \in {"join", "reset"} => phase[s] \in {"join", "reset"}
    BY <1>3 DEF Dealing
  <2>3. phase'[1] \in Dealing \cup {"join"} => phase[1] \in Dealing \cup {"join"}
    BY <1>3 DEF Dealing, Supers
  <2> QED BY <2>1, <2>2, <2>3 DEF ExactInv, Supers
<1>4. ASSUME NEW s \in Supers, Driver(s) PROVE ExactInv'
  <2>1. UNCHANGED textVars /\ text' = text /\ FirstText /\ \A p \in Supers : Half(p)' = Half(p)
    <3>1. UNCHANGED textVars
      BY <1>4 DEF Driver, BeginPush, EndPush, FileWord, Assemble, SendResult, Reply, Reset
    <3> QED BY <3>1, SameText DEF textVars
  <2>2. CASE BeginPush(s) \/ EndPush(s) \/ (s = 2 /\ FileWord)
    <3>1. UNCHANGED resultVars
      BY <2>2 DEF BeginPush, EndPush, FileWord
    <3>2. \A p \in Supers : \/ phase'[p] = phase[p]
                            \/ phase[p] \in Dealing /\ phase'[p] \in Dealing
      BY <1>1, <2>2 DEF BeginPush, EndPush, FileWord, Dealing
    <3> QED BY <1>3, <2>1, <3>1, <3>2
  <2>3. CASE Assemble(s)
    <3>1. PICK trailing \in BOOLEAN : result' = [result EXCEPT ![s] = Assembled(s, trailing)]
      BY <2>3 DEF Assemble
    <3>2. Assembled(s, trailing) = Half(s)
      BY <2>1, <2>3, AssembledWhole
    <3>3. /\ UNCHANGED <<result2, reply>> /\ phase[s] = "deal" /\ phase' = [phase EXCEPT ![s] = "join"]
          /\ \A p \in Supers : result'[p] = IF p = s THEN Half(s) ELSE result[p]
      BY <1>1, <2>3, <3>1, <3>2 DEF Assemble
    <3> QED BY <1>1, <2>1, <3>3 DEF ExactInv, Dealing, Supers
  <2>4. CASE s = 2 /\ SendResult
    <3>1. /\ UNCHANGED <<result, reply>> /\ result2' \in {NoAnswer, result[2]}
          /\ phase[2] = "join" /\ phase' = [phase EXCEPT ![2] = "reset"]
      BY <2>4 DEF SendResult
    <3> QED BY <1>1, <2>1, <3>1 DEF ExactInv, Dealing, Supers
  <2>5. CASE s = 1 /\ Reply
    <3>1. /\ UNCHANGED <<result, result2>> /\ phase[1] = "join" /\ phase' = [phase EXCEPT ![1] = "reset"]
      BY <2>5 DEF Reply
    <3> QED BY <1>1, <2>1, <3>1 DEF ExactInv, Dealing, Supers
  <2>6. CASE Reset(s)
    <3>1. /\ UNCHANGED <<result, reply>> /\ result2' \in {NoAnswer, result2}
          /\ phase[s] = "reset" /\ phase' = [phase EXCEPT ![s] = "idle"]
      BY <2>6 DEF Reset
    <3> QED BY <1>1, <2>1, <3>1 DEF ExactInv, Dealing, Supers
  <2> QED BY <1>4, <2>2, <2>3, <2>4, <2>5, <2>6 DEF Driver
<1>5. ASSUME NEW t \in Threads, ChildThread(t) PROVE ExactInv'
  <2>1. UNCHANGED <<textVars, resultVars>>
    BY <1>5 DEF ChildThread, Take, Ask, GiveUpOwn, GiveUpForeign, Consult, Move, Escalate,
         WriteOwn, CountOwn, Memo, WriteRemote, LoseAnswer, LoadCount, StoreCount,
         MemoRemote, driverVars
  <2>2. \/ UNCHANGED phase
        \/ Move(t) /\ LockedPush(NextChild(t), req[t])
    BY <1>5 DEF ChildThread, Take, Ask, GiveUpOwn, GiveUpForeign, Consult, Move, Escalate,
         WriteOwn, CountOwn, Memo, WriteRemote, LoseAnswer, LoadCount, StoreCount,
         MemoRemote, driverVars
  <2>3. \A s \in Supers : \/ phase'[s] = phase[s]
                          \/ phase[s] \in Dealing /\ phase'[s] \in Dealing
    BY <1>1, <2>2 DEF LockedPush, Collides, Dealing
  <2> QED BY <1>3, <2>1, <2>3
<1>6. ASSUME NEW s \in Supers, SuperThread(s) PROVE ExactInv'
  <2>1. UNCHANGED <<textVars, resultVars>>
    BY <1>6 DEF SuperThread, PickWord, SendWord, LoseWord, driverVars
  <2>2. PICK u, r : UNCHANGED phase \/ LockedPush(u, r)
    BY <1>6 DEF SuperThread, PickWord, SendWord, LoseWord, driverVars
  <2>3. \A p \in Supers : \/ phase'[p] = phase[p]
                          \/ phase[p] \in Dealing /\ phase'[p] \in Dealing
    BY <1>1, <2>2 DEF LockedPush, Collides, Dealing
  <2> QED BY <1>3, <2>1, <2>3
<1>7. CASE UNCHANGED vars
  BY <1>3, <1>7 DEF vars, driverVars
<1> QED BY <1>2, <1>4, <1>5, <1>6, <1>7 DEF Next

LEMMA ExactInit == Init => ExactInv
BY DEF Init, ExactInv, Dealing

LEMMA BoundedAlways == Spec => []Bounded
<1>1. Init => Bounded
  BY TranslatorAssumption DEF Init, Bounded
<1>2. SoundInv /\ Bounded /\ [Next]_vars => Bounded'
  <2> SUFFICES ASSUME SoundInv, Bounded, [Next]_vars PROVE Bounded'
    OBVIOUS
  <2>1. jobs \in Nat /\ MaxTexts \in Nat
    BY TranslatorAssumption DEF SoundInv, TypeOK, DriverTypes
  <2>2. ASSUME NEW txt \in Texts, Accept(txt) PROVE Bounded'
    BY <2>1, <2>2 DEF Accept, Bounded
  <2>3. CASE ~\E txt \in Texts : Accept(txt)
    <3>1. jobs' = jobs
      BY <2>3 DEF Next, vars, Driver, BeginPush, EndPush, FileWord, Assemble, SendResult,
         Reply, Reset,
         SuperThread, PickWord, SendWord, LoseWord,
         ChildThread, Take, Ask, GiveUpOwn, GiveUpForeign, Consult, Move, Escalate, WriteOwn,
         CountOwn, Memo, WriteRemote, LoseAnswer, LoadCount, StoreCount, MemoRemote,
         driverVars, textVars
    <3> QED BY <3>1 DEF Bounded
  <2> QED BY <2>2, <2>3
<1> QED BY SoundAlways, <1>1, <1>2, PTL DEF Spec

(* Where the client sends one text and no call fails, the two supernodes,  *)
(* with all their queues, threads, retries and caches, implement the       *)
(* translation service: the reply is the translation of the whole text,    *)
(* every word once and in its place (super.cc:590-741,755-858).            *)
THEOREM Translates ==
  ASSUME Faults = {}, MaxTexts <= 1
  PROVE  Spec => ImplementsService
<1>1. Init => Service!Init
  BY DEF Init, Service!Init
<1>2. SoundInv /\ ReplyInv /\ ExactInv /\ Bounded /\ [Next]_vars => [Service!Next]_Service!vars
  <2> SUFFICES ASSUME SoundInv, ReplyInv, ExactInv, Bounded, [Next]_vars
               PROVE  [Service!Next]_Service!vars
    OBVIOUS
  <2>1. jobs \in Nat /\ MaxTexts \in Nat
    BY TranslatorAssumption DEF SoundInv, TypeOK, DriverTypes
  <2>2. ASSUME NEW txt \in Texts, Accept(txt) PROVE Service!Accept(txt)
    <3>1. text = NoText
      BY <2>1, <2>2 DEF Accept, SoundInv, DriversInOrder
    <3> QED BY <2>2, <3>1 DEF Accept, Service!Accept
  <2>3. ASSUME Reply PROVE Service!Respond
    <3>1. FirstText
      BY <2>1 DEF FirstText, Bounded
    <3>2. text # NoText /\ text.first \in Seq(Word) /\ text.second \in Seq(Word)
      BY <2>3, TranslatorAssumption DEF Reply, SoundInv, TypeOK, DriverTypes, DriversInOrder,
         OrderOf, Text, Supers
    <3>3. stale = <<>> /\ reply = NoAnswer /\ result[1] = Half(1) /\ result2 = Half(2)
      BY <2>3, <3>1 DEF Reply, ReplyInv, ExactInv, Supers
    <3>4. Half(1) = text.first /\ Half(2) = text.second
      BY <3>2, <3>3 DEF Half
    <3> QED BY <2>3, <3>2, <3>3, <3>4 DEF Reply, Service!Respond, textVars
  <2>4. CASE UNCHANGED <<text, reply>>
    BY <2>4 DEF Service!vars
  <2>5. ASSUME NEW s \in Supers, Driver(s), ~Reply PROVE UNCHANGED <<text, reply>>
    BY <2>5 DEF Driver, BeginPush, EndPush, FileWord, Assemble, SendResult, Reset, textVars,
       resultVars
  <2>6. ASSUME NEW s \in Supers, SuperThread(s) PROVE UNCHANGED <<text, reply>>
    BY <2>6 DEF SuperThread, PickWord, SendWord, LoseWord, driverVars, textVars, resultVars
  <2>7. ASSUME NEW t \in Threads, ChildThread(t) PROVE UNCHANGED <<text, reply>>
    BY <2>7 DEF ChildThread, Take, Ask, GiveUpOwn, GiveUpForeign, Consult, Move, Escalate,
         WriteOwn, CountOwn, Memo, WriteRemote, LoseAnswer, LoadCount, StoreCount,
         MemoRemote, driverVars, textVars, resultVars
  <2>8. CASE UNCHANGED vars
    BY <2>4, <2>8 DEF vars, driverVars, textVars, resultVars
  <2> QED BY <2>2, <2>3, <2>4, <2>5, <2>6, <2>7, <2>8 DEF Next, Service!Next
<1>3. SoundInv /\ SoundInv' /\ PlaceInv /\ BackedInv /\ [Next]_vars => BackedInv'
  BY BackedStep
<1>4. SoundInv /\ ReplyInv /\ BackedInv /\ ExactInv /\ [Next]_vars => ExactInv'
  BY ExactStep
<1>5. Spec => []BackedInv
  BY SoundInit, SoundStep, PlaceInit, PlaceStep, BackedInit, <1>3, PTL DEF Spec
<1>6. Spec => [](ReplyInv /\ ExactInv)
  BY SoundAlways, <1>5, ReplyInit, ReplyStep, ExactInit, <1>4, PTL DEF Spec
<1> QED BY <1>1, <1>2, <1>6, SoundAlways, BoundedAlways, PTL DEF Spec, ImplementsService,
   Service!Spec

-----------------------------------------------------------------------------
(* Several texts, any of which may come before the calls for the one       *)
(* before have returned.                                                   *)

QueuesRight ==
  /\ \A t \in Threads : \A j \in 1 .. Len(q[t]) : Current(q[t][j])
  /\ \A s \in Supers : \A j \in 1 .. Len(super[s]) : Current(super[s][j])
  /\ \A s \in Supers : sending[s] # NoReq => Current(sending[s])

ThreadRight(t) ==
  /\ Busy(t) => Current(req[t])
  /\ pc[t] \notin {"idle", "ask"} => word[t] \in {req[t].word, Miss, NoAnswer}
  /\ t[1] = 1 /\ pc[t] \in Delivering => ans[t] \in {req[t].word, NoAnswer}

(* The array words of supernode 2 holds what task() has filed of the       *)
(* present text, that of supernode 1 nothing.                              *)
FiledRight == \A k \in Index : /\ k < cnt[2] => words[2][k] = Half(2)[k + 1]
                               /\ words[1][k] = NoAnswer

(* So the cache of supernode 1 never gives a word another's translation.   *)
FiledInv ==
  /\ QueuesRight
  /\ \A t \in Threads : ThreadRight(t)
  /\ FiledRight
  /\ Misfits(1) = {}

-----------------------------------------------------------------------------
LEMMA SameCurrent ==
  ASSUME UNCHANGED textVars
  PROVE  \A r : Current(r)' <=> Current(r)
BY DEF Current, Half, textVars

LEMMA FiledStart == Init => FiledInv
<1> SUFFICES ASSUME Init PROVE FiledInv
  OBVIOUS
<1>1. QueuesRight
  BY DEF Init, QueuesRight
<1>2. \A t \in Threads : ThreadRight(t)
  BY DEF Init, ThreadRight, Busy, Delivering
<1>3. FiledRight
  BY DEF Init, FiledRight, Index, Supers
<1>4. Misfits(1) = {}
  BY DEF Init, Misfits, EmptyMap, Supers
<1> QED BY <1>1, <1>2, <1>3, <1>4 DEF FiledInv

(* When a text arrives nothing of an earlier one is on its way but what    *)
(* calls of word_res have still to cache.                                  *)
LEMMA AcceptFiled ==
  ASSUME SoundInv, PlaceInv, FiledInv, NEW txt \in Texts, Accept(txt)
  PROVE  FiledInv'
<1>1. /\ UNCHANGED <<q, super, sending, pc, req, word, ans, cache, words>>
      /\ cnt' = [s \in Supers |-> 0]
      /\ \A s \in Supers : phase[s] = "idle"
  BY DEF Accept, queueVars, threadVars, tableVars
<1>2. \A s \in Supers : Live(s) = {}
  BY <1>1 DEF PlaceInv, CountsIn, Dealing
<1>3. TypeOK /\ QueueTypes /\ QueuesGenuine /\ ThreadsGenuine
  BY DEF SoundInv, TypeOK
<1>4. ASSUME NEW x \in Place, NEW r \in Request, At(x) = r PROVE FALSE
  <2>1. r.super \in Supers /\ r.index \in Index /\ r # NoReq
    BY TranslatorAssumption DEF Request
  <2>2. r.index \in Live(r.super)
    BY <1>4, <2>1 DEF Live, Names
  <2> QED BY <1>2, <2>1, <2>2
<1>5. \A t \in Threads : ~Busy(t)
  <2>1. ASSUME NEW t \in Threads, Busy(t) PROVE FALSE
    <3>1. Genuine(req[t])
      BY <1>3, <2>1 DEF ThreadsGenuine, GenuineThread, Busy
    <3>2. req[t].index \in Live(req[t].super) /\ req[t].super \in Supers
      BY <2>1, <3>1, BusyLive, GenuineFacts
    <3> QED BY <1>2, <3>2
  <2> QED BY <2>1
<1>6. QueuesRight'
  <2>1. ASSUME NEW t \in Threads, NEW j \in 1 .. Len(q[t]) PROVE FALSE
    <3> DEFINE x == <<"queue", t, j>>
    <3>1. q[t] \in Seq(Request) /\ j \in Nat
      BY <1>3 DEF QueueTypes
    <3>2. x \in Place /\ x[1] = "queue" /\ x[2] = t /\ x[3] = j
      BY <3>1 DEF Place
    <3> HIDE DEF x
    <3>3. At(x) = q[t][j] /\ q[t][j] \in Request
      BY <3>1, <3>2, AtQueue DEF Nth
    <3> QED BY <1>4, <3>2, <3>3
  <2>2. ASSUME NEW s \in Supers, NEW j \in 1 .. Len(super[s]) PROVE FALSE
    <3> DEFINE x == <<"super", s, j>>
    <3>1. super[s] \in Seq(Request) /\ j \in Nat
      BY <1>3 DEF QueueTypes
    <3>2. x \in Place /\ x[1] = "super" /\ x[2] = s /\ x[3] = j
      BY <3>1 DEF Place
    <3> HIDE DEF x
    <3>3. At(x) = super[s][j] /\ super[s][j] \in Request
      BY <3>1, <3>2, AtSuper DEF Nth
    <3> QED BY <1>4, <3>2, <3>3
  <2>3. ASSUME NEW s \in Supers, sending[s] # NoReq PROVE FALSE
    <3> DEFINE x == <<"sending", s, 0>>
    <3>1. x \in Place /\ x[1] = "sending" /\ x[2] = s /\ x[3] = 0
      BY DEF Place
    <3> HIDE DEF x
    <3>2. At(x) = sending[s] /\ sending[s] \in Request
      BY <1>3, <2>3, <3>1 DEF At, QueueTypes
    <3> QED BY <1>4, <3>1, <3>2
  <2> QED BY <1>1, <2>1, <2>2, <2>3 DEF QueuesRight
<1>7. ASSUME NEW t \in Threads PROVE ThreadRight(t)'
  <2>1. ThreadRight(t) /\ ~Busy(t)' /\ UNCHANGED <<pc, req, word, ans>>
    BY <1>1, <1>5 DEF FiledInv, Busy
  <2> QED BY <2>1 DEF ThreadRight
<1>8. FiledRight'
  BY <1>1 DEF FiledInv, FiledRight, Index, Supers
<1>9. UNCHANGED cache /\ (Misfits(1) = {})'
  BY <1>1 DEF FiledInv, Misfits
<1> QED BY <1>6, <1>7, <1>8, <1>9 DEF FiledInv

(* The steps of others leave a thread as it is. *)
LEMMA ThreadStays ==
  ASSUME NEW t \in Threads, ThreadRight(t), UNCHANGED textVars,
         pc'[t] = pc[t], req'[t] = req[t], word'[t] = word[t], ans'[t] = ans[t]
  PROVE  ThreadRight(t)'
<1>1. Current(req[t])' <=> Current(req[t])
  BY DEF Current, Half, textVars
<1> QED BY <1>1 DEF ThreadRight, Busy

LEMMA PushedCurrent ==
  ASSUME QueueTypes, \A u \in Threads : \A j \in 1 .. Len(q[u]) : Current(q[u][j]),
         NEW t \in Threads, NEW r \in Request, Current(r),
         q' = [q EXCEPT ![t] = Append(@, r)] \/ UNCHANGED q
  PROVE  \A u \in Threads : \A j \in 1 .. Len(q'[u]) : Current(q'[u][j])
<1>1. q \in [Threads -> Seq(Request)]
  BY DEF QueueTypes
<1>2. CASE q' = [q EXCEPT ![t] = Append(@, r)]
  <2>1. ASSUME NEW u \in Threads, NEW j \in 1 .. Len(q'[u]) PROVE Current(q'[u][j])
    <3>1. CASE u = t
      <4>1. q[t] \in Seq(Request) /\ q'[u] = Append(q[t], r)
        BY <1>1, <1>2, <3>1
      <4>2. (j \in 1 .. Len(q[t]) /\ q'[u][j] = q[t][j]) \/ q'[u][j] = r
        BY <4>1
      <4> QED BY <4>2
    <3>2. CASE u # t
      BY <1>1, <1>2, <3>2
    <3> QED BY <3>1, <3>2
  <2> QED BY <2>1
<1> QED BY <1>2

LEMMA DriverFiled ==
  ASSUME SoundInv, FiledInv, NEW s \in Supers, Driver(s)
  PROVE  FiledInv'
<1>1. /\ UNCHANGED <<textVars, super, sending, pc, req, word, ans, cache>>
  BY DEF Driver, BeginPush, EndPush, FileWord, Assemble, SendResult, Reply, Reset,
         queueVars, threadVars, tableVars
<1>2. /\ TypeOK /\ QueueTypes /\ DriverTypes /\ TableTypes /\ DriversInOrder
      /\ QueuesRight /\ FiledRight /\ Misfits(1) = {}
      /\ cnt \in [Supers -> Nat] /\ Half(s)' = Half(s)
  BY <1>1, SameText DEF SoundInv, TypeOK, FiledInv, DriverTypes
<1>3. QueuesRight'
  <2>1. CASE EndPush(s)
    <3>1. /\ cnt[s] < Len(Half(s)) /\ cnt[s] \in Nat
          /\ q' = [q EXCEPT ![<<s, cnt[s] % ChildNum[s]>>] = Append(@, Dealt(s))] \/ UNCHANGED q
      BY <1>2, <2>1 DEF EndPush, DriversInOrder, OrderOf
    <3>2. cnt[s] % ChildNum[s] \in Nat /\ <<s, cnt[s] % ChildNum[s]>> \in Threads
      BY <3>1, ThreadFacts
    <3>3. Dealt(s) \in Request
      BY <1>2, <3>1, <3>2, HalfFacts DEF Dealt, Request
    <3>4. Current(Dealt(s))
      BY <3>1 DEF Current, Dealt
    <3>5. PICK u \in Threads : u = <<s, cnt[s] % ChildNum[s]>>
      BY <3>2
    <3>6. \A v \in Threads : \A j \in 1 .. Len(q'[v]) : Current(q'[v][j])
      BY <1>2, <3>1, <3>3, <3>4, <3>5, PushedCurrent DEF QueuesRight
    <3> QED BY <1>1, <1>2, <3>6, SameCurrent DEF QueuesRight
  <2>2. CASE UNCHANGED q
    BY <1>1, <1>2, <2>2, SameCurrent DEF QueuesRight
  <2>3. EndPush(s) \/ UNCHANGED q
    BY DEF Driver, BeginPush, FileWord, Assemble, SendResult, Reply, Reset, queueVars
  <2> QED BY <2>1, <2>2, <2>3
<1>4. \A t \in Threads : ThreadRight(t)'
  BY <1>1, ThreadStays DEF FiledInv
<1>5. FiledRight'
  <2>1. CASE s = 2 /\ FileWord
    <3>1. /\ words' = [words EXCEPT ![2][cnt[2]] = Half(2)[cnt[2] + 1]]
          /\ cnt' = [cnt EXCEPT ![2] = @ + 1] /\ words \in [Supers -> [Index -> Entry]]
          /\ 2 \in Supers /\ cnt[2] \in Nat
      BY <1>2, <2>1 DEF FileWord, TableTypes
    <3>2. /\ cnt'[2] = cnt[2] + 1
          /\ \A k \in Index : words'[2][k] = IF k = cnt[2] THEN Half(2)[cnt[2] + 1] ELSE words[2][k]
          /\ words'[1] = words[1]
      BY <1>2, <3>1 DEF Supers
    <3>3. \A k \in Index : k \in Nat
      BY DEF Index
    <3>4. ASSUME NEW k \in Index, k < cnt'[2] PROVE words'[2][k] = Half(2)[k + 1]
      <4>1. k = cnt[2] \/ k < cnt[2]
        BY <3>1, <3>2, <3>3, <3>4
      <4> QED BY <1>2, <3>2, <4>1 DEF FiledRight
    <3> QED BY <1>2, <2>1, <3>2, <3>4 DEF FiledRight
  <2>2. CASE ~(s = 2 /\ FileWord)
    <3>1. words' = words /\ cnt'[2] = cnt[2]
      BY <1>2, <2>2 DEF Driver, BeginPush, EndPush, FileWord, Assemble, SendResult, Reply,
         Reset, tableVars, Supers
    <3>2. Half(2)' = Half(2)
      BY <1>1, SameText DEF Supers
    <3> QED BY <1>2, <3>1, <3>2 DEF FiledRight
  <2> QED BY <2>1, <2>2
<1>6. (Misfits(1) = {})'
  BY <1>1, <1>2 DEF Misfits
<1> QED BY <1>3, <1>4, <1>5, <1>6 DEF FiledInv

LEMMA SuperFiled ==
  ASSUME SoundInv, FiledInv, NEW s \in Supers, SuperThread(s)
  PROVE  FiledInv'
<1>1. /\ UNCHANGED <<textVars, cnt, pc, req, word, ans, cache, words>>
  BY DEF SuperThread, PickWord, SendWord, LoseWord, driverVars, threadVars, tableVars
<1>2. QueueTypes /\ QueuesRight /\ FiledRight /\ Misfits(1) = {}
  BY DEF SoundInv, TypeOK, FiledInv
<1>3. QueuesRight'
  <2>1. CASE PickWord(s)
    <3> DEFINE sq == super[s]
    <3>1. /\ UNCHANGED q /\ sq \in Seq(Request) /\ sq # <<>>
          /\ \A p \in Supers : super'[p] = IF p = s THEN Tail(sq) ELSE super[p]
          /\ \A p \in Supers : sending'[p] = IF p = s THEN Head(sq) ELSE sending[p]
      BY <1>2, <2>1 DEF PickWord, QueueTypes
    <3>2. /\ Head(sq) = sq[1] /\ 1 \in 1 .. Len(sq)
          /\ \A j \in 1 .. Len(Tail(sq)) : j + 1 \in 1 .. Len(sq) /\ Tail(sq)[j] = sq[j + 1]
      BY <3>1
    <3>3. \A j \in 1 .. Len(sq) : Current(sq[j])
      BY <1>2 DEF QueuesRight
    <3> HIDE DEF sq
    <3>4. \A j \in 1 .. Len(Tail(sq)) : Current(Tail(sq)[j])
      BY <3>2, <3>3
    <3>5. \A p \in Supers : \A j \in 1 .. Len(super'[p]) : Current(super'[p][j])
      BY <1>2, <3>1, <3>4 DEF QueuesRight
    <3>6. \A p \in Supers : sending'[p] # NoReq => Current(sending'[p])
      BY <1>2, <3>1, <3>2, <3>3 DEF QueuesRight
    <3> QED BY <1>1, <1>2, <3>1, <3>5, <3>6, SameCurrent DEF QueuesRight
  <2>2. CASE SendWord(s) \/ LoseWord(s)
    <3>1. /\ UNCHANGED super
          /\ \A p \in Supers : sending'[p] = IF p = s THEN NoReq ELSE sending[p]
      BY <1>2, <2>2 DEF SendWord, LoseWord, QueueTypes
    <3>2. \A u \in Threads : \A j \in 1 .. Len(q'[u]) : Current(q'[u][j])
      <4>1. CASE LoseWord(s)
        BY <1>2, <4>1 DEF LoseWord, QueuesRight
      <4>2. CASE SendWord(s)
        <5>1. PICK r : r = [sending[s] EXCEPT !.start = ran[Peer(s)]]
          OBVIOUS
        <5>2. /\ sending[s] \in Request /\ Current(sending[s])
              /\ ran[Peer(s)] \in Nat /\ <<Peer(s), ran[Peer(s)]>> \in Threads
          BY <1>2, <4>2, ThreadFacts DEF SendWord, QueueTypes, QueuesRight
        <5>3. r \in Request /\ Current(r)
          BY <5>1, <5>2 DEF Request, Current
        <5>4. PICK u \in Threads : u = <<Peer(s), ran[Peer(s)]>>
          BY <5>2
        <5>5. q' = [q EXCEPT ![u] = Append(@, r)] \/ UNCHANGED q
          BY <4>2, <5>1, <5>4 DEF SendWord, LockedPush
        <5> QED BY <1>2, <5>3, <5>5, PushedCurrent DEF QueuesRight
      <4> QED BY <2>2, <4>1, <4>2
    <3> QED BY <1>1, <1>2, <3>1, <3>2, SameCurrent DEF QueuesRight
  <2> QED BY <2>1, <2>2 DEF SuperThread
<1>4. \A t \in Threads : ThreadRight(t)'
  BY <1>1, ThreadStays DEF FiledInv
<1>5. FiledRight' /\ (Misfits(1) = {})'
  BY <1>1, <1>2, SameText DEF FiledRight, Misfits, Supers
<1> QED BY <1>3, <1>4, <1>5 DEF FiledInv

(* Caching for k what is sound for k adds no misfit. *)
LEMMA CachedRight ==
  ASSUME TableTypes, NEW s \in Supers, NEW k \in Entry,
         NEW v \in Answers \cup {NoAnswer}, k \in Word => v \in {k, Miss, NoAnswer},
         NEW m \in Stored(cache[s], k, v), cache' = [cache EXCEPT ![s] = m]
  PROVE  \A p \in Supers : Misfits(p)' \subseteq Misfits(p)
<1> DEFINE A == Answers \cup {NoAnswer}
<1>1. cache \in [Supers -> Maps(Entry, A)]
  BY DEF TableTypes
<1>2. \A x \in DOMAIN m : IF x = k THEN m[x] = v
                                   ELSE x \in DOMAIN cache[s] /\ m[x] = cache[s][x]
  <2>1. v \in A /\ cache[s] \in Maps(Entry, A)
    BY <1>1
  <2> HIDE DEF A
  <2> QED BY <2>1, StoredFacts
<1>3. ASSUME NEW p \in Supers, NEW x \in DOMAIN cache'[p] \cap Word,
             cache'[p][x] \notin {x, Miss, NoAnswer}
      PROVE  x \in DOMAIN cache[p] /\ cache'[p][x] = cache[p][x]
  <2>1. CASE p = s
    BY <1>1, <1>2, <1>3, <2>1
  <2>2. CASE p # s
    BY <1>1, <1>3, <2>2
  <2> QED BY <2>1, <2>2
<1> QED BY <1>3 DEF Misfits

(* What has to be shown of a step of a child thread. *)
LEMMA FiledCombine ==
  ASSUME FiledInv, NEW t \in Threads, UNCHANGED <<textVars, words, cnt>>, LocalsMoved(t),
         ThreadRight(t)', QueuesRight', Misfits(1)' \subseteq Misfits(1)
  PROVE  FiledInv'
<1>1. \A u \in Threads \ {t} : ThreadRight(u)'
  BY ThreadStays DEF FiledInv, LocalsMoved
<1>2. FiledRight'
  BY SameText DEF FiledInv, FiledRight, Supers
<1>3. (Misfits(1) = {})'
  BY DEF FiledInv
<1> QED BY <1>1, <1>2, <1>3 DEF FiledInv

(* What a child thread may bring into a cache. *)
Timely(t) ==
  \A s \in Supers : \/ Misfits(s)' \subseteq Misfits(s)
                    \/ s = 2 /\ Untimely(t) /\ pc'[t] # pc[t]

LEMMA ChildStepFiled ==
  ASSUME SoundInv, SoundInv', FiledInv, NEW t \in Threads, ChildThread(t)
  PROVE  FiledInv' /\ Timely(t)
<1>1. /\ QueueTypes /\ ThreadTypes /\ TableTypes /\ GenuineThread(t)
      /\ QueuesRight /\ ThreadRight(t) /\ FiledRight /\ Misfits(1) = {}
      /\ ThreadTypes' /\ t[1] \in Supers /\ Peer(t[1]) \in Supers
  BY ThreadFacts DEF SoundInv, TypeOK, ThreadsGenuine, FiledInv
<1>2. UNCHANGED <<textVars, words, cnt>>
  BY DEF ChildThread, Take, Ask, GiveUpOwn, GiveUpForeign, Consult, Move, Escalate, WriteOwn,
     CountOwn, Memo, WriteRemote, LoseAnswer, LoadCount, StoreCount, MemoRemote, driverVars,
     tableVars
<1>3. LocalsMoved(t)
  BY <1>1 DEF LocalsMoved, ThreadTypes, ChildThread, Take, Ask, GiveUpOwn, GiveUpForeign,
     Consult, Move, Escalate, WriteOwn, CountOwn, Memo, WriteRemote, LoseAnswer, LoadCount,
     StoreCount, MemoRemote, Idle, Goto
<1>4. pc[t] # "idle" => /\ req[t] \in Request /\ req[t].super \in Supers
                        /\ req[t].index \in Index /\ req[t].word \in Word
                        /\ req[t].word \in Entry /\ req[t].word \in Answers
  BY <1>1, GenuineFacts DEF GenuineThread
<1>5. QueuesRight'
  <2>1. CASE Take(t)
    <3>1. /\ UNCHANGED <<super, sending>> /\ q[t] \in Seq(Request) /\ q[t] # <<>>
          /\ \A u \in Threads : q'[u] = IF u = t THEN Tail(q[t]) ELSE q[u]
      BY <1>1, <2>1 DEF Take, QueueTypes
    <3>2. \A j \in 1 .. Len(Tail(q[t])) : j + 1 \in 1 .. Len(q[t]) /\ Tail(q[t])[j] = q[t][j + 1]
      BY <3>1
    <3>3. \A u \in Threads : \A j \in 1 .. Len(q'[u]) : Current(q'[u][j])
      BY <1>1, <3>1, <3>2 DEF QueuesRight
    <3> QED BY <1>1, <1>2, <3>1, <3>3, SameCurrent DEF QueuesRight
  <2>2. CASE Move(t)
    <3>1. /\ UNCHANGED <<super, sending>> /\ Current(req[t]) /\ req[t] \in Request
          /\ NextChild(t) \in Threads
          /\ q' = [q EXCEPT ![NextChild(t)] = Append(@, req[t])] \/ UNCHANGED q
      BY <1>1, <1>4, <2>2, ThreadFacts DEF Move, LockedPush, ThreadRight, Busy
    <3>2. \A u \in Threads : \A j \in 1 .. Len(q'[u]) : Current(q'[u][j])
      BY <1>1, <3>1, PushedCurrent DEF QueuesRight
    <3> QED BY <1>1, <1>2, <3>1, <3>2, SameCurrent DEF QueuesRight
  <2>3. CASE Escalate(t)
    <3> DEFINE sq == super[t[1]]
    <3>1. /\ UNCHANGED <<q, sending>> /\ Current(req[t]) /\ sq \in Seq(Request)
          /\ \A s \in Supers : super'[s] = IF s = t[1] THEN Append(sq, req[t]) ELSE super[s]
      BY <1>1, <2>3 DEF Escalate, ThreadRight, Busy, QueueTypes
    <3>2. \A j \in 1 .. Len(Append(sq, req[t])) :
             \/ j \in 1 .. Len(sq) /\ Append(sq, req[t])[j] = sq[j]
             \/ Append(sq, req[t])[j] = req[t]
      BY <3>1
    <3>3. \A s \in Supers : \A j \in 1 .. Len(super'[s]) : Current(super'[s][j])
      BY <1>1, <3>1, <3>2 DEF QueuesRight
    <3> QED BY <1>1, <1>2, <3>1, <3>3, SameCurrent DEF QueuesRight
  <2>4. CASE UNCHANGED <<q, super, sending>>
    BY <1>1, <1>2, <2>4, SameCurrent DEF QueuesRight
  <2> QED BY <2>1, <2>2, <2>3, <2>4 DEF ChildThread, Ask, GiveUpOwn, GiveUpForeign, Consult,
     WriteOwn, CountOwn, Memo, WriteRemote, LoseAnswer, LoadCount, StoreCount, MemoRemote,
     queueVars
<1>6. Timely(t)
  <2>1. CASE GiveUpOwn(t) \/ Memo(t)
    <3>1. PICK m \in Stored(cache[t[1]], req[t].word, word[t]) :
             cache' = [cache EXCEPT ![t[1]] = m]
      BY <2>1 DEF GiveUpOwn, Memo
    <3>2. /\ req[t].word \in Entry /\ word[t] \in Answers \cup {NoAnswer}
          /\ word[t] \in {req[t].word, Miss, NoAnswer}
      BY <1>1, <1>4, <2>1 DEF GiveUpOwn, Memo, ThreadRight, ThreadTypes
    <3> QED BY <1>1, <3>1, <3>2, CachedRight DEF Timely
  <2>2. CASE MemoRemote(t)
    <3> DEFINE p == Peer(t[1])
               k == words[p][ResIndex(t)]
    <3>1. /\ p \in Supers /\ ResIndex(t) \in Index /\ k \in Entry
          /\ ans[t] \in Answers \cup {NoAnswer} /\ pc[t] = "memoRemote"
          /\ \E m \in Stored(cache[p], k, ans[t]) : cache' = [cache EXCEPT ![p] = m]
      <4>1. pc[t] = "memoRemote" /\ pc[t] # "idle"
        BY <2>2 DEF MemoRemote
      <4>2. 0 \in Index
        BY TranslatorAssumption DEF Index
      <4>3. ResIndex(t) \in Index
        BY <1>4, <4>1, <4>2 DEF ResIndex
      <4>4. \E m \in Stored(cache[p], k, ans[t]) : cache' = [cache EXCEPT ![p] = m]
        BY <2>2 DEF MemoRemote
      <4>5. k \in Entry
        BY <1>1, <4>3 DEF TableTypes
      <4>6. ans[t] \in Answers \cup {NoAnswer}
        BY <1>1 DEF ThreadTypes
      <4> QED BY <1>1, <4>1, <4>3, <4>4, <4>5, <4>6
    <3>2. CASE t[1] = 2
      <4>1. k \notin Word
        BY <1>1, <3>1, <3>2, TranslatorAssumption DEF FiledRight, Peer
      <4> HIDE DEF p, k
      <4>2. PICK m \in Stored(cache[p], k, ans[t]) : cache' = [cache EXCEPT ![p] = m]
        BY <3>1
      <4> QED BY <1>1, <3>1, <4>1, <4>2, CachedRight DEF Timely
    <3>3. CASE t[1] = 1 /\ ~Untimely(t)
      <4>1. p = 2 /\ Current(req[t]) /\ ResIndex(t) < cnt[2]
        <5>1. cnt[2] \in Nat /\ ResIndex(t) \in Nat
          BY <3>1 DEF SoundInv, TypeOK, DriverTypes, Supers, Index
        <5> QED BY <3>1, <3>3, <5>1 DEF Untimely, Peer
      <4>2. CASE ans[t] = NoAnswer
        <5> HIDE DEF p, k
        <5>1. PICK m \in Stored(cache[p], k, ans[t]) : cache' = [cache EXCEPT ![p] = m]
          BY <3>1
        <5> QED BY <1>1, <3>1, <4>2, <5>1, CachedRight DEF Timely
      <4>3. CASE ans[t] # NoAnswer
        <5>1. ~Own(t) /\ ans[t] = req[t].word /\ ResIndex(t) = req[t].index
          BY <1>1, <3>1, <3>3, <4>3 DEF ThreadRight, GenuineThread, Delivering, ResIndex
        <5>2. req[t].super = 2
          BY <1>4, <3>1, <3>3, <5>1 DEF Own, Supers
        <5>3. k = Half(2)[req[t].index + 1]
          BY <1>1, <3>1, <4>1, <5>1 DEF FiledRight
        <5>4. k = ans[t]
          BY <4>1, <5>1, <5>2, <5>3 DEF Current
        <5> HIDE DEF p, k
        <5>5. PICK m \in Stored(cache[p], k, ans[t]) : cache' = [cache EXCEPT ![p] = m]
          BY <3>1
        <5> QED BY <1>1, <3>1, <5>4, <5>5, CachedRight DEF Timely
      <4> QED BY <4>2, <4>3
    <3>4. CASE t[1] = 1 /\ Untimely(t)
      <4>1. pc'[t] # pc[t]
        BY <1>1, <2>2 DEF MemoRemote, Goto, ThreadTypes
      <4>2. p = 2
        BY <3>4 DEF Peer
      <4>3. cache \in [Supers -> Maps(Entry, Answers \cup {NoAnswer})]
        BY <1>1 DEF TableTypes
      <4>4. cache'[1] = cache[1]
        BY <3>1, <4>2, <4>3 DEF Supers
      <4> QED BY <3>4, <4>1, <4>4 DEF Timely, Misfits, Supers
    <3> QED BY <1>1, <3>2, <3>3, <3>4 DEF Supers
  <2>3. CASE UNCHANGED cache
    BY <2>3 DEF Timely, Misfits
  <2> QED BY <2>1, <2>2, <2>3 DEF ChildThread, Take, Ask, GiveUpForeign, Consult, Move, Escalate,
     WriteOwn, CountOwn, WriteRemote, LoseAnswer, LoadCount, StoreCount, tableVars
<1>7. ThreadRight(t)'
  <2>1. CASE pc'[t] = "idle"
    BY <2>1 DEF ThreadRight, Busy, Delivering
  <2>2. CASE Take(t)
    <3>1. pc'[t] = "ask" /\ req'[t] = Head(q[t]) /\ q[t] \in Seq(Request) /\ q[t] # <<>>
      BY <1>1, <2>2 DEF Take, Goto, ThreadTypes, QueueTypes
    <3>2. Head(q[t]) = q[t][1] /\ 1 \in 1 .. Len(q[t])
      BY <3>1
    <3>3. Current(req'[t])
      BY <1>1, <3>1, <3>2 DEF QueuesRight
    <3>4. Current(req[t])'
      BY <1>2, <3>3 DEF Current, Half, textVars
    <3> QED BY <3>1, <3>4 DEF ThreadRight, Delivering
  <2>3. CASE Ask(t)
    <3>1. PICK a \in {ChildAnswer(t, req[t].word), NoAnswer} :
             /\ word'[t] = a /\ ans'[t] = a /\ req'[t] = req[t] /\ pc[t] = "ask"
             /\ pc'[t] = IF a = Miss THEN "missed" ELSE "deliver"
      BY <1>1, <2>3 DEF Ask, Goto, ThreadTypes
    <3>2. a \in {req[t].word, Miss, NoAnswer}
      BY DEF ChildAnswer
    <3>3. Current(req[t])'
      BY <1>1, <1>2, <3>1 DEF ThreadRight, Busy, Current, Half, textVars
    <3> QED BY <3>1, <3>2, <3>3 DEF ThreadRight, Delivering
  <2>4. CASE Consult(t) /\ pc'[t] = "deliver"
    <3>1. /\ ans'[t] = Looked(cache[t[1]], req[t].word) /\ ans'[t] \notin {NoAnswer, Miss}
          /\ pc'[t] = "deliver" /\ pc[t] = "missed" /\ req'[t] = req[t] /\ word'[t] = word[t]
      BY <1>1, <2>4 DEF Consult, Goto, ThreadTypes
    <3>2. t[1] = 1 => ans'[t] = req[t].word
      BY <1>1, <1>4, <3>1 DEF Looked, Misfits
    <3>3. Current(req[t])'
      BY <1>1, <1>2, <3>1 DEF ThreadRight, Busy, Current, Half, textVars
    <3> QED BY <1>1, <3>1, <3>2, <3>3 DEF ThreadRight
  <2>5. CASE /\ UNCHANGED <<req, word>> /\ ans'[t] = ans[t] /\ pc[t] \notin {"idle", "ask"}
             /\ pc'[t] \in Delivering => pc[t] \in Delivering \ {"memoRemote"}
             /\ pc[t] \in {"memoRemote", "memo"} => pc'[t] = "memo"
    <3>1. Busy(t) => Current(req[t])'
      BY <1>1, <1>2, <2>5 DEF ThreadRight, Current, Half, textVars
    <3>2. Busy(t)' => Busy(t)
      BY <2>5 DEF Busy, Delivering
    <3> QED BY <1>1, <2>5, <3>1, <3>2 DEF ThreadRight
  <2>6. \/ pc'[t] = "idle" \/ Take(t) \/ Ask(t) \/ (Consult(t) /\ pc'[t] = "deliver")
        \/ /\ UNCHANGED <<req, word>> /\ ans'[t] = ans[t] /\ pc[t] \notin {"idle", "ask"}
           /\ pc'[t] \in Delivering => pc[t] \in Delivering \ {"memoRemote"}
           /\ pc[t] \in {"memoRemote", "memo"} => pc'[t] = "memo"
    <3> USE <1>1 DEF Goto, Idle, Delivering, ThreadTypes
    <3>1. CASE Consult(t)
      <4>1. UNCHANGED <<req, word>> /\ pc[t] = "missed" /\ pc'[t] \in {"move", "escalate", "deliver"}
        BY <3>1 DEF Consult
      <4>2. pc'[t] # "deliver" => ans'[t] = ans[t]
        BY <3>1 DEF Consult
      <4> QED BY <3>1, <4>1, <4>2
    <3>2. CASE GiveUpForeign(t)
      BY <3>2 DEF GiveUpForeign
    <3>3. CASE Move(t)
      BY <3>3 DEF Move
    <3>4. CASE Escalate(t)
      BY <3>4 DEF Escalate
    <3>5. CASE Memo(t)
      BY <3>5 DEF Memo
    <3>6. CASE CountOwn(t)
      BY <3>6 DEF CountOwn
    <3>7. CASE GiveUpOwn(t)
      BY <3>7 DEF GiveUpOwn
    <3>8. CASE WriteOwn(t)
      BY <3>8 DEF WriteOwn
    <3>9. CASE WriteRemote(t)
      BY <3>9 DEF WriteRemote
    <3>10. CASE LoseAnswer(t)
      BY <3>10 DEF LoseAnswer
    <3>11. CASE LoadCount(t) \/ StoreCount(t)
      BY <3>11 DEF LoadCount, StoreCount
    <3>12. CASE MemoRemote(t)
      BY <3>12 DEF MemoRemote
    <3> QED BY <3>1, <3>2, <3>3, <3>4, <3>5, <3>6, <3>7, <3>8, <3>9, <3>10, <3>11, <3>12
            DEF ChildThread
  <2> QED BY <2>1, <2>2, <2>3, <2>4, <2>5, <2>6
<1>8. Misfits(1)' \subseteq Misfits(1)
  BY <1>6 DEF Timely, Supers
<1> QED BY <1>1, <1>2, <1>3, <1>5, <1>6, <1>7, <1>8, FiledCombine

(* What a step may bring into the caches. *)
TimelyStep ==
  \A s \in Supers :
    \/ Misfits(s)' \subseteq Misfits(s)
    \/ s = 2 /\ \E t \in Threads : Untimely(t) /\ pc'[t] # pc[t]

LEMMA FiledStep ==
  SoundInv /\ SoundInv' /\ PlaceInv /\ FiledInv /\ [Next]_vars => FiledInv' /\ TimelyStep
<1> SUFFICES ASSUME SoundInv, SoundInv', PlaceInv, FiledInv, [Next]_vars
             PROVE  FiledInv' /\ TimelyStep
  OBVIOUS
<1>1. ASSUME NEW txt \in Texts, Accept(txt) PROVE FiledInv' /\ TimelyStep
  BY <1>1, AcceptFiled DEF Accept, tableVars, TimelyStep, Misfits
<1>2. ASSUME NEW t \in Threads, ChildThread(t) PROVE FiledInv' /\ TimelyStep
  BY <1>2, ChildStepFiled DEF Timely, TimelyStep
<1>3. ASSUME NEW s \in Supers, Driver(s) PROVE FiledInv' /\ TimelyStep
  <2>1. UNCHANGED cache
    BY <1>3 DEF Driver, BeginPush, EndPush, FileWord, Assemble, SendResult, Reply, Reset, tableVars
  <2> QED BY <1>3, <2>1, DriverFiled DEF TimelyStep, Misfits
<1>4. ASSUME NEW s \in Supers, SuperThread(s) PROVE FiledInv' /\ TimelyStep
  <2>1. UNCHANGED cache
    BY <1>4 DEF SuperThread, PickWord, SendWord, LoseWord, tableVars
  <2> QED BY <1>4, <2>1, SuperFiled DEF TimelyStep, Misfits
<1>5. CASE UNCHANGED vars
  <2>1. UNCHANGED <<textVars, q, super, sending, pc, req, word, ans, words, cnt, cache>>
    BY <1>5 DEF vars, driverVars, queueVars, threadVars, tableVars
  <2>2. QueuesRight'
    BY <2>1, SameCurrent DEF FiledInv, QueuesRight
  <2>3. \A t \in Threads : ThreadRight(t)'
    BY <2>1, ThreadStays DEF FiledInv
  <2>4. FiledRight' /\ (Misfits(1) = {})' /\ TimelyStep
    BY <2>1, SameText DEF FiledInv, FiledRight, Misfits, Supers, TimelyStep
  <2> QED BY <2>2, <2>3, <2>4 DEF FiledInv
<1> QED BY <1>1, <1>2, <1>3, <1>4, <1>5 DEF Next

(* For any number of texts and whatever calls fail, a cache comes to give  *)
(* a word another word's translation only when word_res caches that        *)
(* translation after the next text has come, or before task() has filled   *)
(* the place (super.cc:158-161,818-821): no other interleaving of the      *)
(* handlers, the drivers and the child threads of both supernodes puts an  *)
(* answer under the wrong word.                                            *)
THEOREM AnswersSound == Spec => HitsSound
<1>1. Init => SoundInv /\ PlaceInv /\ FiledInv
  BY SoundInit, PlaceInit, FiledStart
<1>2. /\ SoundInv /\ PlaceInv /\ FiledInv /\ [Next]_vars
      => (SoundInv /\ PlaceInv /\ FiledInv)' /\ [TimelyStep]_vars
  BY SoundStep, PlaceStep, FiledStep
<1>3. Spec => [][TimelyStep]_vars
  BY <1>1, <1>2, PTL DEF Spec
<1> QED BY <1>3 DEF HitsSound, TimelyStep

=============================================================================

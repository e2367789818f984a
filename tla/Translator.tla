----------------------------- MODULE Translator -----------------------------
(***************************************************************************)
(* The two supernodes of assignment 4 (super.cc) translating the texts of  *)
(* their clients, one after the other.                                     *)
(*                                                                         *)
(* Supernode 1 (flag 0) takes the text from the client, gives the second   *)
(* half to supernode 2 (flag 1) and translates the first.  Inside each     *)
(* supernode run, concurrently:                                            *)
(*   - the driver: main() on supernode 1, task() on supernode 2.  It deals *)
(*     the words of its half to the queues of the children, spins until    *)
(*     every word is counted and assembles the result;                     *)
(*   - one thread child_word(i) per child, which takes words from queue i, *)
(*     asks child i, and delivers, moves on or escalates the word;         *)
(*   - the thread super_word(), which sends escalated words to the peer;   *)
(*   - the gRPC handlers word_req and word_res, run for the calls of the   *)
(*     peer.  A caller waits for its handler, so the steps of a handler    *)
(*     are steps of the calling thread.                                    *)
(*                                                                         *)
(* The translation of a word is named by the word itself; a child process  *)
(* is reduced to the set of words it and the database behind it answer.    *)
(* A gRPC call whose kind is in Faults may fail; the callers look at no    *)
(* Status, so a failure shows only in what the call leaves undone and in   *)
(* the default values of the response.                                     *)
(***************************************************************************)
EXTENDS CacheMaps, Integers, Sequences

CONSTANTS
  Word,       \* the words of texts
  Miss,       \* the answer of a child that does not know a word ("\0")
  ChildNum,   \* child_num of each supernode
  Knows,      \* for each child the words its database translates
  Texts,      \* the texts a client may send
  NoText,     \* buf before a text arrives
  NoReq,      \* no word_info in hand
  MaxWords,   \* length of the arrays words and translated_word, which is
              \* more than the number of words that fit into buf
  MaxTexts,   \* bound on the number of texts the clients send
  Faults      \* the calls that may fail: those to a child, to the peer

Supers == {1, 2}
Peer(s) == 3 - s

Children(s) == 0 .. ChildNum[s] - 1
Threads == UNION {{s} \X Children(s) : s \in Supers}
NextChild(t) == <<t[1], (t[2] + 1) % ChildNum[t[1]]>>

(* struct word_info: the supernode that owns the word, its number in the   *)
(* half of that supernode, the child it started at, and the word.          *)
Index == 0 .. MaxWords - 1
Request == [super : Supers, index : Index, start : Nat, word : Word]

(* The two halves of a text; blank says that the second half is the empty  *)
(* string, without so much as a separator.                                 *)
Text == [first : Seq(Word), second : Seq(Word), blank : BOOLEAN]

ASSUME TranslatorAssumption ==
  /\ ChildNum \in [Supers -> Nat \ {0}]
  /\ Knows \in [Threads -> SUBSET Word]
  /\ MaxWords \in Nat \ {0}
  /\ Texts \subseteq Text
  /\ MaxTexts \in Nat
  /\ Faults \subseteq {"child", "peer"}
  /\ \A txt \in Texts : /\ Len(txt.first) + Len(txt.second) < MaxWords
                        /\ txt.blank => txt.second = <<>>
  /\ Miss \notin Word /\ NoAnswer \notin Word /\ Miss # NoAnswer
  /\ NoText \notin Text /\ NoReq \notin Request

VARIABLES
  jobs,         \* how many texts have arrived
  text,         \* the latest of them
  stale,        \* the words of an earlier text behind it in buf
  phase,        \* where the driver of each supernode stands
  cnt,          \* cnt, the number of the next word the driver deals
  q,            \* q[i], the queue of each child thread
  super,        \* the queue of words to be sent to the peer
  sending,      \* the word super_word() is sending, holding super_mutex
  ran,          \* ran % child_num, the child the next word_req goes to
  pc, req, word, ans, tmp,   \* child_word(i): position, req_w, word,
                             \* the answer to deliver, a loaded counter
  cache,        \* word_cache
  words,        \* the array words, read by word_res
  translated,   \* the array translated_word
  childCount,   \* translate_size_child
  superCount,   \* translate_size_super
  result,       \* result, the translated half each driver assembled
  result2,      \* result2, what get_result brought from supernode 2
  reply         \* what was sent to the client

textVars   == <<jobs, text, stale>>
driverVars == <<textVars, phase, cnt>>
queueVars  == <<q, super, sending, ran>>
threadVars == <<pc, req, word, ans, tmp>>
tableVars  == <<cache, words, translated>>
countVars  == <<childCount, superCount>>
resultVars == <<result, result2, reply>>
vars == <<driverVars, queueVars, threadVars, tableVars, countVars, resultVars>>

-----------------------------------------------------------------------------
(* The half of the text that supernode s translates. *)
Half(s) == IF text = NoText THEN <<>>
           ELSE IF s = 1 THEN text.first ELSE text.second \o stale

(* What follows a text in buf: only eight bytes of buf are cleared after a *)
(* text (sizeof(buf) is the size of a pointer), so strcpy, which looks for *)
(* a 0 byte, runs on into a longer text that was there before.  Where it   *)
(* enters that text depends on lengths the model leaves out.               *)
InBuffer == Half(1) \o Half(2)
Leftovers(txt) ==
  {rest \in {SubSeq(InBuffer, n, Len(InBuffer)) : n \in 1 .. Len(InBuffer) + 1} :
     Len(txt.first) + Len(txt.second) + Len(rest) < MaxWords}

(* The sum of translate_size_child[] and translate_size_super.  The driver *)
(* adds the counters up one after the other.  Those of the children only   *)
(* grow while it waits and translate_size_super is read last, so a sum     *)
(* that reaches the size is the sum at that moment.                        *)
Ticks(s) == UNION {{i} \X (1 .. childCount[<<s, i>>]) : i \in Children(s)}
Counted(s) == Cardinality(Ticks(s)) + superCount[s]

(* q[i].push() with queue_mutex[i] held, by a thread of supernode t[1].    *)
(* The driver pushes without the mutex (super.cc:697,818).  When it is in  *)
(* the middle of its push into the same queue, either element may be       *)
(* written over the other.                                                 *)
Collides(t) ==
  /\ phase[t[1]] = "pushing"
  /\ t[2] = cnt[t[1]] % ChildNum[t[1]]

LockedPush(t, r) ==
  \/ /\ q' = [q EXCEPT ![t] = Append(@, r)]
     /\ UNCHANGED phase
  \/ /\ Collides(t)
     /\ UNCHANGED <<q, phase>>
  \/ /\ Collides(t)
     /\ q' = [q EXCEPT ![t] = Append(@, r)]
     /\ phase' = [phase EXCEPT ![t[1]] = "overwritten"]

-----------------------------------------------------------------------------
Init ==
  /\ jobs = 0
  /\ text = NoText
  /\ stale = <<>>
  /\ phase = [s \in Supers |-> "idle"]
  /\ cnt = [s \in Supers |-> 0]
  /\ q = [t \in Threads |-> <<>>]
  /\ super = [s \in Supers |-> <<>>]
  /\ sending = [s \in Supers |-> NoReq]
  /\ ran = [s \in Supers |-> 0]
  /\ pc = [t \in Threads |-> "idle"]
  /\ req = [t \in Threads |-> NoReq]
  /\ word = [t \in Threads |-> NoAnswer]
  /\ ans = [t \in Threads |-> NoAnswer]
  /\ tmp = [t \in Threads |-> 0]
  /\ cache = [s \in Supers |-> EmptyMap]
  /\ words = [s \in Supers |-> [k \in Index |-> NoAnswer]]
  /\ translated = [s \in Supers |-> [k \in Index |-> NoAnswer]]
  /\ childCount = [t \in Threads |-> 0]
  /\ superCount = [s \in Supers |-> 0]
  /\ result = [s \in Supers |-> <<>>]
  /\ result2 = NoAnswer
  /\ reply = NoAnswer

-----------------------------------------------------------------------------
(* The drivers.                                                            *)

(* Supernode 1 reads a text, cuts it in two and calls line_req, which      *)
(* starts task() on supernode 2; then both deal out their words.  The next *)
(* text is taken to come when supernode 2 has cleaned up after the last.   *)
Accept(txt) ==
  /\ jobs < MaxTexts
  /\ phase = [s \in Supers |-> "idle"]
  /\ jobs' = jobs + 1
  /\ text' = txt
  /\ stale' \in Leftovers(txt)
  /\ \/ phase' = [s \in Supers |-> "deal"]
     \/ /\ "peer" \in Faults
        /\ phase' = [phase EXCEPT ![1] = "deal"]
  /\ cnt' = [s \in Supers |-> 0]
  /\ reply' = NoAnswer
  /\ UNCHANGED <<queueVars, threadVars, tableVars, countVars, result, result2>>

BeginPush(s) ==
  /\ phase[s] = "deal"
  /\ cnt[s] < Len(Half(s))
  /\ phase' = [phase EXCEPT ![s] = "pushing"]
  /\ UNCHANGED <<textVars, cnt, queueVars, threadVars, tableVars, countVars, resultVars>>

Dealt(s) == [super |-> s, index |-> cnt[s], start |-> cnt[s] % ChildNum[s],
             word |-> Half(s)[cnt[s] + 1]]

(* The unlocked push ends.  main() goes on with the next word, task() has  *)
(* to fill words[cnt] first.                                               *)
EndPush(s) ==
  /\ \/ /\ phase[s] = "pushing"
        /\ q' = [q EXCEPT ![<<s, cnt[s] % ChildNum[s]>>] = Append(@, Dealt(s))]
     \/ /\ phase[s] = "overwritten"
        /\ UNCHANGED q
  /\ \/ /\ s = 1
        /\ phase' = [phase EXCEPT ![s] = "deal"]
        /\ cnt' = [cnt EXCEPT ![s] = @ + 1]
     \/ /\ s = 2
        /\ phase' = [phase EXCEPT ![s] = "file"]
        /\ UNCHANGED cnt
  /\ UNCHANGED <<textVars, super, sending, ran, threadVars, tableVars, countVars, resultVars>>

FileWord ==
  /\ phase[2] = "file"
  /\ words' = [words EXCEPT ![2][cnt[2]] = Half(2)[cnt[2] + 1]]
  /\ cnt' = [cnt EXCEPT ![2] = @ + 1]
  /\ phase' = [phase EXCEPT ![2] = "deal"]
  /\ UNCHANGED <<textVars, queueVars, threadVars, cache, translated, countVars, resultVars>>

(* Mutant: the translations are taken one place further on. *)
AssembledShifted(s, trailing) ==
  [k \in 1 .. Len(Half(s)) |-> translated[s][k]]

(* All words dealt and counted: the driver leaves its spin loop and puts   *)
(* the translations between the non-words.  A half that ends in a non-word *)
(* (the empty half too) has one more non-word than words, and the loop     *)
(* over the non-words takes one more element of translated_word.           *)
Assembled(s, trailing) ==
  LET n    == Len(Half(s))
      body == [k \in 1 .. n |-> translated[s][k - 1]]
  IN  IF trailing /\ translated[s][n] # NoAnswer
        THEN Append(body, translated[s][n])
        ELSE body

Assemble(s) ==
  /\ phase[s] = "deal"
  /\ cnt[s] = Len(Half(s))
  /\ Half(s) = <<>> \/ Counted(s) = Len(Half(s))
  /\ \E trailing \in BOOLEAN :
        /\ Half(s) = <<>> => trailing
        /\ result' = [result EXCEPT ![s] = Assembled(s, trailing)]
  /\ phase' = [phase EXCEPT ![s] = "join"]
  /\ UNCHANGED <<textVars, cnt, queueVars, threadVars, tableVars, countVars, result2, reply>>

(* trans_string and its handler get_result.  Without so much as a non-word *)
(* the result of the second half is the empty string.                      *)
SendResult ==
  /\ phase[2] = "join"
  /\ \/ result2' = IF text.blank /\ result[2] = <<>> THEN NoAnswer ELSE result[2]
     \/ "peer" \in Faults /\ UNCHANGED result2
  /\ phase' = [phase EXCEPT ![2] = "reset"]
  /\ UNCHANGED <<textVars, cnt, queueVars, threadVars, tableVars, countVars, result, reply>>

(* Supernode 1 spins while result2 is empty, then answers the client. *)
Reply ==
  /\ phase[1] = "join"
  /\ result2 # NoAnswer
  /\ reply' = result[1] \o result2
  /\ phase' = [phase EXCEPT ![1] = "reset"]
  /\ UNCHANGED <<textVars, cnt, queueVars, threadVars, tableVars, countVars, result, result2>>

(* Mutant: translate_size_super is not reset with the other counters. *)
ResetChildrenOnly(s) ==
  /\ phase[s] = "reset"
  /\ childCount' = [t \in Threads |-> IF t[1] = s THEN 0 ELSE childCount[t]]
  /\ result2' = IF s = 1 THEN NoAnswer ELSE result2
  /\ phase' = [phase EXCEPT ![s] = "idle"]
  /\ UNCHANGED <<textVars, cnt, queueVars, threadVars, tableVars, superCount, result, reply>>

Reset(s) ==
  /\ phase[s] = "reset"
  /\ childCount' = [t \in Threads |-> IF t[1] = s THEN 0 ELSE childCount[t]]
  /\ superCount' = [superCount EXCEPT ![s] = 0]
  /\ result2' = IF s = 1 THEN NoAnswer ELSE result2
  /\ phase' = [phase EXCEPT ![s] = "idle"]
  /\ UNCHANGED <<textVars, cnt, queueVars, threadVars, tableVars, result, reply>>

Driver(s) ==
  \/ BeginPush(s) \/ EndPush(s) \/ Assemble(s) \/ Reset(s)
  \/ s = 1 /\ Reply
  \/ s = 2 /\ (FileWord \/ SendResult)

-----------------------------------------------------------------------------
(* child_word(i), thread t = <<s, i>>.                                     *)

Own(t) == req[t].super = t[1]

(* Mutant: the number of the next child is not reduced modulo child_num. *)
LastStopUnwrapped(t) == req[t].start = t[2] + 1

(* Every child of this supernode has been asked once the word is about to  *)
(* come back to where it started.                                          *)
LastStop(t) == req[t].start = NextChild(t)[2]

Goto(t, label) == pc' = [pc EXCEPT ![t] = label]

(* Back to polling the queue; the locals are dead until the next word. *)
Idle(t) ==
  /\ Goto(t, "idle")
  /\ req' = [req EXCEPT ![t] = NoReq]
  /\ word' = [word EXCEPT ![t] = NoAnswer]
  /\ ans' = [ans EXCEPT ![t] = NoAnswer]
  /\ UNCHANGED tmp

(* Mutant: front() without pop(). *)
TakeFrontOnly(t) ==
  /\ pc[t] = "idle"
  /\ q[t] # <<>>
  /\ req' = [req EXCEPT ![t] = Head(q[t])]
  /\ Goto(t, "ask")
  /\ UNCHANGED <<driverVars, queueVars, word, ans, tmp, tableVars, countVars, resultVars>>

Take(t) ==
  /\ pc[t] = "idle"
  /\ q[t] # <<>>
  /\ req' = [req EXCEPT ![t] = Head(q[t])]
  /\ q' = [q EXCEPT ![t] = Tail(@)]
  /\ Goto(t, "ask")
  /\ UNCHANGED <<driverVars, super, sending, ran, word, ans, tmp, tableVars, countVars, resultVars>>

ChildAnswer(t, w) == IF w \in Knows[t] THEN w ELSE Miss

(* childcli.getvalue(req_w).  The response of a failed call has the word   *)
(* "", which is taken for a translation, and the index 0.                  *)
Ask(t) ==
  /\ pc[t] = "ask"
  /\ \E a \in {ChildAnswer(t, req[t].word)} \cup (IF "child" \in Faults THEN {NoAnswer} ELSE {}) :
         /\ word' = [word EXCEPT ![t] = a]
         /\ ans' = [ans EXCEPT ![t] = a]
         /\ Goto(t, IF a = Miss THEN "missed" ELSE "deliver")
  /\ UNCHANGED <<driverVars, queueVars, req, tmp, tableVars, countVars, resultVars>>

(* Mutant: the index is not copied into the answer. *)
ResIndexUnset(t) == 0

(* The index that goes to the peer with an answer: that of the response.   *)
ResIndex(t) == IF ans[t] = NoAnswer THEN 0 ELSE req[t].index

(* No child of this supernode knows the own word: remember that, escalate. *)
GiveUpOwn(t) ==
  /\ pc[t] = "missed" /\ LastStop(t) /\ Own(t)
  /\ \E m \in Stored(cache[t[1]], req[t].word, word[t]) :
        cache' = [cache EXCEPT ![t[1]] = m]
  /\ Goto(t, "escalate")
  /\ UNCHANGED <<driverVars, queueVars, req, word, ans, tmp, words, translated, countVars, resultVars>>

(* No child knows the word of the peer: nothing is done, the word is gone. *)
GiveUpForeign(t) ==
  /\ pc[t] = "missed" /\ LastStop(t) /\ ~Own(t)
  /\ Idle(t)
  /\ UNCHANGED <<driverVars, queueVars, tableVars, countVars, resultVars>>

(* Missed by this child, more children to ask: the cache is consulted.     *)
(* What it holds decides between moving the word to the next child,        *)
(* escalating it, whoever owns it, and delivering the cached answer.       *)
Consult(t) ==
  /\ pc[t] = "missed" /\ ~LastStop(t)
  /\ LET found == Looked(cache[t[1]], req[t].word)
     IN  \/ /\ found = NoAnswer
            /\ Goto(t, "move")
            /\ UNCHANGED ans
         \/ /\ found = Miss
            /\ Goto(t, "escalate")
            /\ UNCHANGED ans
         \/ /\ found \notin {NoAnswer, Miss}
            /\ Goto(t, "deliver")
            /\ ans' = [ans EXCEPT ![t] = found]
  /\ UNCHANGED <<driverVars, queueVars, req, word, tmp, tableVars, countVars, resultVars>>

Move(t) ==
  /\ pc[t] = "move"
  /\ LockedPush(NextChild(t), req[t])
  /\ Idle(t)
  /\ UNCHANGED <<textVars, cnt, super, sending, ran, tableVars, countVars, resultVars>>

(* super.push(req_w) under super_mutex, which super_word() keeps while it  *)
(* sends.                                                                  *)
Escalate(t) ==
  /\ pc[t] = "escalate"
  /\ sending[t[1]] = NoReq
  /\ super' = [super EXCEPT ![t[1]] = Append(@, req[t])]
  /\ Idle(t)
  /\ UNCHANGED <<driverVars, q, sending, ran, tableVars, countVars, resultVars>>

(* An own word: translated_word, then translate_size_child[i]++, then the  *)
(* cache (only an answer of the child is cached, not one of the cache).    *)
WriteOwn(t) ==
  /\ pc[t] = "deliver" /\ Own(t)
  /\ translated' = [translated EXCEPT ![t[1]][req[t].index] = ans[t]]
  /\ Goto(t, "count")
  /\ UNCHANGED <<driverVars, queueVars, req, word, ans, tmp, cache, words, countVars, resultVars>>

CountOwn(t) ==
  /\ pc[t] = "count"
  /\ childCount' = [childCount EXCEPT ![t] = @ + 1]
  /\ \/ word[t] = Miss /\ Idle(t)
     \/ word[t] # Miss /\ Goto(t, "memo") /\ UNCHANGED <<req, word, ans, tmp>>
  /\ UNCHANGED <<driverVars, queueVars, tableVars, superCount, resultVars>>

(* word_cache.setvalue(w, word): word is what the child answered, also     *)
(* when the answer delivered came from the cache (super.cc:406).           *)
Memo(t) ==
  /\ pc[t] = "memo"
  /\ \E m \in Stored(cache[t[1]], req[t].word, word[t]) :
        cache' = [cache EXCEPT ![t[1]] = m]
  /\ Idle(t)
  /\ UNCHANGED <<driverVars, queueVars, words, translated, countVars, resultVars>>

(* Mutant: the answer is written into the own array, not the peer's. *)
WriteRemoteHere(t) ==
  /\ pc[t] = "deliver" /\ ~Own(t)
  /\ translated' = [translated EXCEPT ![t[1]][ResIndex(t)] = ans[t]]
  /\ Goto(t, "load")
  /\ UNCHANGED <<driverVars, queueVars, req, word, ans, tmp, cache, words, countVars, resultVars>>

(* A word of the peer: trans_word calls word_res there.  The handlers of   *)
(* two calls run side by side and translate_size_super++ is not atomic.    *)
(* (word_res ignores an answer Miss; no caller sends one.)                 *)
WriteRemote(t) ==
  /\ pc[t] = "deliver" /\ ~Own(t)
  /\ translated' = [translated EXCEPT ![Peer(t[1])][ResIndex(t)] = ans[t]]
  /\ Goto(t, "load")
  /\ UNCHANGED <<driverVars, queueVars, req, word, ans, tmp, cache, words, countVars, resultVars>>

(* The call of word_res fails; the caller goes on as if it had not. *)
LoseAnswer(t) ==
  /\ "peer" \in Faults
  /\ pc[t] = "deliver" /\ ~Own(t)
  /\ Goto(t, "memo")
  /\ UNCHANGED <<driverVars, queueVars, req, word, ans, tmp, tableVars, countVars, resultVars>>

LoadCount(t) ==
  /\ pc[t] = "load"
  /\ tmp' = [tmp EXCEPT ![t] = superCount[Peer(t[1])]]
  /\ Goto(t, "store")
  /\ UNCHANGED <<driverVars, queueVars, req, word, ans, tableVars, countVars, resultVars>>

StoreCount(t) ==
  /\ pc[t] = "store"
  /\ superCount' = [superCount EXCEPT ![Peer(t[1])] = tmp[t] + 1]
  /\ tmp' = [tmp EXCEPT ![t] = 0]
  /\ Goto(t, "memoRemote")
  /\ UNCHANGED <<driverVars, queueVars, req, word, ans, tableVars, childCount, resultVars>>

(* Mutant: the key comes from the array of the calling supernode. *)
MemoRemoteByCaller(t) ==
  /\ pc[t] = "memoRemote"
  /\ LET s == Peer(t[1])
     IN  \E m \in Stored(cache[s], words[t[1]][ResIndex(t)], ans[t]) :
            cache' = [cache EXCEPT ![s] = m]
  /\ Goto(t, "memo")
  /\ UNCHANGED <<driverVars, queueVars, req, word, ans, tmp, words, translated, countVars, resultVars>>

(* The handler caches the answer under words[index]; then the call returns *)
(* and the caller caches too.                                              *)
MemoRemote(t) ==
  /\ pc[t] = "memoRemote"
  /\ LET s == Peer(t[1])
     IN  \E m \in Stored(cache[s], words[s][ResIndex(t)], ans[t]) :
            cache' = [cache EXCEPT ![s] = m]
  /\ Goto(t, "memo")
  /\ UNCHANGED <<driverVars, queueVars, req, word, ans, tmp, words, translated, countVars, resultVars>>

ChildThread(t) ==
  \/ Take(t) \/ Ask(t)
  \/ GiveUpOwn(t) \/ GiveUpForeign(t) \/ Consult(t) \/ Move(t) \/ Escalate(t)
  \/ WriteOwn(t) \/ CountOwn(t) \/ Memo(t)
  \/ WriteRemote(t) \/ LoseAnswer(t) \/ LoadCount(t) \/ StoreCount(t) \/ MemoRemote(t)

-----------------------------------------------------------------------------
(* super_word(): takes super_mutex and the front word ... *)
PickWord(s) ==
  /\ sending[s] = NoReq
  /\ super[s] # <<>>
  /\ sending' = [sending EXCEPT ![s] = Head(super[s])]
  /\ super' = [super EXCEPT ![s] = Tail(@)]
  /\ UNCHANGED <<driverVars, q, ran, threadVars, tableVars, countVars, resultVars>>

(* Mutant: ran is used without % child_num. *)
SendWordUnbounded(s) ==
  /\ sending[s] # NoReq
  /\ LET p == Peer(s)
     IN  /\ LockedPush(<<p, ran[p]>>, [sending[s] EXCEPT !.start = ran[p]])
         /\ ran' = [ran EXCEPT ![p] = @ + 1]
  /\ sending' = [sending EXCEPT ![s] = NoReq]
  /\ UNCHANGED <<textVars, cnt, super, threadVars, tableVars, countVars, resultVars>>

(* Mutant: word_req takes the super_mutex of its own supernode. *)
SendWordBothLocks(s) ==
  /\ sending[s] # NoReq /\ sending[Peer(s)] = NoReq
  /\ LET p == Peer(s)
     IN  /\ LockedPush(<<p, ran[p]>>, [sending[s] EXCEPT !.start = ran[p]])
         /\ ran' = [ran EXCEPT ![p] = (@ + 1) % ChildNum[p]]
  /\ sending' = [sending EXCEPT ![s] = NoReq]
  /\ UNCHANGED <<textVars, cnt, super, threadVars, tableVars, countVars, resultVars>>

(* ... calls word_req of the peer, which gives the word to its children in *)
(* turn, and releases the mutex.  Of ran only ran % child_num is kept.     *)
SendWord(s) ==
  /\ sending[s] # NoReq
  /\ LET p == Peer(s)
     IN  /\ LockedPush(<<p, ran[p]>>, [sending[s] EXCEPT !.start = ran[p]])
         /\ ran' = [ran EXCEPT ![p] = (@ + 1) % ChildNum[p]]
  /\ sending' = [sending EXCEPT ![s] = NoReq]
  /\ UNCHANGED <<textVars, cnt, super, threadVars, tableVars, countVars, resultVars>>

(* ... or the call fails, and the word is gone. *)
LoseWord(s) ==
  /\ "peer" \in Faults
  /\ sending[s] # NoReq
  /\ sending' = [sending EXCEPT ![s] = NoReq]
  /\ UNCHANGED <<driverVars, q, super, ran, threadVars, tableVars, countVars, resultVars>>

SuperThread(s) == PickWord(s) \/ SendWord(s) \/ LoseWord(s)

-----------------------------------------------------------------------------
Next ==
  \/ \E txt \in Texts : Accept(txt)
  \/ \E s \in Supers : Driver(s) \/ SuperThread(s)
  \/ \E t \in Threads : ChildThread(t)

Spec == Init /\ [][Next]_vars

(* Every thread runs: the operating system schedules all of them. *)
Fairness ==
  /\ \A s \in Supers : WF_vars(Driver(s)) /\ WF_vars(SuperThread(s))
  /\ \A t \in Threads : WF_vars(ChildThread(t))

FairSpec == Spec /\ Fairness

-----------------------------------------------------------------------------
PhaseNames == {"idle", "deal", "pushing", "overwritten", "file", "join", "reset"}
Labels == {"idle", "ask", "missed", "move", "escalate", "deliver", "count",
           "load", "store", "memoRemote", "memo"}
Entry == Word \cup {NoAnswer}
Answers == Word \cup {Miss}

DriverTypes ==
  /\ jobs \in Nat
  /\ text \in Texts \cup {NoText}
  /\ stale \in Seq(Word)
  /\ phase \in [Supers -> PhaseNames]
  /\ cnt \in [Supers -> Nat]

QueueTypes ==
  /\ q \in [Threads -> Seq(Request)]
  /\ super \in [Supers -> Seq(Request)]
  /\ sending \in [Supers -> Request \cup {NoReq}]
  /\ DOMAIN ran = Supers
  /\ \A s \in Supers : ran[s] \in Children(s)

ThreadTypes ==
  /\ pc \in [Threads -> Labels]
  /\ req \in [Threads -> Request \cup {NoReq}]
  /\ word \in [Threads -> Answers \cup {NoAnswer}]
  /\ ans \in [Threads -> Answers \cup {NoAnswer}]
  /\ tmp \in [Threads -> Nat]

TableTypes ==
  /\ cache \in [Supers -> Maps(Entry, Answers \cup {NoAnswer})]
  /\ words \in [Supers -> [Index -> Entry]]
  /\ translated \in [Supers -> [Index -> Entry]]

CountTypes ==
  /\ childCount \in [Threads -> Nat]
  /\ superCount \in [Supers -> Nat]

ResultTypes ==
  /\ result \in [Supers -> Seq(Entry)]
  /\ result2 \in Seq(Entry) \cup {NoAnswer}
  /\ reply \in Seq(Entry) \cup {NoAnswer}

TypeOK == /\ DriverTypes /\ QueueTypes /\ ThreadTypes
          /\ TableTypes /\ CountTypes /\ ResultTypes

(* The places where word number k of supernode s is still being worked on. *)
Busy(t) == pc[t] \notin {"idle", "memoRemote", "memo"}
Names(r, s, k) == r # NoReq /\ r.super = s /\ r.index = k

InQueues(s, k) ==
  UNION {{t} \X {j \in DOMAIN q[t] : Names(q[t][j], s, k)} : t \in Threads}
InThreads(s, k) == {t \in Threads : Busy(t) /\ Names(req[t], s, k)}
InSupers(s, k) ==
  UNION {{p} \X {j \in DOMAIN super[p] : Names(super[p][j], s, k)} : p \in Supers}
InTransit(s, k) == {p \in Supers : Names(sending[p], s, k)}

Places(s, k) == Cardinality(InQueues(s, k)) + Cardinality(InThreads(s, k))
                + Cardinality(InSupers(s, k)) + Cardinality(InTransit(s, k))

(* Words of a half that are translated and out of every queue and thread. *)
Settled(s) == {k \in Index : /\ k < Len(Half(s))
                             /\ translated[s][k] = Half(s)[k + 1]
                             /\ Places(s, k) = 0}

(* However a word travels between the queues, threads and supernodes, from *)
(* text to text and with calls failing, it is never in two places: it is   *)
(* never translated, delivered or counted twice.  (The pushes and pops of  *)
(* super.cc:344-352,389-392,413-415,450-458,139-141.)                      *)
OnePlace == \A s \in Supers, k \in Index : Places(s, k) <= 1

(* The counters the drivers wait on never run ahead of the words: each     *)
(* unit counted is a word whose translation is in the array, for good      *)
(* (super.cc:157-158,398-399,423-424 write first and count afterwards).    *)
(* It is so while no call fails and for the first text: later a cache may  *)
(* give a wrong translation (161), which is counted all the same.          *)
CountsBacked == \A s \in Supers : Counted(s) <= Cardinality(Settled(s))

(* The word_info r names a word of the present text, at its place in the   *)
(* half of its owner.                                                      *)
Current(r) == /\ r.index < Len(Half(r.super))
              /\ r.word = Half(r.super)[r.index + 1]

(* What a cache gives for a word though it is another word's translation.  *)
Misfits(s) ==
  {<<w, cache[s][w]>> : w \in {v \in DOMAIN cache[s] \cap Word :
                                 cache[s][v] \notin {v, Miss, NoAnswer}}}

(* A call of word_res from supernode 1 has counted an answer (158) and is  *)
(* about to cache it under words[index] (161); by now the next text is     *)
(* there, or task() has not filled the place yet (it queues the word       *)
(* first, 818-821).                                                        *)
Untimely(t) == /\ t[1] = 1 /\ pc[t] = "memoRemote"
               /\ ~Current(req[t]) \/ ResIndex(t) >= cnt[2]

(* For any number of texts and whatever calls fail, a cache comes to give  *)
(* a word the translation of another only at supernode 2 and only when     *)
(* word_res caches an answer too late or too early.  No other interleaving *)
(* puts an answer under the wrong word, and a wrong answer delivered from  *)
(* a cache is never cached again: super.cc:368,406,434 cache what the      *)
(* child said, and the words array of supernode 1, whose word_res hears    *)
(* such an answer, is never filled.                                        *)
(* README.md:32-33: "Cache for supernode saves hit of child nodes and miss *)
(* of child nodes. And the word translation from other supernode".         *)
HitsSound ==
  [][\A s \in Supers :
       \/ Misfits(s)' \subseteq Misfits(s)
       \/ s = 2 /\ \E t \in Threads : Untimely(t) /\ pc'[t] # pc[t]]_vars

(* The reply to the first text has for each of its words, at the place of  *)
(* that word, the translation or, where a call failed, nothing.            *)
ReplyInPlace ==
  jobs = 1 /\ reply # NoAnswer =>
    LET sent == text.first \o text.second
    IN  /\ Len(reply) = Len(sent)
        /\ \A k \in DOMAIN sent : reply[k] \in {sent[k], NoAnswer}

(* The translator implements the service: the reply is the translation of  *)
(* the whole text, in order (README.md:20-21).                             *)
Service == INSTANCE TranslationService
             WITH request <- text, response <- reply, NoReply <- NoAnswer

ImplementsService == Service!Spec

(* A driver that waits although no word of its half is left anywhere.      *)
Starved(s) ==
  /\ phase[s] = "deal"
  /\ cnt[s] = Len(Half(s))
  /\ Counted(s) < Len(Half(s))
  /\ \A k \in Index : Places(s, k) = 0

(* The call that brings supernode 2 its half, or its result back, failed.  *)
HalfLost == "peer" \in Faults /\ phase[2] = "idle" /\ result2 = NoAnswer

(* A word of the peer is sent back: the child it came to missed it, and of *)
(* the cache the thread will learn that all children do (super.cc:383-392). *)
(* The peer does likewise: it remembers the miss itself (368, 388).  So a  *)
(* word that no child knows and that stands in both halves may go between  *)
(* the supernodes for ever, and so may a known one: 406 stores a miss over *)
(* its translation, and ran (137) may lead it to the wrong child each time. *)
SentBack ==
  \E t \in Threads : /\ pc[t] = "missed"
                     /\ ~Own(t)
                     /\ ~LastStop(t)
                     /\ Looked(cache[t[1]], req[t].word) = Miss

(* Every text is answered and its driver is back at accept, unless a word  *)
(* or a half was lost on the way, a count was overwritten, the text is one *)
(* word (an empty second half has an empty result, which super.cc:733      *)
(* waits out for ever), or a word is sent back again and again.  So there  *)
(* is no deadlock on the mutexes, a word travels for ever in no other way  *)
(* than between two caches that hold it as a miss, in particular not round *)
(* the children of a supernode, and what failing calls left behind does    *)
(* not keep a later text from its answer.                                  *)
AnsweredUnlessStarved ==
  \/ []<>SentBack
  \/ phase[1] # "idle" ~>
       \/ phase[1] = "idle" \/ text.blank \/ HalfLost
       \/ \E s \in Supers : Starved(s)

(* README.md:20-21: "if two supernode translate all the words. then it     *)
(* reconstruct message again and send it to client".                       *)
AllTranslated == /\ text # NoText
                 /\ \A s \in Supers : \A k \in 0 .. Len(Half(s)) - 1 :
                      translated[s][k] # NoAnswer

TranslatedThenAnswered == AllTranslated ~> reply # NoAnswer
=============================================================================

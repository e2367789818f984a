------------------------------ MODULE PostBody ------------------------------
(***************************************************************************)
(* How the body of a POST, key=value&key=value, is taken apart behind a    *)
(* head that is read as RequestHead says.                                  *)
(*                                                                         *)
(* The servers of assignment 2 read it byte by byte and wait for each; one *)
(* operator, Blocking, says what they store.  The event-driven server of   *)
(* assignment 3 (a32) is called back with what has arrived and goes on     *)
(* where it stopped: what it needs for that lives in the thread's p_info,  *)
(* which outlives the request.  At the end of its input it does not stop   *)
(* reading at once: evbuffer_remove() then leaves the byte as it was.      *)
(*                                                                         *)
(* A body is a sequence of characters, among them the escapes %3D and %26. *)
(***************************************************************************)
EXTENDS RequestHead, SequencesExt, Parts

CONSTANTS
  Plans,       \* what a thread may be asked one after the other: [head, body]
  MaxRequests, \* bound on the number of these requests
  MaxBody      \* bound on the length of a body, and on a Content-Length

(* A head is a sequence, and the lengths it gives are within the bound. *)
HeadWithin(h) ==
  h \in Seq(ToSet(h)) /\ \A i \in Places(h, LengthNames) : h[i][2] \in 0 .. MaxBody

(* So is the body. *)
BodyWithin(s) == s \in Seq(STRING) /\ Len(s) <= MaxBody

ASSUME PostBodyAssumption ==
  /\ MaxBody \in Nat /\ MaxRequests \in Nat
  /\ \A p \in Plans : /\ Len(p) \in 1 .. MaxRequests
                      /\ \A n \in 1 .. Len(p) : HeadWithin(p[n].head) /\ BodyWithin(p[n].body)

NoChar == "0"                         \* a byte nobody has written
KeySize == MaxRequests * MaxBody      \* no key becomes longer
Cells == [i \in 0 .. KeySize |-> NoChar]   \* a buffer, empty
Bytes(buffer, n) == [i \in 1 .. n |-> buffer[i - 1]]

-----------------------------------------------------------------------------
(* What a body means: keys end at the first '=', values at the first '&'.  *)

(* What url_decode() makes of an escape: what it is not sure of stays '%'. *)
Decoded(escape) ==
  CASE escape = <<"%", "3", "D">> -> "="
    [] escape = <<"%", "2", "6">> -> "&"
    [] OTHER -> "%"

(* The first place of ch in s at or after i; one past the end if none. *)
Next1(s, ch, i) == Min({j \in i .. Len(s) : s[j] = ch} \cup {Len(s) + 1})

(* The pairs of s, as the places where they begin, of their '=' and of     *)
(* their ends: one more of them behind these, while there is an '='.       *)
Rest(spans) == IF spans = <<>> THEN 1 ELSE spans[Len(spans)][3] + 1

OneMoreSpan(s, spans) ==
  LET eq == Next1(s, "=", Rest(spans))
  IN  IF eq > Len(s) THEN spans
      ELSE Append(spans, <<Rest(spans), eq, Next1(s, "&", eq + 1)>>)

SpansOf(s) ==
  LET upTo[n \in 0 .. Len(s)] == IF n = 0 THEN <<>> ELSE OneMoreSpan(s, upTo[n - 1])
  IN  upTo[Len(s)]

PairsOf(s) ==
  LET spans == SpansOf(s)
  IN  [n \in DOMAIN spans |->
         <<SubSeq(s, spans[n][1], spans[n][2] - 1),
           SubSeq(s, spans[n][2] + 1, spans[n][3] - 1)>>]

(* The same without the escapes: where one ends, what it stands for. *)
Unescaped(s) ==
  LET begins(i) == i > 0 /\ s[i] = "%"
      at(i) == IF begins(i - 2) THEN <<Decoded(SubSeq(s, i - 2, i))>>
               ELSE IF begins(i - 1) \/ begins(i) THEN <<>>
               ELSE <<s[i]>>
  IN  Joined([i \in 1 .. Len(s) |-> at(i)])

(* Every '%' has its two digits: no separator, other escape or end of the  *)
(* body comes between.                                                     *)
EscapesWhole(s) ==
  \A i \in 1 .. Len(s) : s[i] = "%" =>
    i + 2 <= Len(s) /\ \A j \in i + 1 .. i + 2 : s[j] \notin {"%", "=", "&"}

(* A body that ends in a value. *)
EndsInValue(s) ==
  LET spans == SpansOf(s) IN spans # <<>> /\ spans[Len(spans)][3] = Len(s) + 1
-----------------------------------------------------------------------------
(* The servers of assignment 2, character by character.  size is the       *)
(* length of buf; escape holds what is read of an escape.                  *)

Begin == [state |-> 1, buf |-> <<>>, key |-> <<>>, escape |-> <<>>, sets |-> <<>>]

(* Mutant: a character that was escaped is looked at like any other. *)
TakeEscapedPlain(p, ch) ==
  LET e == Append(p.escape, ch) IN
  IF Len(e) < 3 THEN [p EXCEPT !.escape = e]
  ELSE IF Decoded(e) = "=" /\ p.state = 1
       THEN [p EXCEPT !.escape = <<>>, !.key = p.buf, !.buf = <<>>, !.state = 2]
       ELSE [p EXCEPT !.escape = <<>>, !.buf = Append(@, Decoded(e))]

TakeEscaped(p, ch) ==
  LET e == Append(p.escape, ch) IN
  IF Len(e) < 3 THEN [p EXCEPT !.escape = e]
                ELSE [p EXCEPT !.escape = <<>>, !.buf = Append(@, Decoded(e))]

TakeChar(p, ch, encode) ==
  CASE p.escape # <<>> -> TakeEscaped(p, ch)
    [] p.escape = <<>> /\ ch = "=" /\ p.state = 1 ->
         [p EXCEPT !.key = p.buf, !.buf = <<>>, !.state = 2]
    [] p.escape = <<>> /\ ch = "&" /\ p.state = 2 ->
         [p EXCEPT !.sets = Append(@, <<p.key, p.buf>>), !.buf = <<>>, !.state = 1]
    [] p.escape = <<>> /\ ch = "%" /\ encode -> [p EXCEPT !.escape = <<ch>>]
    [] OTHER -> [p EXCEPT !.buf = Append(@, ch)]

(* The SETs sent for a body; the last value has no '&' behind it.          *)
Blocking(s, encode) ==
  LET read[n \in 0 .. Len(s)] ==
        IF n = 0 THEN Begin ELSE TakeChar(read[n - 1], s[n], encode)
      p == read[Len(s)]
  IN  IF p.state = 2 THEN Append(p.sets, <<p.key, p.buf>>) ELSE p.sets

-----------------------------------------------------------------------------
(* The server of assignment 3: one thread, one request after the other. *)

VARIABLES
  plan, request,        \* the requests of this thread, the number of the latest
  came,                 \* characters of the body that came
  thread,               \* p_info[i]: working, state, length, key, key_size
  sets, response,       \* the APPENDs of this request, what was answered
  cutInside,            \* no part ended at a separator, nor with the header
  clean                 \* no earlier request has left a part of its key behind

head == plan[request].head
body == plan[request].body

bodyVars == <<plan, request, came, thread, sets, response, cutInside, clean>>

BodyInit ==
  /\ plan \in Plans /\ request = 1 /\ came = 0
  /\ sets = <<>> /\ response = "none" /\ cutInside = TRUE /\ clean = TRUE
  /\ thread = [working |-> 0, state |-> 0, length |-> 0, key |-> Cells, key_size |-> 0]

(* evbuffer_remove(input, cell, 1). *)
Removed(p, buffer) == [buffer EXCEPT ![p.size] = IF p.input = <<>> THEN @ ELSE Head(p.input)]

(* Mutant: the last byte that came is not counted. *)
TakenLess(p) == p.size

(* size++ before what came is sent off or kept. *)
Taken(p) == p.size + 1

(* The APPEND of n bytes of the value; with result 0 read_cb answers 404   *)
(* and returns, and the thread's key_size stays, as does what p says of    *)
(* its length: that of a value to be continued is stored before (441).     *)
Stored(p, n, then) ==
  IF Len(p.sets) = p.refused
  THEN [p EXCEPT !.back = TRUE, !.response = "404"]
  ELSE [then EXCEPT !.sets = Append(@, <<Bytes(p.key, p.key_size), Bytes(p.value, n)>>)]

(* One turn of the loop over the body; left is len, and back says that the *)
(* callback has returned.                                                  *)
Turn(p) ==
  LET q == [p EXCEPT !.key   = IF p.state = 1 THEN Removed(p, @) ELSE @,
                     !.value = IF p.state = 2 THEN Removed(p, @) ELSE @,
                     !.input = IF p.input = <<>> THEN <<>> ELSE Tail(p.input),
                     !.left  = @ - 1]
      starved == q.input = <<>> /\ q.left > 0
  IN
  CASE p.back \/ p.left = 0 -> p
    [] ~p.back /\ p.left > 0 /\ p.state = 1 /\ q.key[p.size] = "=" ->
         [q EXCEPT !.key = [q.key EXCEPT ![p.size] = NoChar], !.key_size = p.size,
                   !.size = 0, !.state = 2]
    [] ~p.back /\ p.left > 0 /\ p.state = 2 /\ q.value[p.size] = "&" ->
         Stored(q, p.size, [q EXCEPT !.key_size = 0, !.size = 0, !.state = 1])
    [] ~p.back /\ p.state = 2 /\ q.value[p.size] # "&" /\ starved ->
         Stored([q EXCEPT !.length = q.left], Taken(p), [q EXCEPT !.length = q.left, !.back = TRUE])
    [] ~p.back /\ p.state = 1 /\ q.key[p.size] # "=" /\ starved ->
         [q EXCEPT !.key_size = Taken(p), !.length = q.left, !.back = TRUE]
    [] OTHER -> [q EXCEPT !.size = @ + 1]

(* The last value, when the loop has come to its end: it is stored and the *)
(* client hears OK.  After a body that ends in a key it hears nothing.     *)
BodyEnd(p) ==
  IF p.back \/ p.state # 2 THEN p
  ELSE Stored(p, p.size, [p EXCEPT !.state = 1, !.length = 0, !.key_size = 0, !.response = "ok"])

(* One call of read_cb with input, the refused-th APPEND of the request    *)
(* being refused.  A byte of value not written is taken to be NoChar.      *)
Called(th, input, refused) ==
  LET first == [state |-> th.state, key |-> th.key, key_size |-> th.key_size,
                length |-> th.length, left |-> th.length,
                size |-> IF th.state = 1 THEN th.key_size ELSE 0,
                value |-> Cells, input |-> input, sets |-> sets, refused |-> refused,
                back |-> FALSE, response |-> "none"]
      turn[i \in 0 .. th.length] == IF i = 0 THEN first ELSE Turn(turn[i - 1])
  IN  BodyEnd(turn[th.length])

(* Mutant: the length is one too many. *)
OpenedOver(th) == [th EXCEPT !.working = 1, !.state = 1, !.length = @ + 1]

(* A POST is taken up. *)
Opened(th) == [th EXCEPT !.working = 1, !.state = 1]

Separators == UNION {{span[2], span[3]} : span \in ToSet(SpansOf(body))}

(* read_cb, called with the next n characters of the body. *)
ReadBody(th, n) ==
  /\ \E refused \in {-1} \cup (Len(sets) .. Len(sets) + 1) :
       LET p == Called(th, SubSeq(body, came + 1, came + n), refused)
       IN  /\ sets' = p.sets /\ response' = p.response
           /\ thread' = [working |-> 1, state |-> p.state, length |-> p.length,
                         key |-> p.key, key_size |-> p.key_size]
  /\ came' = came + n
  /\ cutInside' = (cutInside /\ (came' = Len(body) \/ came' \notin Separators \cup {0}))
  /\ UNCHANGED <<plan, request, clean>>

(* The first call: the head has come whole, and n characters behind it.    *)
(* What answers a GET is not part of this module.                          *)
ReadHead(n) ==
  LET read == EventHead(head, thread.length)
      th == [thread EXCEPT !.length = read.length]
  IN  /\ response = "none" /\ thread.working = 0 /\ came + n <= Len(body)
      /\ IF read.verdict.does = "post" THEN ReadBody(Opened(th), n)
         ELSE /\ response' = read.verdict.does /\ thread' = th
              /\ UNCHANGED <<plan, request, came, sets, cutInside, clean>>

ReadOn(n) ==
  /\ response = "none" /\ thread.working = 1 /\ n > 0 /\ came + n <= Len(body)
  /\ ReadBody(thread, n)

(* The thread is given its next connection, the last one being answered or *)
(* its client gone: dequeue_task sets working to 0 and nothing else.       *)
NextRequest ==
  /\ request < Len(plan) /\ response # "crash"
  /\ request' = request + 1 /\ came' = 0
  /\ sets' = <<>> /\ response' = "none" /\ cutInside' = TRUE
  /\ clean' = (response = "ok" \/ thread.key_size = 0)
  /\ thread' = [thread EXCEPT !.working = 0]
  /\ UNCHANGED plan

BodyNext == NextRequest \/ \E n \in 0 .. MaxBody : ReadHead(n) \/ ReadOn(n)

BodySpec == BodyInit /\ [][BodyNext]_bodyVars

-----------------------------------------------------------------------------
BodyTypeOK ==
  /\ request \in 1 .. Len(plan) /\ came \in 0 .. Len(body)
  /\ thread.working \in {0, 1} /\ thread.state \in {0, 1, 2}
  /\ thread.length \in 0 .. MaxBody /\ thread.key_size \in 0 .. KeySize
  /\ DOMAIN thread.key = 0 .. KeySize
  /\ response \in {"none", "ok", "404", "get", "crash"}

(* Both servers take a head for what it means: whatever the order of its   *)
(* lines, whichever are missing or come twice, and whatever length is left *)
(* in p_info from an earlier request of the thread                         *)
(* (http_parse.c:16-205; webserver1.c:160-276).                            *)
HeadsRead ==
  /\ BlockingHead(head) = Meant(head)
  /\ thread.working = 0 =>
       EventHead(head, thread.length).verdict = [Meant(head) EXCEPT !.encode = FALSE]

(* The blocking parser stores the pairs of the body, each part unescaped   *)
(* if the head says so: an escaped '=' or '&' belongs to the key or value  *)
(* it stands in (webserver_fork.c:133-199).  A '%' without its two digits  *)
(* takes what follows for them, and waits for what does not follow.        *)
BlockingRight ==
  LET parts == PairsOf(body)
      encode == BlockingHead(head).encode
      Meaning(part) == IF encode THEN Unescaped(part) ELSE part
  IN  (encode => EscapesWhole(body)) =>
        Blocking(body, encode) =
          [n \in DOMAIN parts |-> <<Meaning(parts[n][1]), Meaning(parts[n][2])>>]

(* What Redis holds under k after these commands on an empty store. *)
Total(pairs, k) ==
  Joined([n \in 1 .. Len(pairs) |-> IF pairs[n][1] = k THEN pairs[n][2] ELSE <<>>])
KeysOf(pairs) == {pairs[n][1] : n \in DOMAIN pairs}

(* However a body is cut into parts, as long as no cut is right behind a   *)
(* separator or the header and no earlier request of the thread has left a *)
(* part of its key behind, the client hears OK when its body is through,   *)
(* and never before its values are stored whole and under their keys       *)
(* (webserver1.c:292-532).  A request that was answered OK leaves nothing. *)
StoredAsSent ==
  clean /\ cutInside /\ response # "404" /\ Meant(head).length = Len(body) =>
    /\ came = Len(body) /\ EndsInValue(body) => response = "ok"
    /\ response = "ok" =>
         /\ came = Len(body)
         /\ KeysOf(sets) = KeysOf(PairsOf(body))
         /\ \A k \in KeysOf(sets) : Total(sets, k) = Total(PairsOf(body), k)
=============================================================================

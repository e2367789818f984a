---------------------------- MODULE TextPipeline ----------------------------
(***************************************************************************)
(* The characters of a text on their way through assignment 4 (super.cc,   *)
(* client.cc): the client's frame, the cut of buf into two halves, the     *)
(* parser of a half into words and what stands between them, and the       *)
(* assembly of the translated halves, for several texts after each other.  *)
(*                                                                         *)
(* How the words of a half are translated is the subject of Translator;    *)
(* here all of them come back, in a step of each supernode.  What lives on *)
(* from text to text is kept: buf, of which only the first eight bytes are *)
(* cleared, and translated_word, which is not cleared at all.  A text      *)
(* comes when supernode 2 has cleaned up after the last.                   *)
(***************************************************************************)
EXTENDS Parts

CONSTANTS
  Letter,     \* the characters isalnum() accepts
  Sign,       \* some it does not
  Nul,        \* the byte 0
  Texts,      \* the texts of the clients
  BufSize,    \* bound on the bytes of buf in use, more than any text has
  Cleared,    \* the bytes memset(buf, 0, sizeof(buf)) clears, 8
  MaxTexts    \* bound on the number of texts

ASSUME TextPipelineAssumption ==
  /\ Letter \cap Sign = {} /\ Nul \notin Letter \cup Sign
  /\ Texts \subseteq Seq(Letter \cup Sign)
  /\ \A txt \in Texts : Len(txt) \in 1 .. BufSize - 1
  /\ BufSize \in Nat /\ Cleared \in 1 .. BufSize
  /\ MaxTexts \in Nat

Supers == {1, 2}
Alnum(x) == x \in Letter

(* A reply is a sequence of signs and of translations of words. *)
Kept(x) == [of |-> <<x>>, is |-> "sign"]
Meaning(w) == [of |-> w, is |-> "translation"]

VARIABLES
  jobs,        \* how many texts have arrived
  longest,     \* the longest of those before the latest
  text,        \* the latest text, as far as it came
  stays,       \* its client sent all of it and is there to take the reply
  step,        \* where main() of supernode 1 stands
  buf,         \* buf of supernode 1; buf[n + 1] is its byte n
  half_size,
  rest,        \* buf of supernode 2, what line_req brought
  pending,     \* the supernodes that have not translated their half yet
  translated,  \* translated_word of each, a sequence from word 0 on
  extra,       \* the place behind the last word is in use from before
  result,      \* result of supernode 1
  result2,
  reply        \* what the latest client received

vars == <<jobs, longest, text, stays, step, buf, half_size, rest, pending,
          translated, extra, result, result2, reply>>

-----------------------------------------------------------------------------
(* The parser.  state says whether the last character was part of a word;  *)
(* w and nw hold what is being read.                                       *)

(* Mutant: nothing is put before a word the half begins with. *)
BegunBare(s) == [word |-> <<>>, non_word |-> <<>>, w |-> <<>>, nw |-> <<>>,
                 state |-> IF s # <<>> /\ Alnum(s[1]) THEN 1 ELSE 0]

(* A half that begins with a word has the empty string before it. *)
Begun(s) ==
  LET inWord == s # <<>> /\ Alnum(s[1])
  IN  [word |-> <<>>, non_word |-> IF inWord THEN << <<>> >> ELSE <<>>,
       w |-> <<>>, nw |-> <<>>, state |-> IF inWord THEN 1 ELSE 0]

Step(m, x) ==
  LET starts == Alnum(x) /\ m.state = 0
      ends   == ~Alnum(x) /\ m.state = 1
  IN  [word |-> IF ends THEN Append(m.word, m.w) ELSE m.word,
       non_word |-> IF starts THEN Append(m.non_word, m.nw) ELSE m.non_word,
       w |-> IF Alnum(x) THEN Append(m.w, x) ELSE <<>>,
       nw |-> IF Alnum(x) THEN <<>> ELSE Append(m.nw, Kept(x)),
       state |-> IF Alnum(x) THEN 1 ELSE 0]

Ended(m) ==
  [word |-> IF m.state = 1 THEN Append(m.word, m.w) ELSE m.word,
   non_word |-> IF m.state = 0 THEN Append(m.non_word, m.nw) ELSE m.non_word]

Parse(s) ==
  LET read[n \in 0 .. Len(s)] == IF n = 0 THEN Begun(s) ELSE Step(read[n - 1], s[n])
  IN  Ended(read[Len(s)])

-----------------------------------------------------------------------------
(* translated_word once the words of a half are translated. *)
Translated(old, words) ==
  [i \in 1 .. Len(old) |-> IF i <= Len(words) THEN <<Meaning(words[i])>> ELSE old[i]]

(* The result of a half: what stands before each word, and the word's      *)
(* translation; behind the last non-word stands the next place of the      *)
(* array, whether there is a word for it or not.                           *)
Assemble(non_word, tr) ==
  Joined([i \in 1 .. Len(non_word) |-> non_word[i] \o tr[i]])

(* The bytes before the first 0: what strcpy copies and strlen counts. *)
UpTo(s, end) ==
  LET at == {i \in 1 .. Len(s) : s[i] = end}
  IN  IF at = {} THEN s
      ELSE SubSeq(s, 1, (CHOOSE i \in at : \A j \in at : i <= j) - 1)

(* Mutant: the copy takes the whole buffer along. *)
StringWhole(s) == s

String(s) == UpTo(s, Nul)
Sent(r) == UpTo(r, Kept(Nul))

(* What the client is sent: strlen of the reply, and that many bytes. *)
Message(r) == [length |-> Len(Sent(r)), bytes |-> Sent(r)]

(* buf after n bytes of txt have been read over its beginning. *)
ReadInto(txt, n) == [i \in 1 .. BufSize |-> IF i <= n THEN txt[i] ELSE buf[i]]

(* The first half ends before the first character from the middle on that  *)
(* is not of a word, or where the text ends; half_size is compared with    *)
(* the bytes read, which are fewer than length when the client has left.   *)
Cut(b, length, size) ==
  LET middle == length \div 2
      ends == {h \in middle .. BufSize - 1 : ~Alnum(b[h + 1]) \/ h = size}
  IN  CHOOSE h \in ends : \A g \in ends : h <= g

Clean(b) == [i \in 1 .. BufSize |-> IF i <= Cleared THEN Nul ELSE b[i]]

-----------------------------------------------------------------------------
Init ==
  /\ jobs = 0 /\ longest = 0
  /\ text = <<>> /\ stays = TRUE
  /\ step = "accept"
  /\ buf = [i \in 1 .. BufSize |-> Nul]
  /\ half_size = 0
  /\ rest = <<>>
  /\ pending = {}
  /\ translated = [s \in Supers |-> [i \in 1 .. BufSize |-> <<>>]]
  /\ extra = FALSE
  /\ result = <<>> /\ result2 = <<>> /\ reply = <<>>

(* What the client sends: the length of its file and the file, or the      *)
(* first n bytes when it goes away.                                        *)
Framed(txt, n) == [length |-> Len(txt), bytes |-> SubSeq(txt, 1, n)]

(* What it writes to its result file: as many bytes as it was told.        *)
Received(message) == SubSeq(message.bytes, 1, message.length)

(* main() reads a text and cuts it, and line_req starts task() on          *)
(* supernode 2.                                                            *)
Arrive(frame) ==
  LET n == Len(frame.bytes) IN
  /\ step = "accept" /\ jobs < MaxTexts
  /\ jobs' = jobs + 1
  /\ text' = frame.bytes
  /\ stays' \in IF n = frame.length THEN BOOLEAN ELSE {FALSE}
  /\ buf' = ReadInto(frame.bytes, n)
  /\ half_size' = Cut(buf', frame.length, n)
  /\ rest' = String(SubSeq(buf', half_size' + 1, BufSize))
  /\ pending' = Supers
  /\ extra' = FALSE
  /\ step' = "translate"
  /\ reply' = <<>>
  /\ UNCHANGED <<longest, translated, result, result2>>

Half(s) == IF s = 1 THEN SubSeq(buf, 1, half_size) ELSE rest

(* Mutant: supernode 1 clears result2 before it waits for it. *)
FinishedClearing(s, r) ==
  IF s = 1 THEN result' = r /\ result2' = <<>>
           ELSE result2' = r /\ UNCHANGED result

(* The assembled half; that of supernode 2 is delivered by get_result. *)
Finished(s, r) ==
  IF s = 1 THEN result' = r /\ UNCHANGED result2
           ELSE result2' = r /\ UNCHANGED result

(* Supernode s parses its half and assembles it from the translations. *)
Translate(s) ==
  LET parsed == Parse(Half(s))
      tr == Translated(translated[s], parsed.word)
      beyond == Len(parsed.non_word) > Len(parsed.word)
  IN  /\ s \in pending
      /\ pending' = pending \ {s}
      /\ translated' = [translated EXCEPT ![s] = tr]
      /\ extra' = (extra \/ (beyond /\ tr[Len(parsed.non_word)] # <<>>))
      /\ Finished(s, Assemble(parsed.non_word, tr))
      /\ UNCHANGED <<jobs, longest, text, stays, step, buf, half_size, rest, reply>>

(* Both halves are there, the second is not empty: the client is sent the  *)
(* length of the reply and the reply.  When the client has closed its end, *)
(* the second send may end the process (SIGPIPE).                          *)
Reply ==
  /\ step = "translate" /\ 1 \notin pending
  /\ result2 # <<>>
  /\ \/ /\ reply' = IF stays THEN Received(Message(result \o result2)) ELSE <<>>
        /\ step' = "replied"
     \/ /\ ~stays
        /\ step' = "killed"
        /\ UNCHANGED reply
  /\ UNCHANGED <<jobs, longest, text, stays, buf, half_size, rest, pending,
                 translated, extra, result, result2>>

(* The lists and result2 are cleared, and the beginning of buf. *)
Reset ==
  /\ step = "replied" /\ pending = {}
  /\ step' = "accept"
  /\ buf' = Clean(buf)
  /\ longest' = IF Len(text) > longest THEN Len(text) ELSE longest
  /\ result' = <<>> /\ result2' = <<>>
  /\ UNCHANGED <<jobs, text, stays, half_size, rest, pending, translated, extra, reply>>

Next ==
  \/ \E txt \in Texts : \E n \in 1 .. Len(txt) : Arrive(Framed(txt, n))
  \/ \E s \in Supers : Translate(s)
  \/ Reply
  \/ Reset

Spec == Init /\ [][Next]_vars

-----------------------------------------------------------------------------
Piece == [of : Seq(Letter \cup Sign \cup {Nul}), is : {"sign", "translation"}]

TypeOK ==
  /\ jobs \in 0 .. MaxTexts /\ longest \in 0 .. BufSize
  /\ text \in Seq(Letter \cup Sign) /\ stays \in BOOLEAN
  /\ step \in {"accept", "translate", "replied", "killed"}
  /\ buf \in [1 .. BufSize -> Letter \cup Sign \cup {Nul}]
  /\ half_size \in 0 .. BufSize - 1
  /\ rest \in Seq(Letter \cup Sign)
  /\ pending \subseteq Supers
  /\ \A s \in Supers : /\ Len(translated[s]) = BufSize
                       /\ \A i \in 1 .. BufSize : translated[s][i] \in Seq(Piece)
  /\ extra \in BOOLEAN
  /\ {result, result2, reply} \subseteq Seq(Piece)

(* What a text should come back as, told by position: a sign as itself,    *)
(* and at the last letter of a word the translation of the whole word.     *)
Reference(txt) ==
  LET inWord(i, j) == \A k \in i .. j : Alnum(txt[k])
      begin(i) == CHOOSE j \in 1 .. i : inWord(j, i) /\ (j = 1 \/ ~Alnum(txt[j - 1]))
      at(i) == IF ~Alnum(txt[i]) THEN <<Kept(txt[i])>>
               ELSE IF i < Len(txt) /\ Alnum(txt[i + 1]) THEN <<>>
               ELSE <<Meaning(SubSeq(txt, begin(i), i))>>
  IN  Joined([i \in 1 .. Len(txt) |-> at(i)])

(* The reply is the text with each word translated and all else in its     *)
(* place, wherever the text is cut, as long as the text is not one of      *)
(* eight or more characters after a longer one and no half that ends in a  *)
(* sign finds a translation left from an earlier text behind its last word *)
(* (super.cc:623-683,724-741,748,766-804,848-856; README.md:20-21 "then it *)
(* reconstruct message again and send it to client").                      *)
ReplyRight ==
  (step = "replied" /\ stays) =>
    \/ reply = Reference(text)
    \/ extra
    \/ Cleared <= Len(text) /\ Len(text) < longest

(* main() waits for a result2 that is not empty.  When both halves are     *)
(* translated it has one, unless nothing was left for the second half, and *)
(* never one of an earlier text: whichever half is ready first, and        *)
(* whatever texts came before, cut short or not (super.cc:733,745,858).    *)
WaitEnds ==
  (step = "translate" /\ pending = {} /\ rest # <<>>) => result2 # <<>>
=============================================================================

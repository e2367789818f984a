------------------------- MODULE TranslationService -------------------------
(***************************************************************************)
(* What a client of assignment 4 is promised: it hands a text to the first *)
(* supernode and gets the translation of that text, whole and in order,    *)
(* once, before the next text is taken up (README.md:13-21,28-29).  A text *)
(* is the pair of halves the two supernodes work on, each the sequence of  *)
(* its words; the translation of a word is named by the word itself.       *)
(***************************************************************************)
EXTENDS Sequences

CONSTANTS
  Texts,      \* the texts a client may send
  NoText,     \* no text has been sent
  NoReply     \* nothing has been sent back

VARIABLES
  request,    \* the text accepted
  response    \* the words sent back

vars == <<request, response>>

Init ==
  /\ request = NoText
  /\ response = NoReply

Accept(txt) ==
  /\ request = NoText \/ response # NoReply
  /\ request' = txt
  /\ response' = NoReply

Respond ==
  /\ request # NoText
  /\ response = NoReply
  /\ response' = request.first \o request.second
  /\ UNCHANGED request

Next == (\E txt \in Texts : Accept(txt)) \/ Respond

Spec == Init /\ [][Next]_vars
=============================================================================

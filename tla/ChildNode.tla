----------------------------- MODULE ChildNode ------------------------------
(***************************************************************************)
(* A child process (child.cc): the handler getvalue, the cache word_cache  *)
(* in front of the database process (python_DB.py), and a database that    *)
(* may be out of reach.                                                    *)
(*                                                                         *)
(* The thread child_word(i) of one supernode is the only caller and waits  *)
(* for each answer, so one call runs at a time.  The handler looks at no   *)
(* Status: a call of the database that fails leaves the default value "",  *)
(* which is answered and cached like a translation.                        *)
(***************************************************************************)
EXTENDS LruCache

CONSTANTS
  Translation,  \* the translations the database holds
  Miss,         \* "\0", the database's answer for a word it does not hold
  Dictionary,   \* dic of python_DB.py, for some of the words
  NoWord        \* no call runs

ASSUME ChildNodeAssumption ==
  /\ Dictionary \in Maps(Key, Translation)
  /\ Value = Translation \cup {Miss, NoAnswer}
  /\ Miss \notin Translation /\ NoAnswer \notin Translation /\ Miss # NoAnswer
  /\ NoWord \notin Key

VARIABLES
  asked,    \* word, the word of the latest call of getvalue
  call,     \* that call: "none" yet, "running", or returned with an answer
            \* from the "cache", from the "database" or from a "failed" call
  response  \* the word of its response

childVars == <<asked, call, response>>

(* AccessDB. *)
AccessDB(w) == IF w \in DOMAIN Dictionary THEN Dictionary[w] ELSE Miss

-----------------------------------------------------------------------------
ChildInit ==
  /\ Init
  /\ asked = NoWord /\ call = "none" /\ response = NoAnswer

(* Mutant: whatever is cached counts as an answer. *)
HitEmpty(w) ==
  /\ call # "running"
  /\ GetHit(w)
  /\ asked' = w /\ call' = "cache" /\ response' = answer'

(* The cache has an answer that is not empty. *)
Hit(w) ==
  /\ call # "running"
  /\ GetHit(w) /\ answer' # NoAnswer
  /\ asked' = w /\ call' = "cache" /\ response' = answer'

(* Nothing is cached, or an empty answer, which getvalue has moved to the  *)
(* front of the list; the database is called.                              *)
Ask(w) ==
  /\ call # "running"
  /\ GetHit(w) \/ GetMiss(w)
  /\ answer' = NoAnswer
  /\ asked' = w /\ call' = "running" /\ response' = NoAnswer

(* The answer v of the database is passed on and cached. *)
Respond(v) ==
  /\ response' = v
  /\ SetValue(asked, v)
  /\ UNCHANGED asked

Answered == call = "running" /\ call' = "database" /\ Respond(AccessDB(asked))

Failed == call = "running" /\ call' = "failed" /\ Respond(NoAnswer)

ChildNext == (\E w \in Key : Hit(w) \/ Ask(w)) \/ Answered \/ Failed

ChildSpec == ChildInit /\ [][ChildNext]_<<vars, childVars>>

-----------------------------------------------------------------------------
(* A child answers what the database says of the word, also after any      *)
(* number of evictions and failures; it answers "" only when the database  *)
(* failed in this very call, never because it failed before                *)
(* (child.cc:109-124).                                                     *)
AnswersDatabase ==
  /\ call \in {"cache", "database"} => response = AccessDB(asked)
  /\ call = "failed" => response = NoAnswer
=============================================================================

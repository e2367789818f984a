---------------------------- MODULE MCTranslator ----------------------------
(***************************************************************************)
(* Translator for TLC: who knows which word, and the texts the client may  *)
(* send, built from small sets.                                            *)
(***************************************************************************)
EXTENDS Translator

CONSTANTS a, b, c, d  \* four words, the last unknown to every child

(* Two children at both supernodes. *)
TwoTwo == [s \in {1, 2} |-> 2]
KnowsTwoTwo == [t \in {1, 2} \X {0, 1} |->
                  CASE t = <<1, 0>> -> {a}
                    [] t = <<1, 1>> -> {b}
                    [] t = <<2, 0>> -> {c}
                    [] t = <<2, 1>> -> {a}]

(* One child at supernode 1, two at supernode 2. *)
OneTwo == [s \in {1, 2} |-> s]
KnowsOneTwo == [t \in {<<1, 0>>, <<2, 0>>, <<2, 1>>} |->
                  CASE t = <<1, 0>> -> {a}
                    [] t = <<2, 0>> -> {c}
                    [] t = <<2, 1>> -> {b}]

Halves(n) == UNION {[1 .. m -> {a, b, c}] : m \in 0 .. n}

HalvesText(f, g) == [first |-> f, second |-> g, blank |-> FALSE]

(* Texts with at most two words in the first half and one in the second.   *)
Texts21 == {HalvesText(f, g) : f \in Halves(2), g \in Halves(1)}

(* Those, longer texts chosen so that words of both supernodes are         *)
(* looked for on the other side, at the same time and twice, and texts     *)
(* with a word nobody knows in both halves.                                *)
TextsShared == Texts21 \cup
  {HalvesText(<<a, a>>, <<a, a>>), HalvesText(<<c, b>>, <<a, c>>),
   HalvesText(<<c>>, <<b, b>>),
   HalvesText(<<d>>, <<d>>), HalvesText(<<a, d>>, <<d>>)}

(* Short texts that can follow each other, with words for the other side   *)
(* and different words in the same place of the second half; the last is   *)
(* one word, so that its second half is the empty string.                  *)
TextsTwice ==
  {HalvesText(<<a, c>>, <<>>), HalvesText(<<>>, <<a>>), HalvesText(<<c>>, <<b>>),
   HalvesText(<<a>>, <<b>>),
   [first |-> <<a>>, second |-> <<>>, blank |-> TRUE]}

(* Two words answered by the peer at the same time.                        *)
TextRemotePair == {HalvesText(<<c, b>>, <<>>)}
=============================================================================

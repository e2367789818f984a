--------------------------- MODULE MCTextPipeline ---------------------------
(***************************************************************************)
(* TextPipeline for TLC: all texts of at most three characters, and some   *)
(* that are longer than what is cleared after a text.                      *)
(***************************************************************************)
EXTENDS TextPipeline

CONSTANTS a, b, s

MCTexts ==
  UNION {[1 .. n -> {a, b, s}] : n \in 1 .. 3}
  \cup {<<s, a, s, b, s, s>>,
        <<a, s, b, b, s, a, a, s>>, <<s, s, a, b, a, b, a, s, b>>,
        <<b, b, s, a, s, s, b, a, b, s, a>>}
=============================================================================

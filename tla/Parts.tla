------------------------------- MODULE Parts --------------------------------
(***************************************************************************)
(* Sequences put together from parts.                                      *)
(***************************************************************************)
EXTENDS Naturals, Sequences

(* The sequences of parts one after the other. *)
Joined(parts) ==
  LET upTo[n \in 0 .. Len(parts)] == IF n = 0 THEN <<>> ELSE upTo[n - 1] \o parts[n]
  IN  upTo[Len(parts)]
=============================================================================

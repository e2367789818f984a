--------------------------- MODULE MCFileTransfer ---------------------------
(***************************************************************************)
(* FileTransfer for TLC: client a uploads two blocks, b one, both under    *)
(* the name f; m runs client_multi.                                        *)
(***************************************************************************)
EXTENDS FileTransfer

CONSTANTS a, b, m, p1, p2

MCLength == [c \in Client |-> CASE c = a -> 3 [] c = b -> 2 [] OTHER -> 1]
MCName == [c \in Client |-> "f"]
=============================================================================

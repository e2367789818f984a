---------------------------- MODULE MCWebServers ----------------------------
(***************************************************************************)
(* WebServers for TLC: a and b post the same two keys; x reads one of them *)
(* or posts nothing or asks something else.                                *)
(***************************************************************************)
EXTENDS WebServers

CONSTANTS a, b, x

Post(v) == [method |-> "POST", pairs |-> <<<<"k1", v>>, <<"k2", v>>>>]

MCRequests ==
  [c \in Client |->
     CASE c = a -> {Post("va")}
       [] c = b -> {Post("vb")}
       [] OTHER -> {[method |-> "GET", pairs |-> <<<<"k1", "">>>>],
                    [method |-> "POST", pairs |-> <<>>],
                    [method |-> "HEAD", pairs |-> <<>>]}]
=============================================================================

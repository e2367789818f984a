---------------------------- MODULE MCRedisPool ----------------------------
(* RedisPool for TLC: the requests clients send. *)
EXTENDS RedisPool

(* A GET, a POST of one pair, a POST of two; all values arrive whole.      *)
WholeValues == {<<"get">>, <<"own">>, <<"own", "own">>}

(* A value in two pieces. *)
SplitValues == {<<"get">>, <<"own", "any">>}
=============================================================================

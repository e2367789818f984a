----------------------------- MODULE MCPostBody -----------------------------
(***************************************************************************)
(* PostBody for TLC: one request, answered or broken off, then one with    *)
(* any body of up to MaxTokens characters and escapes, or a longer one, or *)
(* one with any head of up to MaxLines lines of those below.               *)
(***************************************************************************)
EXTENDS PostBody

CONSTANTS MaxTokens, MaxLines

Tokens == {<<"a">>, <<"b">>, <<"=">>, <<"&">>, <<"%", "3", "D">>, <<"%", "2", "6">>}

Longer == {<<"a", "b", "=", "b", "a", "&", "b", "=", "%", "2", "6", "a">>,
           <<"a", "=", "b", "&", "a", "=", "a", "b">>,
           <<"a", "=", "&", "=", "b", "&", "b", "=">>}

Pair == <<"a", "=", "b">>

First(method) == <<method, "/a", "HTTP/1.1">>
HostLine == <<"Host", "h">>
LengthLine(n) == <<"Content-Length", n>>

Plain(b) == [head |-> <<First("POST"), HostLine, LengthLine(Len(b))>>, body |-> b]
Encoded(b) ==
  [head |-> <<First("POST"), <<"Content-Type", Form>>, LengthLine(Len(b)), HostLine>>,
   body |-> b]

Firsts == {First("POST"), First("GET"), First("HEAD"), <<"POST", "/a">>,
           <<"GET", "/a", "HTTP/2">>}
Others == {HostLine, LengthLine(3), LengthLine(0), <<"Content-length", 2>>,
           <<"Content-type", Form>>, <<"no separator">>}
AnyHead == {<<first>> \o lines : first \in Firsts,
                                 lines \in UNION {[1 .. n -> Others] : n \in 0 .. MaxLines}}

Second ==
  {Encoded(b) : b \in Longer \cup
                  {FlattenSeq(t) : t \in UNION {[1 .. n -> Tokens] : n \in 1 .. MaxTokens}}}
  \cup {Plain(b) : b \in Longer \cup {<<"a", "=", "%", "&", "b", "=", "%">>}}
  \cup {[head |-> h, body |-> Pair] : h \in AnyHead}

MCPlans == {<<first, second>> : first \in {Plain(Pair), Plain(<<"a", "b">>)}, second \in Second}
=============================================================================

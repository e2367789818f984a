---------------------------- MODULE ParserProofs -----------------------------
(***************************************************************************)
(* For every alphabet, every set of texts and every size of buffer: what   *)
(* the parser reads and the assembly puts together is the text, and the    *)
(* reply is the translation of the whole text wherever it is cut.          *)
(*                                                                         *)
(* For every set of requests a web server may be sent: a head is taken for *)
(* what it means, the blocking parser stores the pairs of the body, and    *)
(* the event-driven one, however the body is cut, keeps no more than it    *)
(* was sent and stores the values whole.                                   *)
(***************************************************************************)
EXTENDS TextPipeline, PostBody, SequenceTheorems, WellFoundedInduction, TLAPS

Char == Letter \cup Sign \cup {Nul}

-----------------------------------------------------------------------------
(* Induction, and functions defined by it.                                 *)

LEMMA Smallest ==
  ASSUME NEW T \in SUBSET Nat, T # {}
  PROVE  \E x \in T : \A y \in T : x <= y
<1> DEFINE R == OpToRel(<, Nat)
<1>1. IsWellFoundedOn(R, Nat)
  BY NatLessThanWellFounded
<1>2. \A x, y \in Nat : y < x => <<y, x>> \in R
  BY DEF OpToRel
<1> HIDE DEF R
<1>3. PICK x \in T : \A y \in T : ~(<<y, x>> \in R)
  BY <1>1, WFMin
<1>4. ASSUME NEW y \in T PROVE x <= y
  <2>1. x \in Nat /\ y \in Nat
    OBVIOUS
  <2>2. ~(y < x)
    BY <1>2, <1>3, <2>1
  <2> QED BY <2>1, <2>2
<1> QED BY <1>4

(* What holds of 0 and goes on to the next number up to N holds up to N. *)
LEMMA UpToN ==
  ASSUME NEW N \in Nat, NEW T, 0 \in T, \A n \in 1 .. N : n - 1 \in T => n \in T
  PROVE  \A n \in 0 .. N : n \in T
<1> SUFFICES ASSUME (0 .. N) \ T # {} PROVE FALSE
  OBVIOUS
<1>1. (0 .. N) \ T \in SUBSET Nat
  OBVIOUS
<1>2. PICK n \in (0 .. N) \ T : \A m \in (0 .. N) \ T : n <= m
  BY <1>1, Smallest
<1>3. n \in 1 .. N /\ n - 1 \in 0 .. N /\ ~(n <= n - 1)
  BY <1>2
<1>4. n - 1 \in T
  BY <1>2, <1>3
<1> QED BY <1>2, <1>3, <1>4

(* There is a function on 0 .. N with this first value and this step. *)
Defines(N, S, a, g) ==
  \E f \in [0 .. N -> S] : f[0] = a /\ \A n \in 1 .. N : f[n] = g[<<n, f[n - 1]>>]

LEMMA Recursion ==
  ASSUME NEW N \in Nat, NEW S, NEW a \in S, NEW g \in [(1 .. N) \X S -> S]
  PROVE  Defines(N, S, a, g)
<1> DEFINE Good(f, m) == /\ f \in [0 .. m -> S] /\ f[0] = a
                         /\ \A n \in 1 .. m : f[n] = g[<<n, f[n - 1]>>]
           T == {m \in Nat : \E f : Good(f, m)}
<1>1. 0 \in T
  <2>1. Good([n \in 0 .. 0 |-> a], 0)
    OBVIOUS
  <2> QED BY <2>1
<1>2. ASSUME NEW m \in 1 .. N, m - 1 \in T PROVE m \in T
  <2>1. PICK f : Good(f, m - 1)
    BY <1>2
  <2> DEFINE h == [n \in 0 .. m |-> IF n = m THEN g[<<m, f[m - 1]>>] ELSE f[n]]
  <2>2. f[m - 1] \in S /\ g[<<m, f[m - 1]>>] \in S
    BY <2>1
  <2>3. \A n \in 0 .. m : n # m => n \in 0 .. m - 1
    OBVIOUS
  <2>4. h \in [0 .. m -> S] /\ h[0] = a
    BY <2>1, <2>2, <2>3
  <2>5. /\ h[m] = g[<<m, f[m - 1]>>]
        /\ \A n \in 0 .. m - 1 : h[n] = f[n]
    OBVIOUS
  <2> HIDE DEF h
  <2>6. ASSUME NEW n \in 1 .. m PROVE h[n] = g[<<n, h[n - 1]>>]
    <3>1. n - 1 \in 0 .. m - 1 /\ h[n - 1] = f[n - 1]
      BY <2>5
    <3>2. CASE n = m
      BY <2>5, <3>1, <3>2
    <3>3. CASE n # m
      <4>1. n \in 0 .. m - 1 /\ n \in 1 .. m - 1
        BY <3>3
      <4> QED BY <2>1, <2>5, <3>1, <4>1
    <3> QED BY <3>2, <3>3
  <2>7. Good(h, m)
    BY <2>4, <2>6
  <2>8. m \in Nat
    OBVIOUS
  <2> HIDE DEF Good
  <2> QED BY <2>7, <2>8
<1> HIDE DEF T
<1>3. N \in T
  BY <1>1, <1>2, UpToN
<1> QED BY <1>3 DEF T, Defines

-----------------------------------------------------------------------------
(* Sequences of parts, joined.                                             *)

LEMMA JoinedBy ==
  ASSUME NEW E, NEW parts \in Seq(Seq(E))
  PROVE  \E f \in [0 .. Len(parts) -> Seq(E)] :
           /\ f[0] = <<>>
           /\ \A n \in 1 .. Len(parts) : f[n] = f[n - 1] \o parts[n]
           /\ Joined(parts) = f[Len(parts)]
<1> DEFINE N == Len(parts)
           upTo == CHOOSE f : f = [n \in 0 .. N |-> IF n = 0 THEN <<>> ELSE f[n - 1] \o parts[n]]
           g == [x \in (1 .. N) \X Seq(E) |-> x[2] \o parts[x[1]]]
<1>1. N \in Nat /\ g \in [(1 .. N) \X Seq(E) -> Seq(E)] /\ <<>> \in Seq(E)
  <2>1. \A n \in 1 .. N : parts[n] \in Seq(E)
    OBVIOUS
  <2> QED BY <2>1
<1>g. \A n \in 1 .. N : \A y \in Seq(E) : g[<<n, y>>] = y \o parts[n]
  OBVIOUS
<1> HIDE DEF g
<1>2. PICK f \in [0 .. N -> Seq(E)] :
        f[0] = <<>> /\ \A n \in 1 .. N : f[n] = g[<<n, f[n - 1]>>]
  <2>1. Defines(N, Seq(E), <<>>, g)
    BY <1>1, Recursion
  <2> QED BY <2>1 DEF Defines
<1>3. ASSUME NEW n \in 1 .. N PROVE f[n] = f[n - 1] \o parts[n]
  <2>1. n - 1 \in 0 .. N
    BY <1>1
  <2>2. f[n - 1] \in Seq(E)
    BY <2>1
  <2> QED BY <1>2, <1>g, <2>2
<1>4. f = [n \in 0 .. N |-> IF n = 0 THEN <<>> ELSE f[n - 1] \o parts[n]]
  <2>1. \A n \in 0 .. N : n = 0 \/ n \in 1 .. N
    BY <1>1
  <2>2. \A n \in 0 .. N : f[n] = IF n = 0 THEN <<>> ELSE f[n - 1] \o parts[n]
    BY <1>2, <1>3, <2>1
  <2> QED BY <2>2
<1>5. upTo = [n \in 0 .. N |-> IF n = 0 THEN <<>> ELSE upTo[n - 1] \o parts[n]]
  <2> DEFINE IsIt(x) == x = [n \in 0 .. N |-> IF n = 0 THEN <<>> ELSE x[n - 1] \o parts[n]]
  <2>1. IsIt(f)
    BY <1>4
  <2> HIDE DEF IsIt
  <2>2. upTo = CHOOSE x : IsIt(x)
    BY DEF IsIt
  <2>3. IsIt(upTo)
    BY <2>1, <2>2
  <2> QED BY <2>3 DEF IsIt
<1>6. Joined(parts) = upTo[N]
  BY DEF Joined
<1> HIDE DEF upTo
<1>7. \A n \in 0 .. N : n \in {m \in 0 .. N : upTo[m] = f[m]}
  <2> DEFINE T == {m \in 0 .. N : upTo[m] = f[m]}
  <2>1. 0 \in T
    BY <1>1, <1>2, <1>5
  <2>2. ASSUME NEW n \in 1 .. N, n - 1 \in T PROVE n \in T
    <3>1. n \in 0 .. N /\ n # 0 /\ upTo[n - 1] = f[n - 1]
      BY <1>1, <2>2
    <3>2. upTo[n] = upTo[n - 1] \o parts[n]
      BY <1>5, <3>1
    <3> QED BY <1>3, <3>1, <3>2
  <2> HIDE DEF T
  <2>3. \A n \in 0 .. N : n \in T
    BY <1>1, <2>1, <2>2, UpToN
  <2> QED BY <2>3 DEF T
<1>8. upTo[N] = f[N]
  BY <1>1, <1>7
<1> QED BY <1>2, <1>3, <1>6, <1>8

LEMMA JoinedType ==
  ASSUME NEW E, NEW parts \in Seq(Seq(E))
  PROVE  Joined(parts) \in Seq(E)
<1>1. Len(parts) \in 0 .. Len(parts)
  OBVIOUS
<1>2. PICK f \in [0 .. Len(parts) -> Seq(E)] : Joined(parts) = f[Len(parts)]
  BY JoinedBy
<1> QED BY <1>1, <1>2

LEMMA JoinedEmpty == Joined(<<>>) = <<>>
<1>1. PICK parts : parts = <<>>
  OBVIOUS
<1>2. parts \in Seq(Seq({})) /\ Len(parts) = 0
  BY <1>1
<1>3. \E f \in [0 .. Len(parts) -> Seq({})] : f[0] = <<>> /\ Joined(parts) = f[Len(parts)]
  BY ONLY <1>2, JoinedBy
<1> QED BY <1>1, <1>2, <1>3

LEMMA JoinedAppend ==
  ASSUME NEW E, NEW parts \in Seq(Seq(E)), NEW x \in Seq(E)
  PROVE  Joined(Append(parts, x)) = Joined(parts) \o x
<1> DEFINE N == Len(parts)
           more == Append(parts, x)
<1>1. /\ more \in Seq(Seq(E)) /\ Len(more) = N + 1 /\ N \in Nat /\ more[N + 1] = x
      /\ \A n \in 1 .. N : more[n] = parts[n]
  OBVIOUS
<1> HIDE DEF more
<1>2. PICK f \in [0 .. N -> Seq(E)] :
        /\ f[0] = <<>> /\ \A n \in 1 .. N : f[n] = f[n - 1] \o parts[n]
        /\ Joined(parts) = f[N]
  BY JoinedBy
<1>3. PICK h \in [0 .. N + 1 -> Seq(E)] :
        /\ h[0] = <<>> /\ \A n \in 1 .. N + 1 : h[n] = h[n - 1] \o more[n]
        /\ Joined(more) = h[N + 1]
  <2>1. \E h \in [0 .. Len(more) -> Seq(E)] :
          /\ h[0] = <<>> /\ \A n \in 1 .. Len(more) : h[n] = h[n - 1] \o more[n]
          /\ Joined(more) = h[Len(more)]
    BY <1>1, JoinedBy
  <2> QED BY <1>1, <2>1
<1> DEFINE T == {n \in 0 .. N : h[n] = f[n]}
<1>4. 0 \in T
  BY <1>1, <1>2, <1>3
<1>5. ASSUME NEW n \in 1 .. N, n - 1 \in T PROVE n \in T
  <2>1. n \in 1 .. N + 1 /\ n \in 0 .. N /\ h[n - 1] = f[n - 1] /\ more[n] = parts[n]
    BY <1>1, <1>5
  <2>2. h[n] = h[n - 1] \o more[n] /\ f[n] = f[n - 1] \o parts[n]
    BY <1>2, <1>3, <2>1
  <2> QED BY <2>1, <2>2
<1> HIDE DEF T
<1>6. N \in T
  <2>1. \A n \in 0 .. N : n \in T
    BY <1>1, <1>4, <1>5, UpToN
  <2> QED BY <1>1, <2>1
<1>7. h[N + 1] = h[N] \o x
  <2>1. N + 1 \in 1 .. N + 1 /\ (N + 1) - 1 = N
    BY <1>1
  <2>2. h[N + 1] = h[(N + 1) - 1] \o more[N + 1]
    BY <1>3, <2>1
  <2> QED BY <1>1, <2>1, <2>2
<1> QED BY <1>2, <1>3, <1>6, <1>7 DEF T, more

LEMMA Prefix ==
  ASSUME NEW S, NEW q \in Seq(S), NEW n \in 1 .. Len(q)
  PROVE  /\ SubSeq(q, 1, n) \in Seq(S) /\ SubSeq(q, 1, n - 1) \in Seq(S)
         /\ Len(SubSeq(q, 1, n - 1)) = n - 1
         /\ SubSeq(q, 1, n) = Append(SubSeq(q, 1, n - 1), q[n])
<1>1. n \in Nat /\ n - 1 \in Nat /\ Len(q) \in Nat /\ \A i \in 1 .. n : q[i] \in S
  OBVIOUS
<1>2. SubSeq(q, 1, n) = [i \in 1 .. n |-> q[i]] /\ SubSeq(q, 1, n - 1) = [i \in 1 .. n - 1 |-> q[i]]
  BY <1>1
<1>3. /\ SubSeq(q, 1, n) \in Seq(S) /\ Len(SubSeq(q, 1, n)) = n
      /\ SubSeq(q, 1, n - 1) \in Seq(S) /\ Len(SubSeq(q, 1, n - 1)) = n - 1
  BY <1>1, <1>2
<1> DEFINE p == SubSeq(q, 1, n - 1)
           r == SubSeq(q, 1, n)
<1>4. /\ p \in Seq(S) /\ Len(p) = n - 1 /\ \A i \in 1 .. n - 1 : p[i] = q[i]
      /\ r \in Seq(S) /\ Len(r) = n /\ \A i \in 1 .. n : r[i] = q[i]
  BY <1>1, <1>2, <1>3
<1> HIDE DEF p, r
<1>5. Append(p, q[n]) \in Seq(S) /\ Len(Append(p, q[n])) = n
  BY <1>1, <1>4
<1>6. \A i \in 1 .. n : r[i] = Append(p, q[n])[i]
  BY <1>1, <1>4
<1>7. r = Append(p, q[n])
  BY <1>4, <1>5, <1>6, SeqEqual
<1> QED BY <1>3, <1>7 DEF p, r

LEMMA Associative ==
  ASSUME NEW E
  PROVE  \A x, y, z \in Seq(E) : (x \o y) \o z = x \o (y \o z)
BY ConcatAssociative

LEMMA JoinedConcat ==
  ASSUME NEW E, NEW p \in Seq(Seq(E)), NEW q \in Seq(Seq(E))
  PROVE  Joined(p \o q) = Joined(p) \o Joined(q)
<1> DEFINE N == Len(q)
           T == {n \in 0 .. N : Joined(p \o SubSeq(q, 1, n)) = Joined(p) \o Joined(SubSeq(q, 1, n))}
<1>1. N \in Nat /\ Joined(p) \in Seq(E)
  BY JoinedType
<1>2. 0 \in T
  <2>1. SubSeq(q, 1, 0) = <<>> /\ p \o <<>> = p
    BY ConcatEmptySeq, SubSeqEmpty
  <2>2. Joined(p) \o <<>> = Joined(p)
    BY <1>1, ConcatEmptySeq
  <2>3. Joined(p \o SubSeq(q, 1, 0)) = Joined(p) \o Joined(SubSeq(q, 1, 0))
    BY <2>1, <2>2, JoinedEmpty, Zenon
  <2>4. 0 \in 0 .. N
    BY <1>1
  <2> QED BY <2>3, <2>4
<1>3. ASSUME NEW n \in 1 .. N, n - 1 \in T PROVE n \in T
  <2> DEFINE r == SubSeq(q, 1, n - 1)
  <2>1. q[n] \in Seq(E) /\ r \in Seq(Seq(E)) /\ SubSeq(q, 1, n) = Append(r, q[n])
    BY Prefix
  <2>2. Joined(p \o r) = Joined(p) \o Joined(r)
    BY <1>3
  <2> HIDE DEF r
  <2>3. p \o Append(r, q[n]) = Append(p \o r, q[n]) /\ p \o r \in Seq(Seq(E))
    <3>1. /\ Append(r, q[n]) = r \o <<q[n]>> /\ p \o r \in Seq(Seq(E)) /\ <<q[n]>> \in Seq(Seq(E))
          /\ Append(p \o r, q[n]) = (p \o r) \o <<q[n]>>
      BY <2>1, AppendIsConcat, ConcatProperties, SMTT(20)
    <3>2. p \o (r \o <<q[n]>>) = (p \o r) \o <<q[n]>>
      <4>1. p \in Seq(Seq(E)) /\ r \in Seq(Seq(E)) /\ <<q[n]>> \in Seq(Seq(E))
        BY <2>1, <3>1
      <4> QED BY ONLY <4>1, ConcatAssociative, SMTT(20)
    <3> QED BY <3>1, <3>2
  <2>4. Joined(Append(p \o r, q[n])) = (Joined(p) \o Joined(r)) \o q[n]
    BY <2>1, <2>2, <2>3, JoinedAppend
  <2>5. Joined(Append(r, q[n])) = Joined(r) \o q[n] /\ Joined(r) \in Seq(E)
    BY <2>1, JoinedAppend, JoinedType
  <2>6. (Joined(p) \o Joined(r)) \o q[n] = Joined(p) \o (Joined(r) \o q[n])
    <3>1. Joined(p) \in Seq(E) /\ Joined(r) \in Seq(E) /\ q[n] \in Seq(E)
      BY <1>1, <2>1, <2>5
    <3>2. \A x, y, z \in Seq(E) : (x \o y) \o z = x \o (y \o z)
      BY Associative, SMTT(20)
    <3> QED BY <3>1, <3>2, Zenon
  <2>7. n \in 0 .. N
    BY <1>1
  <2> QED BY <2>1, <2>3, <2>4, <2>5, <2>6, <2>7
<1> HIDE DEF T
<1>4. \A n \in 0 .. N : n \in T
  BY <1>1, <1>2, <1>3, UpToN
<1>5. N \in T
  BY <1>1, <1>4
<1>6. SubSeq(q, 1, N) = q
  BY SubSeqFull
<1> QED BY <1>5, <1>6 DEF T

LEMMA SubSeqOne ==
  ASSUME NEW S, NEW s \in Seq(S), NEW n \in 1 .. Len(s)
  PROVE  SubSeq(s, n, n) = <<s[n]>>
<1>1. SubSeq(s, n, n) \in Seq(S) /\ Len(SubSeq(s, n, n)) = 1 /\ SubSeq(s, n, n)[1] = s[n]
  OBVIOUS
<1>2. <<s[n]>> \in Seq(S) /\ Len(<<s[n]>>) = 1 /\ <<s[n]>>[1] = s[n]
  OBVIOUS
<1> DEFINE p == SubSeq(s, n, n)
           q == <<s[n]>>
<1> HIDE DEF p, q
<1>3. \A i \in 1 .. 1 : p[i] = q[i]
  BY <1>1, <1>2 DEF p, q
<1>4. p = q
  BY <1>1, <1>2, <1>3, SeqEqual DEF p, q
<1> QED BY <1>4 DEF p, q

LEMMA JoinedNonEmpty ==
  ASSUME NEW E, NEW parts \in Seq(Seq(E)), NEW i \in 1 .. Len(parts), parts[i] # <<>>
  PROVE  Joined(parts) # <<>>
<1> DEFINE p == SubSeq(parts, 1, i - 1)
           q == SubSeq(parts, i + 1, Len(parts))
           r == SubSeq(parts, 1, i)
<1>1. /\ p \in Seq(Seq(E)) /\ r \in Seq(Seq(E)) /\ r = Append(p, parts[i])
      /\ parts[i] \in Seq(E)
  <2>1. /\ SubSeq(parts, 1, i) \in Seq(Seq(E)) /\ SubSeq(parts, 1, i - 1) \in Seq(Seq(E))
        /\ SubSeq(parts, 1, i) = Append(SubSeq(parts, 1, i - 1), parts[i])
    BY Prefix, Zenon
  <2>2. parts[i] \in Seq(E)
    OBVIOUS
  <2> QED BY <2>1, <2>2
<1>2. q \in Seq(Seq(E)) /\ parts = r \o q
  <2>1. q \in Seq(Seq(E))
    OBVIOUS
  <2>2. /\ 1 \in 1 .. Len(parts) + 1 /\ i \in 1 - 1 .. Len(parts) /\ Len(parts) \in i .. Len(parts)
    OBVIOUS
  <2>3. SubSeq(parts, 1, i) \o SubSeq(parts, i + 1, Len(parts)) = SubSeq(parts, 1, Len(parts))
    BY <2>2, ConcatAdjacentSubSeq
  <2> QED BY <2>1, <2>3, SubSeqFull
<1> HIDE DEF p, q, r
<1>3. Joined(parts) = (Joined(p) \o parts[i]) \o Joined(q)
  <2>1. Joined(r \o q) = Joined(r) \o Joined(q)
    BY <1>1, <1>2, JoinedConcat, Zenon
  <2>2. Joined(Append(p, parts[i])) = Joined(p) \o parts[i]
    BY <1>1, JoinedAppend, Zenon
  <2> QED BY <1>1, <1>2, <2>1, <2>2, Zenon
<1>4. Joined(p) \in Seq(E) /\ Joined(q) \in Seq(E)
  BY <1>1, <1>2, JoinedType
<1>5. Joined(p) \o parts[i] \in Seq(E) /\ Joined(p) \o parts[i] # <<>>
  BY <1>1, <1>4, ConcatEqualIffEmpty, ConcatProperties, SMTT(20)
<1> QED BY <1>3, <1>4, <1>5, ConcatEqualIffEmpty

-----------------------------------------------------------------------------
(* The parser reads character by character.                                *)

Machine == [word : Seq(Seq(Char)), non_word : Seq(Seq(Piece)),
            w : Seq(Char), nw : Seq(Piece), state : {0, 1}]

LEMMA PieceType ==
  /\ \A x \in Char : Kept(x) \in Piece
  /\ \A w \in Seq(Char) : Meaning(w) \in Piece
BY DEF Piece, Char, Kept, Meaning

LEMMA BegunType ==
  ASSUME NEW s \in Seq(Char)
  PROVE  Begun(s) \in Machine
BY DEF Begun, Machine

LEMMA StepType ==
  ASSUME NEW m \in Machine, NEW x \in Char
  PROVE  Step(m, x) \in Machine
<1>1. /\ Append(m.word, m.w) \in Seq(Seq(Char)) /\ Append(m.non_word, m.nw) \in Seq(Seq(Piece))
      /\ Append(m.w, x) \in Seq(Char) /\ Append(m.nw, Kept(x)) \in Seq(Piece)
      /\ m.word \in Seq(Seq(Char)) /\ m.non_word \in Seq(Seq(Piece))
  BY PieceType DEF Machine
<1> QED BY <1>1 DEF Step, Machine

LEMMA ParseBy ==
  ASSUME NEW s \in Seq(Char)
  PROVE  \E f \in [0 .. Len(s) -> Machine] :
           /\ f[0] = Begun(s)
           /\ \A n \in 1 .. Len(s) : f[n] = Step(f[n - 1], s[n])
           /\ Parse(s) = Ended(f[Len(s)])
<1> DEFINE N == Len(s)
           read == CHOOSE f : f = [n \in 0 .. N |-> IF n = 0 THEN Begun(s) ELSE Step(f[n - 1], s[n])]
           g == [x \in (1 .. N) \X Machine |-> Step(x[2], s[x[1]])]
<1>1. N \in Nat /\ g \in [(1 .. N) \X Machine -> Machine] /\ Begun(s) \in Machine
  <2>1. \A n \in 1 .. N : s[n] \in Char
    OBVIOUS
  <2> QED BY <2>1, StepType, BegunType
<1>2. \A n \in 1 .. N : \A m \in Machine : g[<<n, m>>] = Step(m, s[n])
  OBVIOUS
<1> HIDE DEF g
<1>3. PICK f \in [0 .. N -> Machine] :
        f[0] = Begun(s) /\ \A n \in 1 .. N : f[n] = g[<<n, f[n - 1]>>]
  <2>1. Defines(N, Machine, Begun(s), g)
    BY <1>1, Recursion
  <2> QED BY <2>1 DEF Defines
<1>4. ASSUME NEW n \in 1 .. N PROVE f[n] = Step(f[n - 1], s[n])
  <2>1. n - 1 \in 0 .. N
    BY <1>1
  <2>2. f[n - 1] \in Machine
    BY <2>1
  <2> QED BY <1>2, <1>3, <2>2
<1> DEFINE IsIt(x) == x = [n \in 0 .. N |-> IF n = 0 THEN Begun(s) ELSE Step(x[n - 1], s[n])]
<1>5. IsIt(f)
  <2>1. \A n \in 0 .. N : n = 0 \/ n \in 1 .. N
    BY <1>1
  <2>2. \A n \in 0 .. N : f[n] = IF n = 0 THEN Begun(s) ELSE Step(f[n - 1], s[n])
    BY <1>3, <1>4, <2>1
  <2> QED BY <2>2
<1>6. IsIt(read)
  <2>1. read = CHOOSE x : IsIt(x)
    OBVIOUS
  <2> HIDE DEF IsIt
  <2> QED BY <1>5, <2>1
<1>7. Parse(s) = Ended(read[N])
  BY DEF Parse
<1> HIDE DEF read
<1> DEFINE T == {n \in 0 .. N : read[n] = f[n]}
<1>8. 0 \in T
  BY <1>1, <1>3, <1>6
<1>9. ASSUME NEW n \in 1 .. N, n - 1 \in T PROVE n \in T
  <2>1. n \in 0 .. N /\ n # 0 /\ read[n - 1] = f[n - 1]
    BY <1>1, <1>9
  <2>2. read[n] = Step(read[n - 1], s[n])
    BY <1>6, <2>1
  <2> QED BY <1>4, <2>1, <2>2
<1> HIDE DEF T
<1>10. N \in T
  <2>1. \A n \in 0 .. N : n \in T
    BY <1>1, <1>8, <1>9, UpToN
  <2> QED BY <1>1, <2>1
<1> QED BY <1>3, <1>4, <1>7, <1>10 DEF T

-----------------------------------------------------------------------------
(* The reference definition, with its local definitions named.             *)

InWord(txt, i, j) == \A k \in i .. j : Alnum(txt[k])

IsBegin(txt, i, j) == InWord(txt, j, i) /\ (j = 1 \/ ~Alnum(txt[j - 1]))

WordBegin(txt, i) == CHOOSE j \in 1 .. i : IsBegin(txt, i, j)

At(txt, i) ==
  IF ~Alnum(txt[i]) THEN <<Kept(txt[i])>>
  ELSE IF i < Len(txt) /\ Alnum(txt[i + 1]) THEN <<>>
  ELSE <<Meaning(SubSeq(txt, WordBegin(txt, i), i))>>

Ats(txt) == [i \in 1 .. Len(txt) |-> At(txt, i)]

(* The reference of the first n characters, which knows of the next.       *)
First(txt, n) == Joined(SubSeq(Ats(txt), 1, n))

LEMMA ReferenceIs == \A txt : Reference(txt) = Joined(Ats(txt))
BY DEF Reference, Ats, At, WordBegin, IsBegin, InWord

LEMMA BeginUnique ==
  ASSUME NEW txt, NEW i \in Nat, NEW j \in 1 .. i, NEW k \in 1 .. i,
         IsBegin(txt, i, j), IsBegin(txt, i, k)
  PROVE  j <= k
<1> SUFFICES ASSUME k < j PROVE FALSE
  OBVIOUS
<1>1. j # 1 /\ j - 1 \in k .. i
  OBVIOUS
<1> QED BY <1>1 DEF IsBegin, InWord

LEMMA BeginIs ==
  ASSUME NEW txt, NEW i \in Nat, NEW j \in 1 .. i, IsBegin(txt, i, j)
  PROVE  WordBegin(txt, i) = j
<1> DEFINE k == WordBegin(txt, i)
<1>1. k \in 1 .. i /\ IsBegin(txt, i, k)
  BY DEF WordBegin
<1> HIDE DEF k
<1>2. j <= k /\ k <= j
  BY <1>1, BeginUnique
<1> QED BY <1>1, <1>2 DEF k

LEMMA BeginExists ==
  ASSUME NEW txt, NEW i \in Nat \ {0}, Alnum(txt[i])
  PROVE  WordBegin(txt, i) \in 1 .. i /\ IsBegin(txt, i, WordBegin(txt, i))
<1> DEFINE T == {j \in 1 .. i : InWord(txt, j, i)}
<1>1. i \in T
  BY DEF InWord
<1>2. PICK j \in T : \A k \in T : j <= k
  <2>1. T \in SUBSET Nat /\ T # {}
    BY <1>1
  <2> HIDE DEF T
  <2> QED BY <2>1, Smallest
<1>3. j \in 1 .. i /\ InWord(txt, j, i)
  BY <1>2
<1>4. ASSUME j # 1, Alnum(txt[j - 1]) PROVE FALSE
  <2>1. j - 1 \in 1 .. i /\ \A k \in j - 1 .. i : k = j - 1 \/ k \in j .. i
    BY <1>3, <1>4
  <2>2. InWord(txt, j - 1, i)
    BY <1>3, <1>4, <2>1 DEF InWord
  <2> QED BY <1>2, <2>1, <2>2
<1>5. IsBegin(txt, i, j)
  BY <1>3, <1>4 DEF IsBegin
<1> QED BY <1>3, <1>5 DEF WordBegin

(* The pieces of a text, none of which is the byte 0 if the text has none. *)
LEMMA AtType ==
  ASSUME NEW C, C \subseteq Char, NEW txt \in Seq(C), NEW i \in 1 .. Len(txt)
  PROVE  At(txt, i) \in Seq(Piece \ {Kept(x) : x \in Char \ C})
<1> DEFINE E == Piece \ {Kept(x) : x \in Char \ C}
<1>1. txt[i] \in C /\ i \in Nat \ {0} /\ Len(txt) \in Nat
  OBVIOUS
<1>2. Kept(txt[i]) \in E
  <2>1. Kept(txt[i]) \in Piece
    BY <1>1, PieceType
  <2>2. ASSUME NEW x \in Char \ C PROVE Kept(x) # Kept(txt[i])
    <3>1. Kept(x).of = <<x>> /\ Kept(txt[i]).of = <<txt[i]>> /\ x # txt[i]
      BY <1>1 DEF Kept
    <3> QED BY <3>1
  <2> QED BY <2>1, <2>2
<1>3. ASSUME Alnum(txt[i]) PROVE Meaning(SubSeq(txt, WordBegin(txt, i), i)) \in E
  <2>1. WordBegin(txt, i) \in 1 .. i
    BY <1>1, <1>3, BeginExists
  <2>2. SubSeq(txt, WordBegin(txt, i), i) \in Seq(C)
    BY <1>1, <2>1
  <2>3. SubSeq(txt, WordBegin(txt, i), i) \in Seq(Char)
    BY <2>2, SeqMonotonic
  <2>4. Meaning(SubSeq(txt, WordBegin(txt, i), i)) \in Piece
    BY <2>3, PieceType
  <2>5. \A x : Meaning(SubSeq(txt, WordBegin(txt, i), i)) # Kept(x)
    BY DEF Meaning, Kept
  <2> QED BY <2>4, <2>5
<1> HIDE DEF E
<1>4. At(txt, i) \in Seq(E)
  BY <1>2, <1>3 DEF At
<1> QED BY <1>4 DEF E

LEMMA AtsType ==
  ASSUME NEW C, C \subseteq Char, NEW txt \in Seq(C)
  PROVE  /\ Ats(txt) \in Seq(Seq(Piece \ {Kept(x) : x \in Char \ C}))
         /\ Ats(txt) \in Seq(Seq(Piece)) /\ Len(Ats(txt)) = Len(txt)
<1> DEFINE E == Piece \ {Kept(x) : x \in Char \ C}
<1>1. \A i \in 1 .. Len(txt) : At(txt, i) \in Seq(E)
  BY AtType
<1>2. E \subseteq Piece
  OBVIOUS
<1> HIDE DEF E
<1>3. Ats(txt) \in Seq(Seq(E)) /\ Len(Ats(txt)) = Len(txt)
  BY <1>1 DEF Ats
<1>4. Seq(E) \subseteq Seq(Piece)
  BY <1>2, SeqMonotonic
<1>5. Ats(txt) \in Seq(Seq(Piece))
  BY <1>3, <1>4, SeqMonotonic
<1> QED BY <1>3, <1>5 DEF E

LEMMA ReferenceType ==
  ASSUME NEW C, C \subseteq Char, NEW txt \in Seq(C)
  PROVE  Reference(txt) \in Seq(Piece \ {Kept(x) : x \in Char \ C})
BY AtsType, JoinedType, ReferenceIs

LEMMA FirstSteps ==
  ASSUME NEW txt \in Seq(Char)
  PROVE  /\ First(txt, 0) = <<>> /\ First(txt, Len(txt)) = Reference(txt)
         /\ \A n \in 1 .. Len(txt) : /\ First(txt, n) = First(txt, n - 1) \o At(txt, n)
                                     /\ First(txt, n - 1) \in Seq(Piece)
                                     /\ At(txt, n) \in Seq(Piece)
<1>1. Ats(txt) \in Seq(Seq(Piece)) /\ Len(Ats(txt)) = Len(txt)
  BY AtsType
<1>2. First(txt, 0) = <<>>
  <2>1. SubSeq(Ats(txt), 1, 0) = <<>>
    BY <1>1
  <2> QED BY <2>1, JoinedEmpty DEF First
<1>3. First(txt, Len(txt)) = Reference(txt)
  BY <1>1, ReferenceIs, SubSeqFull DEF First
<1>4. ASSUME NEW n \in 1 .. Len(txt)
      PROVE  /\ First(txt, n) = First(txt, n - 1) \o At(txt, n)
             /\ First(txt, n - 1) \in Seq(Piece) /\ At(txt, n) \in Seq(Piece)
  <2>1. Ats(txt)[n] = At(txt, n) /\ n \in 1 .. Len(Ats(txt))
    BY <1>1 DEF Ats
  <2>2. Ats(txt)[n] \in Seq(Piece)
    BY <1>1, <2>1
  <2> DEFINE q == SubSeq(Ats(txt), 1, n - 1)
  <2>3. q \in Seq(Seq(Piece)) /\ SubSeq(Ats(txt), 1, n) = Append(q, Ats(txt)[n])
    BY <1>1, <2>1, Prefix
  <2> HIDE DEF q
  <2>4. Joined(Append(q, Ats(txt)[n])) = Joined(q) \o Ats(txt)[n] /\ Joined(q) \in Seq(Piece)
    BY <2>2, <2>3, JoinedAppend, JoinedType
  <2> QED BY <2>1, <2>2, <2>3, <2>4 DEF First, q
<1> QED BY <1>2, <1>3, <1>4

-----------------------------------------------------------------------------
(* What the parser has read, put together.                                 *)

(* The non-words, each with the translation of the word behind it.         *)
Placed(non_word, word) ==
  [i \in 1 .. Len(non_word) |->
     non_word[i] \o IF i <= Len(word) THEN <<Meaning(word[i])>> ELSE <<>>]

LEMMA PiecesAssociative == \A x, y, z \in Seq(Piece) : (x \o y) \o z = x \o (y \o z)
BY Associative

LEMMA PlacedType ==
  ASSUME NEW nws \in Seq(Seq(Piece)), NEW ws \in Seq(Seq(Char))
  PROVE  Placed(nws, ws) \in Seq(Seq(Piece)) /\ Len(Placed(nws, ws)) = Len(nws)
<1>1. \A i \in 1 .. Len(ws) : Meaning(ws[i]) \in Piece
  BY PieceType
<1>2. Len(ws) \in Nat /\ Len(nws) \in Nat
  OBVIOUS
<1>3. \A i \in 1 .. Len(nws) :
        nws[i] \o (IF i <= Len(ws) THEN <<Meaning(ws[i])>> ELSE <<>>) \in Seq(Piece)
  <2> SUFFICES ASSUME NEW i \in 1 .. Len(nws)
               PROVE  nws[i] \o (IF i <= Len(ws) THEN <<Meaning(ws[i])>> ELSE <<>>) \in Seq(Piece)
    OBVIOUS
  <2>1. nws[i] \in Seq(Piece)
    OBVIOUS
  <2>2. CASE i <= Len(ws)
    <3>1. <<Meaning(ws[i])>> \in Seq(Piece)
      BY <1>1, <1>2, <2>2
    <3> QED BY <2>1, <2>2, <3>1
  <2>3. CASE ~(i <= Len(ws))
    BY <2>1, <2>3
  <2> QED BY <2>2, <2>3
<1> QED BY <1>2, <1>3 DEF Placed

(* One non-word more, with no word or a word behind it.                    *)
LEMMA PlacedOneMore ==
  ASSUME NEW nws \in Seq(Seq(Piece)), NEW ws \in Seq(Seq(Char)), Len(nws) = Len(ws),
         NEW x \in Seq(Piece), NEW w \in Seq(Char)
  PROVE  /\ Placed(Append(nws, x), ws) = Append(Placed(nws, ws), x)
         /\ Placed(Append(nws, x), Append(ws, w)) = Append(Placed(nws, ws), x \o <<Meaning(w)>>)
<1> DEFINE N == Len(nws)
           old == Placed(nws, ws)
           nws2 == Append(nws, x)
           ws2 == Append(ws, w)
<1>1. /\ N \in Nat /\ Len(ws) = N /\ old \in Seq(Seq(Piece)) /\ Len(old) = N
      /\ \A i \in 1 .. N : old[i] = nws[i] \o <<Meaning(ws[i])>>
  BY PlacedType DEF Placed
<1>2. /\ nws2 \in Seq(Seq(Piece)) /\ Len(nws2) = N + 1 /\ nws2[N + 1] = x
      /\ \A i \in 1 .. N : nws2[i] = nws[i]
  BY <1>1
<1>3. /\ ws2 \in Seq(Seq(Char)) /\ Len(ws2) = N + 1 /\ ws2[N + 1] = w
      /\ \A i \in 1 .. N : ws2[i] = ws[i]
  BY <1>1
<1>4. x \o <<>> = x /\ <<Meaning(w)>> \in Seq(Piece)
  BY ConcatEmptySeq, PieceType
<1>5. x \o <<Meaning(w)>> \in Seq(Piece)
  BY <1>4
<1> HIDE DEF old, nws2, ws2
<1>6. Placed(nws2, ws) = Append(old, x)
  <2> DEFINE p == Placed(nws2, ws)
             q == Append(old, x)
  <2>1. p \in Seq(Seq(Piece)) /\ Len(p) = N + 1
    BY <1>2, PlacedType
  <2>2. /\ p[N + 1] = x \o <<>>
        /\ \A i \in 1 .. N : p[i] = nws[i] \o <<Meaning(ws[i])>>
    <3>1. \A i \in 1 .. N + 1 : p[i] = nws2[i] \o IF i <= N THEN <<Meaning(ws[i])>> ELSE <<>>
      BY <1>1, <1>2 DEF Placed
    <3>2. N + 1 \in 1 .. N + 1 /\ ~(N + 1 <= N) /\ \A i \in 1 .. N : i \in 1 .. N + 1 /\ i <= N
      BY <1>1
    <3> HIDE DEF p
    <3> QED BY <1>2, <3>1, <3>2
  <2>3. q \in Seq(Seq(Piece)) /\ Len(q) = N + 1 /\ q[N + 1] = x /\ \A i \in 1 .. N : q[i] = old[i]
    BY <1>1
  <2> HIDE DEF p, q
  <2>4. \A i \in 1 .. N + 1 : i = N + 1 \/ i \in 1 .. N
    BY <1>1
  <2>5. \A i \in 1 .. N + 1 : p[i] = q[i]
    BY <1>1, <1>4, <2>2, <2>3, <2>4
  <2>6. p = q
    BY <2>1, <2>3, <2>5, SeqEqual
  <2> QED BY <2>6 DEF p, q
<1>7. Placed(nws2, ws2) = Append(old, x \o <<Meaning(w)>>)
  <2> DEFINE p == Placed(nws2, ws2)
             q == Append(old, x \o <<Meaning(w)>>)
  <2>1. p \in Seq(Seq(Piece)) /\ Len(p) = N + 1
    BY <1>2, <1>3, PlacedType
  <2>2. /\ p[N + 1] = x \o <<Meaning(w)>>
        /\ \A i \in 1 .. N : p[i] = nws[i] \o <<Meaning(ws[i])>>
    <3>1. \A i \in 1 .. N + 1 : p[i] = nws2[i] \o IF i <= N + 1 THEN <<Meaning(ws2[i])>> ELSE <<>>
      BY <1>2, <1>3 DEF Placed
    <3>2. N + 1 \in 1 .. N + 1 /\ N + 1 <= N + 1 /\ \A i \in 1 .. N : i \in 1 .. N + 1 /\ i <= N + 1
      BY <1>1
    <3> HIDE DEF p
    <3> QED BY <1>2, <1>3, <3>1, <3>2
  <2>3. /\ q \in Seq(Seq(Piece)) /\ Len(q) = N + 1 /\ q[N + 1] = x \o <<Meaning(w)>>
        /\ \A i \in 1 .. N : q[i] = old[i]
    BY <1>1, <1>5
  <2> HIDE DEF p, q
  <2>4. \A i \in 1 .. N + 1 : i = N + 1 \/ i \in 1 .. N
    BY <1>1
  <2>5. \A i \in 1 .. N + 1 : p[i] = q[i]
    BY <1>1, <2>2, <2>3, <2>4
  <2>6. p = q
    BY <2>1, <2>3, <2>5, SeqEqual
  <2> QED BY <2>6 DEF p, q
<1> QED BY <1>6, <1>7 DEF old, nws2, ws2

LEMMA PlacedNonWord ==
  ASSUME NEW nws \in Seq(Seq(Piece)), NEW ws \in Seq(Seq(Char)), Len(nws) = Len(ws),
         NEW x \in Seq(Piece)
  PROVE  Joined(Placed(Append(nws, x), ws)) = Joined(Placed(nws, ws)) \o x
<1>1. Placed(Append(nws, x), ws) = Append(Placed(nws, ws), x)
  <2>1. <<>> \in Seq(Char)
    OBVIOUS
  <2> QED BY <2>1, PlacedOneMore
<1>2. Placed(nws, ws) \in Seq(Seq(Piece))
  BY PlacedType
<1> QED BY <1>1, <1>2, JoinedAppend

LEMMA PlacedWord ==
  ASSUME NEW nws \in Seq(Seq(Piece)), NEW ws \in Seq(Seq(Char)), Len(nws) = Len(ws) + 1,
         NEW w \in Seq(Char)
  PROVE  Joined(Placed(nws, Append(ws, w))) = Joined(Placed(nws, ws)) \o <<Meaning(w)>>
<1> DEFINE N == Len(nws)
           front == SubSeq(nws, 1, N - 1)
           x == nws[N]
<1>1. N \in 1 .. N /\ N - 1 = Len(ws)
  OBVIOUS
<1>2. /\ front \in Seq(Seq(Piece)) /\ Len(front) = Len(ws) /\ x \in Seq(Piece)
      /\ SubSeq(nws, 1, N) = Append(front, x)
  BY <1>1, Prefix
<1>3. nws = Append(front, x)
  BY <1>2, SubSeqFull
<1> HIDE DEF front, x, N
<1>4. /\ Placed(nws, ws) = Append(Placed(front, ws), x)
      /\ Placed(nws, Append(ws, w)) = Append(Placed(front, ws), x \o <<Meaning(w)>>)
  BY <1>2, <1>3, PlacedOneMore
<1>5. Placed(front, ws) \in Seq(Seq(Piece))
  BY <1>2, PlacedType
<1>6. <<Meaning(w)>> \in Seq(Piece) /\ x \o <<Meaning(w)>> \in Seq(Piece)
  <2>1. <<Meaning(w)>> \in Seq(Piece)
    BY PieceType
  <2> QED BY <1>2, <2>1, ConcatProperties
<1> DEFINE J == Joined(Placed(front, ws))
<1>7. J \in Seq(Piece)
  BY <1>5, JoinedType
<1>8. Joined(Placed(nws, ws)) = J \o x
  BY <1>2, <1>4, <1>5, JoinedAppend
<1>9. Joined(Placed(nws, Append(ws, w))) = J \o (x \o <<Meaning(w)>>)
  BY <1>4, <1>5, <1>6, JoinedAppend
<1> HIDE DEF J
<1>10. J \o (x \o <<Meaning(w)>>) = (J \o x) \o <<Meaning(w)>>
  BY <1>2, <1>6, <1>7, PiecesAssociative, Zenon
<1> QED BY <1>8, <1>9, <1>10

(* What m has read of s after n characters: the words and non-words put    *)
(* together are the reference of these characters, up to the word or       *)
(* non-word that is still open.                                            *)
HasRead(s, n, m) ==
  LET J == Joined(Placed(m.non_word, m.word))
  IN  /\ m \in Machine /\ Len(m.word) <= n
      /\ m.state = 0 =>
           /\ Len(m.non_word) = Len(m.word) /\ m.w = <<>>
           /\ J \o m.nw = First(s, n)
           /\ n > 0 => m.nw # <<>> /\ ~Alnum(s[n])
      /\ m.state = 1 =>
           /\ Len(m.non_word) = Len(m.word) + 1 /\ m.nw = <<>>
           /\ n = 0 => m.w = <<>> /\ J = <<>> /\ Len(s) > 0 /\ Alnum(s[1])
           /\ n > 0 => /\ Len(m.word) < n
                       /\ J = First(s, n - 1)
                       /\ \E b \in 1 .. n : IsBegin(s, n, b) /\ m.w = SubSeq(s, b, n)

LEMMA ReadBetween ==
  ASSUME NEW s, NEW n \in Nat, NEW m \in Machine, m.state = 0, m.w = <<>>,
         Len(m.non_word) = Len(m.word), Len(m.word) <= n,
         Joined(Placed(m.non_word, m.word)) \o m.nw = First(s, n),
         n > 0 => m.nw # <<>> /\ ~Alnum(s[n])
  PROVE  HasRead(s, n, m)
BY DEF HasRead

LEMMA ReadWithin ==
  ASSUME NEW s, NEW n \in Nat \ {0}, NEW m \in Machine, m.state = 1, m.nw = <<>>,
         Len(m.non_word) = Len(m.word) + 1, Len(m.word) < n, Len(m.word) \in Nat,
         Joined(Placed(m.non_word, m.word)) = First(s, n - 1),
         NEW b \in 1 .. n, IsBegin(s, n, b), m.w = SubSeq(s, b, n)
  PROVE  HasRead(s, n, m)
BY DEF HasRead

LEMMA BegunRead ==
  ASSUME NEW s \in Seq(Char)
  PROVE  HasRead(s, 0, Begun(s))
<1> DEFINE m == Begun(s)
           inWord == s # <<>> /\ Alnum(s[1])
<1>1. m \in Machine /\ First(s, 0) = <<>> /\ Len(<<>>) = 0
  BY BegunType, FirstSteps
<1>2. CASE inWord
  <2>1. m.word = <<>> /\ m.non_word = << <<>> >> /\ m.w = <<>> /\ m.nw = <<>> /\ m.state = 1
    BY <1>2 DEF Begun
  <2>2. Placed(<< <<>> >>, <<>>) = << <<>> >>
    <3>1. /\ <<>> \in Seq(Seq(Piece)) /\ <<>> \in Seq(Seq(Char)) /\ <<>> \in Seq(Piece) /\ <<>> \in Seq(Char)
          /\ Append(<<>>, <<>>) = << <<>> >>
      OBVIOUS
    <3>2. Placed(<<>>, <<>>) = <<>>
      BY DEF Placed
    <3>3. Placed(Append(<<>>, <<>>), <<>>) = Append(Placed(<<>>, <<>>), <<>>)
      BY <3>1, PlacedOneMore, Zenon
    <3> QED BY <3>1, <3>2, <3>3
  <2>3. Joined(<< <<>> >>) = <<>>
    <3>1. <<>> \in Seq(Seq(Piece)) /\ <<>> \in Seq(Piece) /\ Append(<<>>, <<>>) = << <<>> >>
      OBVIOUS
    <3>2. Joined(Append(<<>>, <<>>)) = Joined(<<>>) \o <<>>
      BY <3>1, JoinedAppend
    <3> QED BY <3>1, <3>2, JoinedEmpty, ConcatEmptySeq
  <2>4. Len(m.non_word) = 1 /\ Len(m.word) = 0 /\ Len(s) > 0
    BY <1>2, <2>1
  <2>5. Joined(Placed(m.non_word, m.word)) = <<>>
    BY <2>1, <2>2, <2>3
  <2> HIDE DEF m
  <2>6. HasRead(s, 0, m)
    BY <1>1, <1>2, <2>1, <2>4, <2>5 DEF HasRead
  <2> QED BY <2>6 DEF m
<1>3. CASE ~inWord
  <2>1. m.word = <<>> /\ m.non_word = <<>> /\ m.w = <<>> /\ m.nw = <<>> /\ m.state = 0
    BY <1>3 DEF Begun
  <2>2. Placed(<<>>, <<>>) = <<>>
    BY DEF Placed
  <2>3. Joined(<<>>) \o <<>> = <<>>
    BY JoinedEmpty, ConcatEmptySeq
  <2>4. Len(m.non_word) = Len(m.word) /\ Len(m.word) <= 0
    BY <1>1, <2>1
  <2>5. Joined(Placed(m.non_word, m.word)) \o m.nw = First(s, 0)
    BY <1>1, <2>1, <2>2, <2>3
  <2> HIDE DEF m
  <2>6. HasRead(s, 0, m)
    BY <1>1, <2>1, <2>4, <2>5 DEF HasRead
  <2> QED BY <2>6 DEF m
<1> QED BY <1>2, <1>3

(* The character before the n-th one closes its word, or does not.         *)
LEMMA AtWord ==
  ASSUME NEW s \in Seq(Char), NEW n \in 1 .. Len(s), NEW b \in 1 .. n, IsBegin(s, n, b)
  PROVE  /\ Alnum(s[n])
         /\ n < Len(s) /\ Alnum(s[n + 1]) => At(s, n) = <<>>
         /\ ~(n < Len(s) /\ Alnum(s[n + 1])) => At(s, n) = <<Meaning(SubSeq(s, b, n))>>
<1>1. Alnum(s[n])
  BY DEF IsBegin, InWord
<1>2. WordBegin(s, n) = b
  BY BeginIs
<1> QED BY <1>1, <1>2 DEF At

LEMMA StepRead ==
  ASSUME NEW s \in Seq(Char), NEW n \in 1 .. Len(s), NEW m, HasRead(s, n - 1, m)
  PROVE  HasRead(s, n, Step(m, s[n]))
<1> DEFINE x == s[n]
           k == Step(m, x)
           J == Joined(Placed(m.non_word, m.word))
<1>1. /\ x \in Char /\ m \in Machine /\ n \in Nat \ {0} /\ n - 1 \in Nat /\ Len(s) \in Nat /\ n <= Len(s)
      /\ Len(m.word) \in Nat /\ Len(m.non_word) \in Nat
      /\ m.word \in Seq(Seq(Char)) /\ m.non_word \in Seq(Seq(Piece))
      /\ m.w \in Seq(Char) /\ m.nw \in Seq(Piece) /\ m.state \in {0, 1}
  BY DEF HasRead, Machine
<1>2. k \in Machine
  BY <1>1, StepType
<1>3. J \in Seq(Piece)
  BY <1>1, PlacedType, JoinedType
<1>4. /\ First(s, n) = First(s, n - 1) \o At(s, n)
      /\ First(s, n - 1) \in Seq(Piece) /\ At(s, n) \in Seq(Piece)
  BY FirstSteps
<1>5. Kept(x) \in Piece /\ Append(m.nw, Kept(x)) = m.nw \o <<Kept(x)>> /\ <<Kept(x)>> \in Seq(Piece)
  BY <1>1, PieceType, AppendIsConcat
<1>6. ASSUME m.state = 0, ~Alnum(x) PROVE HasRead(s, n, k)
  <2>1. /\ k.word = m.word /\ k.non_word = m.non_word /\ k.w = <<>>
        /\ k.nw = Append(m.nw, Kept(x)) /\ k.state = 0
    BY <1>6 DEF Step
  <2>2. Len(m.non_word) = Len(m.word) /\ J \o m.nw = First(s, n - 1) /\ Len(m.word) <= n - 1
    BY <1>6 DEF HasRead
  <2>3. At(s, n) = <<Kept(x)>>
    BY <1>6 DEF At
  <2>4. J \o k.nw = First(s, n)
    <3>1. (J \o m.nw) \o <<Kept(x)>> = J \o (m.nw \o <<Kept(x)>>)
      BY <1>1, <1>3, <1>5, PiecesAssociative, Zenon
    <3> QED BY <1>4, <1>5, <2>1, <2>2, <2>3, <3>1
  <2>5. k.nw # <<>> /\ Len(m.word) <= n
    BY <1>1, <1>5, <2>1, <2>2
  <2> HIDE DEF k
  <2>6. HasRead(s, n, k)
    <3>1. Len(k.non_word) = Len(k.word) /\ Len(k.word) <= n
      BY <2>1, <2>2, <2>5
    <3>2. Joined(Placed(k.non_word, k.word)) \o k.nw = First(s, n)
      BY <2>1, <2>4
    <3> QED BY <1>1, <1>2, <1>6, <2>1, <2>5, <3>1, <3>2, ReadBetween
  <2> QED BY <2>6
<1>7. ASSUME m.state = 0, Alnum(x) PROVE HasRead(s, n, k)
  <2>1. /\ k.word = m.word /\ k.non_word = Append(m.non_word, m.nw) /\ k.w = Append(m.w, x)
        /\ k.nw = <<>> /\ k.state = 1
    BY <1>7 DEF Step
  <2>2. /\ Len(m.non_word) = Len(m.word) /\ m.w = <<>> /\ J \o m.nw = First(s, n - 1) /\ Len(m.word) <= n - 1
        /\ n - 1 > 0 => ~Alnum(s[n - 1])
    BY <1>7 DEF HasRead
  <2>3. Joined(Placed(k.non_word, k.word)) = First(s, n - 1)
    BY <1>1, <2>1, <2>2, PlacedNonWord
  <2>4. IsBegin(s, n, n) /\ k.w = SubSeq(s, n, n)
    <3>1. IsBegin(s, n, n)
      BY <1>1, <1>7, <2>2 DEF IsBegin, InWord
    <3>2. k.w = <<x>>
      BY <2>1, <2>2
    <3>3. SubSeq(s, n, n) = <<x>>
      BY SubSeqOne
    <3> QED BY <3>1, <3>2, <3>3
  <2>5. Len(k.non_word) = Len(k.word) + 1 /\ Len(k.word) < n /\ n \in 1 .. n
    BY <1>1, <2>1, <2>2
  <2> HIDE DEF k
  <2> QED BY <1>1, <1>2, <2>1, <2>3, <2>4, <2>5, ReadWithin
<1>8. ASSUME m.state = 1, Alnum(x) PROVE HasRead(s, n, k)
  <2>1. /\ k.word = m.word /\ k.non_word = m.non_word /\ k.w = Append(m.w, x)
        /\ k.nw = <<>> /\ k.state = 1
    BY <1>8 DEF Step
  <2>2. Len(m.non_word) = Len(m.word) + 1 /\ Len(m.word) <= n - 1
    BY <1>8 DEF HasRead
  <2>3. CASE n = 1
    <3>1. m.w = <<>> /\ J = <<>>
      BY <1>8, <2>3 DEF HasRead
    <3>2. J = First(s, n - 1)
      BY <2>3, <3>1, FirstSteps
    <3>3. IsBegin(s, n, n) /\ k.w = SubSeq(s, n, n)
      BY <1>1, <1>8, <2>1, <2>3, <3>1 DEF IsBegin, InWord
    <3>4. Len(k.word) < n /\ n \in 1 .. n
      BY <1>1, <2>1, <2>2
    <3> HIDE DEF k
    <3>5. Joined(Placed(k.non_word, k.word)) = First(s, n - 1) /\ Len(k.non_word) = Len(k.word) + 1
      BY <2>1, <2>2, <3>2
    <3> QED BY <1>1, <1>2, <2>1, <3>3, <3>4, <3>5, ReadWithin
  <2>4. CASE n # 1
    <3>1. n - 1 \in 1 .. Len(s) /\ n - 1 > 0 /\ n - 1 < Len(s) /\ (n - 1) + 1 = n
      BY <1>1, <2>4
    <3>2. PICK b \in 1 .. n - 1 : IsBegin(s, n - 1, b) /\ m.w = SubSeq(s, b, n - 1)
      BY <1>8, <3>1 DEF HasRead
    <3>3. J = First(s, (n - 1) - 1)
      BY <1>8, <3>1 DEF HasRead
    <3>4. At(s, n - 1) = <<>>
      BY <1>8, <3>1, <3>2, AtWord
    <3>5. J = First(s, n - 1)
      <4>1. First(s, n - 1) = First(s, (n - 1) - 1) \o At(s, n - 1)
        BY <3>1, FirstSteps
      <4>2. J \o <<>> = J
        BY <1>3, ConcatEmptySeq
      <4> QED BY <3>3, <3>4, <4>1, <4>2
    <3>6. IsBegin(s, n, b)
      <4>1. \A i \in b .. n : i = n \/ i \in b .. n - 1
        BY <1>1
      <4> QED BY <1>8, <3>2, <4>1 DEF IsBegin, InWord
    <3>7. k.w = SubSeq(s, b, n)
      BY <1>1, <2>1, <3>2
    <3>8. Len(k.word) < n /\ b \in 1 .. n
      BY <1>1, <2>1, <2>2
    <3> HIDE DEF k
    <3>9. Joined(Placed(k.non_word, k.word)) = First(s, n - 1) /\ Len(k.non_word) = Len(k.word) + 1
      BY <2>1, <2>2, <3>5
    <3> QED BY <1>1, <1>2, <2>1, <3>6, <3>7, <3>8, <3>9, ReadWithin
  <2> QED BY <2>3, <2>4
<1>9. ASSUME m.state = 1, ~Alnum(x) PROVE HasRead(s, n, k)
  <2>1. /\ k.word = Append(m.word, m.w) /\ k.non_word = m.non_word /\ k.w = <<>>
        /\ k.nw = Append(<<>>, Kept(x)) /\ k.state = 0
    BY <1>9 DEF Step, HasRead
  <2>2. n # 1
    BY <1>9 DEF HasRead
  <2>3. /\ n - 1 \in 1 .. Len(s) /\ n - 1 > 0 /\ (n - 1) + 1 = n
        /\ Len(m.non_word) = Len(m.word) + 1 /\ Len(m.word) < n - 1
    BY <1>1, <1>9, <2>2 DEF HasRead
  <2>4. PICK b \in 1 .. n - 1 : IsBegin(s, n - 1, b) /\ m.w = SubSeq(s, b, n - 1)
    BY <1>9, <2>3 DEF HasRead
  <2>5. J = First(s, (n - 1) - 1)
    BY <1>9, <2>3 DEF HasRead
  <2>6. At(s, n - 1) = <<Meaning(m.w)>> /\ At(s, n) = <<Kept(x)>>
    <3>1. At(s, n - 1) = <<Meaning(m.w)>>
      BY <1>9, <2>3, <2>4, AtWord
    <3>2. At(s, n) = <<Kept(x)>>
      BY <1>9 DEF At
    <3> QED BY <3>1, <3>2
  <2>7. Joined(Placed(k.non_word, k.word)) = J \o <<Meaning(m.w)>>
    BY <1>1, <2>1, <2>3, PlacedWord
  <2>8. First(s, n - 1) = J \o <<Meaning(m.w)>>
    BY <2>3, <2>5, <2>6, FirstSteps
  <2>9. k.nw = <<Kept(x)>>
    BY <2>1
  <2>10. Joined(Placed(k.non_word, k.word)) \o k.nw = First(s, n)
    BY <1>4, <2>6, <2>7, <2>8, <2>9
  <2>11. Len(k.non_word) = Len(k.word) /\ Len(k.word) <= n /\ k.nw # <<>>
    BY <1>1, <2>1, <2>3, <2>9
  <2> HIDE DEF k
  <2> QED BY <1>1, <1>2, <1>9, <2>1, <2>10, <2>11, ReadBetween
<1> QED BY <1>1, <1>6, <1>7, <1>8, <1>9

(* The words and non-words the parser ends with are the text.              *)
LEMMA ParseRight ==
  ASSUME NEW s \in Seq(Char), NEW p, p = Parse(s)
  PROVE  /\ p.word \in Seq(Seq(Char)) /\ p.non_word \in Seq(Seq(Piece))
         /\ Len(p.word) <= Len(s)
         /\ Len(p.non_word) = Len(p.word) \/ Len(p.non_word) = Len(p.word) + 1
         /\ Joined(Placed(p.non_word, p.word)) = Reference(s)
         /\ Len(s) > 0 => Len(p.non_word) > 0 /\ (Len(p.word) > 0 \/ p.non_word[1] # <<>>)
<1> DEFINE N == Len(s)
<1>1. PICK f \in [0 .. N -> Machine] :
        /\ f[0] = Begun(s)
        /\ \A n \in 1 .. N : f[n] = Step(f[n - 1], s[n])
        /\ Parse(s) = Ended(f[N])
  BY ParseBy
<1> DEFINE T == {n \in 0 .. N : HasRead(s, n, f[n])}
<1>2. N \in Nat /\ N \in 0 .. N
  OBVIOUS
<1>3. 0 \in T
  BY <1>1, <1>2, BegunRead
<1>4. ASSUME NEW n \in 1 .. N, n - 1 \in T PROVE n \in T
  <2>1. HasRead(s, n - 1, f[n - 1]) /\ n \in 0 .. N
    BY <1>2, <1>4
  <2>2. HasRead(s, n, Step(f[n - 1], s[n]))
    BY <2>1, StepRead
  <2> QED BY <1>1, <2>1, <2>2
<1>5. N \in T
  <2> HIDE DEF T
  <2>1. \A n \in 0 .. N : n \in T
    BY <1>2, <1>3, <1>4, UpToN
  <2> QED BY <1>2, <2>1
<1> DEFINE m == f[N]
           J == Joined(Placed(m.non_word, m.word))
<1>6. HasRead(s, N, m) /\ p = Ended(m)
  BY <1>1, <1>5
<1> HIDE DEF T, m
<1>7. /\ m \in Machine /\ m.word \in Seq(Seq(Char)) /\ m.non_word \in Seq(Seq(Piece))
      /\ m.w \in Seq(Char) /\ m.nw \in Seq(Piece) /\ m.state \in {0, 1}
  BY <1>6 DEF HasRead, Machine
<1>8. CASE m.state = 0
  <2>1. p.word = m.word /\ p.non_word = Append(m.non_word, m.nw)
    BY <1>6, <1>8 DEF Ended
  <2>2. /\ Len(m.non_word) = Len(m.word) /\ J \o m.nw = First(s, N) /\ Len(m.word) <= N
        /\ N > 0 => m.nw # <<>>
    BY <1>6, <1>8 DEF HasRead
  <2>3. Joined(Placed(p.non_word, p.word)) = Reference(s)
    BY <1>7, <2>1, <2>2, PlacedNonWord, FirstSteps
  <2>4. /\ p.non_word \in Seq(Seq(Piece)) /\ Len(p.non_word) = Len(p.word) + 1
        /\ p.non_word[Len(p.word) + 1] = m.nw
    BY <1>7, <2>1, <2>2
  <2>5. N > 0 => Len(p.non_word) > 0 /\ (Len(p.word) > 0 \/ p.non_word[1] # <<>>)
    <3>1. Len(p.word) \in Nat
      BY <1>7, <2>1
    <3>2. Len(p.word) > 0 \/ Len(p.word) = 0
      BY <3>1
    <3> QED BY <2>2, <2>4, <3>1, <3>2
  <2> QED BY <1>7, <2>1, <2>2, <2>3, <2>4, <2>5
<1>9. CASE m.state = 1
  <2>1. p.word = Append(m.word, m.w) /\ p.non_word = m.non_word
    BY <1>6, <1>9 DEF Ended
  <2>2. N > 0
    BY <1>2, <1>6, <1>9 DEF HasRead
  <2>3. PICK b \in 1 .. N : IsBegin(s, N, b) /\ m.w = SubSeq(s, b, N)
    BY <1>6, <1>9, <2>2 DEF HasRead
  <2>4. /\ Len(m.non_word) = Len(m.word) + 1 /\ Len(m.word) < N /\ J = First(s, N - 1)
    BY <1>6, <1>9, <2>2 DEF HasRead
  <2>5. N \in 1 .. Len(s) /\ ~(N < Len(s))
    BY <1>2, <2>2
  <2>6. At(s, N) = <<Meaning(m.w)>>
    BY <2>3, <2>5, AtWord
  <2>7. First(s, N) = J \o <<Meaning(m.w)>>
    BY <2>4, <2>5, <2>6, FirstSteps
  <2>8. Joined(Placed(p.non_word, p.word)) = Reference(s)
    BY <1>7, <2>1, <2>4, <2>7, PlacedWord, FirstSteps
  <2>9. p.word \in Seq(Seq(Char)) /\ Len(p.word) = Len(m.word) + 1 /\ Len(m.word) \in Nat
    BY <1>7, <2>1
  <2> QED BY <1>2, <1>7, <2>1, <2>4, <2>8, <2>9
<1> QED BY <1>7, <1>8, <1>9

Tables == {tr \in Seq(Seq(Piece)) : Len(tr) = BufSize}

(* The assembly from the translations of the words and what the table held *)
(* before.                                                                 *)
LEMMA AssembleRight ==
  ASSUME NEW s \in Seq(Char), Len(s) < BufSize, BufSize \in Nat, NEW old \in Tables,
         NEW p, p = Parse(s), NEW tr, tr = Translated(old, p.word)
  PROVE  /\ tr \in Tables
         /\ Assemble(p.non_word, tr) \in Seq(Piece)
         /\ Len(s) > 0 => Assemble(p.non_word, tr) # <<>>
         /\ ~(Len(p.non_word) > Len(p.word) /\ tr[Len(p.non_word)] # <<>>) =>
              Assemble(p.non_word, tr) = Reference(s)
<1> DEFINE W == Len(p.word)
           N == Len(p.non_word)
           parts == [i \in 1 .. N |-> p.non_word[i] \o tr[i]]
<1>1. /\ p.word \in Seq(Seq(Char)) /\ p.non_word \in Seq(Seq(Piece))
      /\ W <= Len(s) /\ (N = W \/ N = W + 1)
      /\ Joined(Placed(p.non_word, p.word)) = Reference(s)
      /\ Len(s) > 0 => N > 0 /\ (W > 0 \/ p.non_word[1] # <<>>)
  BY ParseRight
<1>2. W \in Nat /\ N \in Nat /\ Len(s) \in Nat /\ N <= BufSize
  BY <1>1
<1>3. old \in Seq(Seq(Piece)) /\ Len(old) = BufSize
  BY DEF Tables
<1>4. /\ tr \in Tables
      /\ \A i \in 1 .. W : tr[i] = <<Meaning(p.word[i])>>
  <2>1. \A i \in 1 .. W : <<Meaning(p.word[i])>> \in Seq(Piece)
    BY <1>1, PieceType
  <2>2. tr = [i \in 1 .. BufSize |-> IF i <= W THEN <<Meaning(p.word[i])>> ELSE old[i]]
    BY <1>3 DEF Translated
  <2>3. \A i \in 1 .. BufSize : (IF i <= W THEN <<Meaning(p.word[i])>> ELSE old[i]) \in Seq(Piece)
    <3> SUFFICES ASSUME NEW i \in 1 .. BufSize
                 PROVE  (IF i <= W THEN <<Meaning(p.word[i])>> ELSE old[i]) \in Seq(Piece)
      OBVIOUS
    <3>1. CASE i <= W
      BY <1>2, <2>1, <3>1
    <3>2. CASE ~(i <= W)
      BY <1>3, <3>2
    <3> QED BY <3>1, <3>2
  <2>4. tr \in Seq(Seq(Piece)) /\ Len(tr) = BufSize
    BY <2>2, <2>3
  <2>5. \A i \in 1 .. W : i \in 1 .. BufSize /\ i <= W
    BY <1>1, <1>2
  <2>6. \A i \in 1 .. W : tr[i] = <<Meaning(p.word[i])>>
    BY <2>2, <2>5
  <2> QED BY <2>4, <2>6 DEF Tables
<1>5. /\ parts \in Seq(Seq(Piece)) /\ Len(parts) = N
      /\ \A i \in 1 .. N : p.non_word[i] \in Seq(Piece) /\ tr[i] \in Seq(Piece)
  <2>1. \A i \in 1 .. N : p.non_word[i] \in Seq(Piece) /\ tr[i] \in Seq(Piece)
    BY <1>1, <1>2, <1>4, SMTT(20) DEF Tables
  <2>2. \A i \in 1 .. N : p.non_word[i] \o tr[i] \in Seq(Piece)
    BY <2>1
  <2> QED BY <1>2, <2>1, <2>2
<1>6. Assemble(p.non_word, tr) = Joined(parts)
  BY DEF Assemble
<1>7. Joined(parts) \in Seq(Piece)
  BY <1>5, JoinedType
<1>8. ASSUME Len(s) > 0 PROVE Joined(parts) # <<>>
  <2>1. 1 \in 1 .. N /\ parts[1] = p.non_word[1] \o tr[1]
    <3>1. N > 0
      BY <1>1, <1>8
    <3>2. 1 \in 1 .. N
      BY <1>2, <3>1
    <3> QED BY <3>2
  <2>2. p.non_word[1] # <<>> \/ tr[1] # <<>>
    <3>1. CASE W > 0
      <4>1. 1 \in 1 .. W
        BY <1>2, <3>1
      <4>2. tr[1] = <<Meaning(p.word[1])>>
        BY <1>4, <4>1
      <4>3. <<Meaning(p.word[1])>> # <<>>
        OBVIOUS
      <4> QED BY <4>2, <4>3, Zenon
    <3>2. CASE ~(W > 0)
      BY <1>1, <1>8, <3>2
    <3> QED BY <3>1, <3>2
  <2>3. parts[1] # <<>>
    BY <1>5, <2>1, <2>2, ConcatEqualIffEmpty
  <2> HIDE DEF parts
  <2> QED BY <1>5, <2>1, <2>3, JoinedNonEmpty
<1>9. ASSUME ~(N > W /\ tr[N] # <<>>) PROVE Joined(parts) = Reference(s)
  <2>1. \A i \in 1 .. N : tr[i] = IF i <= W THEN <<Meaning(p.word[i])>> ELSE <<>>
    <3> SUFFICES ASSUME NEW i \in 1 .. N
                 PROVE  tr[i] = IF i <= W THEN <<Meaning(p.word[i])>> ELSE <<>>
      OBVIOUS
    <3>1. CASE i <= W
      <4>1. i \in 1 .. W
        BY <1>2, <3>1
      <4> QED BY <1>4, <3>1, <4>1
    <3>2. CASE ~(i <= W)
      <4>1. i = N /\ N > W
        BY <1>1, <1>2, <3>2
      <4> QED BY <1>9, <3>2, <4>1
    <3> QED BY <3>1, <3>2
  <2>2. parts = Placed(p.non_word, p.word)
    BY <2>1 DEF Placed
  <2> QED BY <1>1, <2>2
<1> HIDE DEF parts
<1> QED BY <1>4, <1>6, <1>7, <1>8, <1>9

-----------------------------------------------------------------------------
(* A text cut behind a word is the one half and the other.                 *)

LEMMA AtFront ==
  ASSUME NEW txt \in Seq(Char), NEW h \in 1 .. Len(txt),
         h = Len(txt) \/ ~Alnum(txt[h + 1]), NEW i \in 1 .. h
  PROVE  At(SubSeq(txt, 1, h), i) = At(txt, i)
<1> DEFINE t == SubSeq(txt, 1, h)
<1>1. t \in Seq(Char) /\ Len(t) = h /\ \A k \in 1 .. h : t[k] = txt[k]
  OBVIOUS
<1>2. i \in 1 .. Len(txt) /\ Len(txt) \in Nat /\ i \in Nat \ {0}
  OBVIOUS
<1>3. (i < Len(t) /\ Alnum(t[i + 1])) <=> (i < Len(txt) /\ Alnum(txt[i + 1]))
  <2>1. CASE i = h
    BY <1>1, <1>2, <2>1
  <2>2. CASE i # h
    <3>1. i + 1 \in 1 .. h
      BY <2>2
    <3> QED BY <1>1, <1>2, <3>1
  <2> QED BY <2>1, <2>2
<1>4. ASSUME Alnum(txt[i])
      PROVE  SubSeq(t, WordBegin(t, i), i) = SubSeq(txt, WordBegin(txt, i), i)
  <2> DEFINE j == WordBegin(txt, i)
  <2>1. j \in 1 .. i /\ IsBegin(txt, i, j)
    BY <1>2, <1>4, BeginExists
  <2> HIDE DEF j
  <2>2. IsBegin(t, i, j)
    <3>1. \A k \in j .. i : k \in 1 .. h
      BY <2>1
    <3>2. j # 1 => j - 1 \in 1 .. h
      BY <2>1
    <3> HIDE DEF t
    <3> QED BY <1>1, <2>1, <3>1, <3>2 DEF IsBegin, InWord
  <2>3. WordBegin(t, i) = j
    BY <1>2, <2>1, <2>2, BeginIs
  <2>4. SubSeq(t, j, i) = SubSeq(txt, j, i)
    <3> DEFINE p == SubSeq(t, j, i)
               q == SubSeq(txt, j, i)
    <3>1. /\ p \in Seq(Char) /\ Len(p) = i - j + 1
          /\ \A k \in 1 .. i - j + 1 : p[k] = t[j + k - 1]
      <4> HIDE DEF t
      <4> QED BY <1>1, <2>1
    <3>2. /\ q \in Seq(Char) /\ Len(q) = i - j + 1
          /\ \A k \in 1 .. i - j + 1 : q[k] = txt[j + k - 1]
      BY <1>2, <2>1
    <3>3. \A k \in 1 .. i - j + 1 : j + k - 1 \in 1 .. h
      BY <2>1
    <3> HIDE DEF p, q
    <3>4. \A k \in 1 .. i - j + 1 : p[k] = q[k]
      BY <1>1, <3>1, <3>2, <3>3
    <3>5. p = q
      BY <3>1, <3>2, <3>4, SeqEqual
    <3> QED BY <3>5 DEF p, q
  <2> QED BY <2>3, <2>4 DEF j
<1>5. t[i] = txt[i]
  BY <1>1
<1> HIDE DEF t
<1>6. At(t, i) = At(txt, i)
  BY <1>3, <1>4, <1>5 DEF At
<1> QED BY <1>6 DEF t

LEMMA AtBack ==
  ASSUME NEW txt \in Seq(Char), NEW h \in 0 .. Len(txt) - 1, ~Alnum(txt[h + 1]),
         NEW i \in 1 .. Len(txt) - h
  PROVE  At(SubSeq(txt, h + 1, Len(txt)), i) = At(txt, h + i)
<1> DEFINE t == SubSeq(txt, h + 1, Len(txt))
           N == Len(txt) - h
<1>1. t \in Seq(Char) /\ Len(t) = N /\ \A k \in 1 .. N : t[k] = txt[h + k]
  OBVIOUS
<1>2. h + i \in 1 .. Len(txt) /\ Len(txt) \in Nat /\ i \in Nat \ {0} /\ h + i \in Nat \ {0} /\ N \in Nat
  OBVIOUS
<1>3. (i < Len(t) /\ Alnum(t[i + 1])) <=> (h + i < Len(txt) /\ Alnum(txt[(h + i) + 1]))
  <2>1. CASE i = N
    <3>1. ~(i < N) /\ ~(h + i < Len(txt))
      BY <1>2, <2>1
    <3> QED BY <1>1, <3>1
  <2>2. CASE i # N
    <3>1. i + 1 \in 1 .. N /\ h + (i + 1) = (h + i) + 1 /\ i < N /\ h + i < Len(txt)
      BY <1>2, <2>2
    <3> QED BY <1>1, <3>1
  <2> QED BY <2>1, <2>2
<1>4. ASSUME Alnum(t[i])
      PROVE  SubSeq(t, WordBegin(t, i), i) = SubSeq(txt, WordBegin(txt, h + i), h + i)
  <2> DEFINE j == WordBegin(t, i)
  <2>1. j \in 1 .. i /\ IsBegin(t, i, j)
    BY <1>2, <1>4, BeginExists
  <2> HIDE DEF j, t
  <2>2. j # 1
    <3>1. ASSUME j = 1 PROVE Alnum(t[1])
      BY <2>1, <3>1 DEF IsBegin, InWord
    <3>2. t[1] = txt[h + 1]
      BY <1>1, <1>2
    <3> QED BY <3>1, <3>2
  <2>3. h + j \in 1 .. h + i /\ IsBegin(txt, h + i, h + j)
    <3>1. \A k \in h + j .. h + i : k - h \in j .. i /\ k - h \in 1 .. N /\ txt[k] = t[k - h]
      <4> SUFFICES ASSUME NEW k \in h + j .. h + i
                   PROVE  k - h \in j .. i /\ k - h \in 1 .. N /\ txt[k] = t[k - h]
        OBVIOUS
      <4>1. k - h \in j .. i /\ k - h \in 1 .. N /\ h + (k - h) = k
        BY <1>2, <2>1
      <4> QED BY <1>1, <4>1
    <3>2. InWord(txt, h + j, h + i)
      BY <2>1, <3>1 DEF IsBegin, InWord
    <3>3. ~Alnum(txt[(h + j) - 1])
      <4>1. j - 1 \in 1 .. N /\ h + (j - 1) = (h + j) - 1
        BY <1>2, <2>1, <2>2
      <4> QED BY <1>1, <2>1, <2>2, <4>1 DEF IsBegin
    <3>4. h + j \in 1 .. h + i
      BY <1>2, <2>1
    <3> QED BY <3>2, <3>3, <3>4 DEF IsBegin
  <2>4. WordBegin(txt, h + i) = h + j
    BY <1>2, <2>3, BeginIs
  <2>5. SubSeq(t, j, i) = SubSeq(txt, h + j, h + i)
    <3> DEFINE p == SubSeq(t, j, i)
               q == SubSeq(txt, h + j, h + i)
    <3>1. /\ p \in Seq(Char) /\ Len(p) = i - j + 1
          /\ \A k \in 1 .. i - j + 1 : p[k] = t[j + k - 1]
      BY <1>1, <1>2, <2>1
    <3>2. /\ q \in Seq(Char) /\ Len(q) = i - j + 1
          /\ \A k \in 1 .. i - j + 1 : q[k] = txt[h + j + k - 1]
      BY <1>2, <2>1, SMTT(20)
    <3>3. \A k \in 1 .. i - j + 1 : j + k - 1 \in 1 .. N /\ h + (j + k - 1) = h + j + k - 1
      BY <1>2, <2>1
    <3> HIDE DEF p, q
    <3>4. \A k \in 1 .. i - j + 1 : p[k] = q[k]
      BY <1>1, <3>1, <3>2, <3>3
    <3>5. p = q
      BY <3>1, <3>2, <3>4, SeqEqual
    <3> QED BY <3>5 DEF p, q
  <2> QED BY <2>4, <2>5 DEF j
<1>5. t[i] = txt[h + i]
  BY <1>1
<1> HIDE DEF t
<1>6. At(t, i) = At(txt, h + i)
  BY <1>3, <1>4, <1>5 DEF At
<1> QED BY <1>6 DEF t

LEMMA SplitRight ==
  ASSUME NEW txt \in Seq(Char), NEW h \in 0 .. Len(txt), h = Len(txt) \/ ~Alnum(txt[h + 1])
  PROVE  Reference(txt) = Reference(SubSeq(txt, 1, h)) \o Reference(SubSeq(txt, h + 1, Len(txt)))
<1> DEFINE front == SubSeq(txt, 1, h)
           back == SubSeq(txt, h + 1, Len(txt))
           p == Ats(front)
           q == Ats(back)
<1>1. front \in Seq(Char) /\ Len(front) = h /\ back \in Seq(Char) /\ Len(back) = Len(txt) - h
  OBVIOUS
<1>2. /\ p \in Seq(Seq(Piece)) /\ Len(p) = h /\ q \in Seq(Seq(Piece)) /\ Len(q) = Len(txt) - h
      /\ Ats(txt) \in Seq(Seq(Piece)) /\ Len(Ats(txt)) = Len(txt)
  BY <1>1, AtsType
<1>3. \A i \in 1 .. h : p[i] = Ats(txt)[i]
  <2> SUFFICES ASSUME NEW i \in 1 .. h PROVE p[i] = Ats(txt)[i]
    OBVIOUS
  <2>1. h \in 1 .. Len(txt) /\ i \in 1 .. Len(txt)
    OBVIOUS
  <2>2. At(front, i) = At(txt, i)
    BY <2>1, AtFront
  <2> HIDE DEF front
  <2> QED BY <1>1, <2>1, <2>2 DEF Ats
<1>4. \A i \in 1 .. Len(txt) - h : q[i] = Ats(txt)[h + i]
  <2> SUFFICES ASSUME NEW i \in 1 .. Len(txt) - h PROVE q[i] = Ats(txt)[h + i]
    OBVIOUS
  <2>1. h \in 0 .. Len(txt) - 1 /\ ~Alnum(txt[h + 1]) /\ h + i \in 1 .. Len(txt)
    OBVIOUS
  <2>2. At(back, i) = At(txt, h + i)
    BY <2>1, AtBack
  <2> HIDE DEF back
  <2> QED BY <1>1, <2>1, <2>2 DEF Ats
<1> HIDE DEF p, q, front, back
<1>5. Ats(txt) = p \o q
  <2> DEFINE r == p \o q
  <2>1. /\ r \in Seq(Seq(Piece)) /\ Len(r) = Len(txt)
        /\ \A i \in 1 .. Len(txt) : r[i] = IF i <= h THEN p[i] ELSE q[i - h]
    <3>1. Len(txt) \in Nat /\ h \in Nat /\ Len(p) + Len(q) = Len(txt)
      BY <1>2
    <3>2. /\ r \in Seq(Seq(Piece)) /\ Len(r) = Len(p) + Len(q)
          /\ \A i \in 1 .. Len(p) + Len(q) : r[i] = IF i <= Len(p) THEN p[i] ELSE q[i - Len(p)]
      <4>1. p \in Seq(Seq(Piece)) /\ q \in Seq(Seq(Piece))
        BY <1>2
      <4> QED BY ONLY <4>1, ConcatProperties
    <3> HIDE DEF r
    <3> QED BY <1>2, <3>1, <3>2
  <2> HIDE DEF r
  <2>2. \A i \in 1 .. Len(txt) : r[i] = Ats(txt)[i]
    <3> SUFFICES ASSUME NEW i \in 1 .. Len(txt) PROVE r[i] = Ats(txt)[i]
      OBVIOUS
    <3>1. CASE i <= h
      <4>1. i \in 1 .. h
        BY <3>1
      <4> QED BY <1>3, <2>1, <3>1, <4>1
    <3>2. CASE ~(i <= h)
      <4>1. i - h \in 1 .. Len(txt) - h /\ h + (i - h) = i
        BY <3>2
      <4> QED BY <1>4, <2>1, <3>2, <4>1
    <3> QED BY <3>1, <3>2
  <2>3. r = Ats(txt)
    BY <1>2, <2>1, <2>2, SeqEqual
  <2> QED BY <2>3 DEF r
<1>6. Joined(p \o q) = Joined(p) \o Joined(q)
  BY <1>2, JoinedConcat
<1> QED BY <1>5, <1>6, ReferenceIs DEF p, q, front, back

-----------------------------------------------------------------------------
(* Strings in a buffer, and where the text is cut.                         *)

LEMMA UpToRight ==
  ASSUME NEW S, NEW s \in Seq(S), NEW e
  PROVE  /\ UpTo(s, e) \in Seq(S \ {e})
         /\ (\A i \in 1 .. Len(s) : s[i] # e) => UpTo(s, e) = s
         /\ (\E i \in 1 .. Len(s) : s[i] = e) => Len(UpTo(s, e)) < Len(s)
         /\ \A n \in 0 .. Len(s) - 1 :
              s[n + 1] = e /\ (\A i \in 1 .. n : s[i] # e) => UpTo(s, e) = SubSeq(s, 1, n)
<1> DEFINE at == {i \in 1 .. Len(s) : s[i] = e}
<1>1. CASE at = {}
  <2>1. UpTo(s, e) = s
    BY <1>1 DEF UpTo
  <2>2. \A i \in 1 .. Len(s) : s[i] # e
    BY <1>1
  <2>3. s \in Seq(S \ {e})
    <3>1. s \in [1 .. Len(s) -> S \ {e}] /\ Len(s) \in Nat
      BY <2>2
    <3> QED BY <3>1
  <2>4. \A n \in 0 .. Len(s) - 1 : n + 1 \in 1 .. Len(s)
    OBVIOUS
  <2> QED BY <2>1, <2>2, <2>3, <2>4
<1>2. CASE at # {}
  <2> DEFINE least == CHOOSE i \in at : \A j \in at : i <= j
  <2>1. least \in at /\ \A j \in at : least <= j
    <3>1. at \in SUBSET Nat
      OBVIOUS
    <3> HIDE DEF at
    <3> QED BY <1>2, <3>1, Smallest
  <2>2. UpTo(s, e) = SubSeq(s, 1, least - 1)
    BY <1>2 DEF UpTo
  <2> HIDE DEF least
  <2>3. /\ least \in 1 .. Len(s) /\ s[least] = e /\ Len(s) \in Nat
        /\ \A i \in 1 .. least - 1 : i \in 1 .. Len(s) /\ s[i] \in S /\ s[i] # e
    <3>1. least \in 1 .. Len(s) /\ s[least] = e /\ Len(s) \in Nat
      BY <2>1
    <3> SUFFICES ASSUME NEW i \in 1 .. least - 1
                 PROVE  i \in 1 .. Len(s) /\ s[i] \in S /\ s[i] # e
      BY <3>1
    <3>2. i \in 1 .. Len(s) /\ ~(least <= i)
      BY <3>1
    <3> QED BY <2>1, <3>2
  <2>4. SubSeq(s, 1, least - 1) \in Seq(S \ {e}) /\ Len(SubSeq(s, 1, least - 1)) < Len(s)
    <3>1. \A i \in 1 .. least - 1 : s[i] \in S \ {e}
      BY <2>3
    <3>2. /\ SubSeq(s, 1, least - 1) \in Seq(S \ {e})
          /\ Len(SubSeq(s, 1, least - 1)) = IF 1 <= least - 1 THEN (least - 1) - 1 + 1 ELSE 0
      BY <2>3, <3>1, SubSeqProperties
    <3> QED BY <2>3, <3>2
  <2>5. ASSUME NEW n \in 0 .. Len(s) - 1, s[n + 1] = e, \A i \in 1 .. n : s[i] # e
        PROVE  n = least - 1
    <3>1. n + 1 \in at
      BY <2>5
    <3>2. least <= n + 1 /\ ~(least \in 1 .. n)
      BY <2>1, <2>3, <2>5, <3>1
    <3> QED BY <2>3, <3>2
  <2>6. \E i \in 1 .. Len(s) : s[i] = e
    BY <2>3
  <2> QED BY <2>2, <2>4, <2>5, <2>6
<1> QED BY <1>1, <1>2

LEMMA UpToAt ==
  ASSUME NEW S, NEW s \in Seq(S), NEW e, NEW n \in 0 .. Len(s) - 1,
         s[n + 1] = e, \A i \in 1 .. n : s[i] # e
  PROVE  UpTo(s, e) = SubSeq(s, 1, n)
BY UpToRight

LEMMA CutRight ==
  ASSUME BufSize \in Nat, NEW b, b[BufSize] = Nul, Nul \notin Letter,
         NEW length \in 1 .. BufSize - 1, NEW size \in Nat
  PROVE  /\ Cut(b, length, size) \in 0 .. BufSize - 1
         /\ ~Alnum(b[Cut(b, length, size) + 1]) \/ Cut(b, length, size) = size
         /\ size = length => Cut(b, length, size) <= length
<1> DEFINE h == Cut(b, length, size)
           middle == length \div 2
           ends == {g \in middle .. BufSize - 1 : ~Alnum(b[g + 1]) \/ g = size}
<1>1. middle \in Nat /\ middle <= length
  OBVIOUS
<1> HIDE DEF middle
<1>2. BufSize - 1 \in ends
  <2>1. BufSize - 1 \in middle .. BufSize - 1 /\ (BufSize - 1) + 1 = BufSize
    BY <1>1
  <2> QED BY <2>1 DEF Alnum
<1>3. \E g \in ends : \A k \in ends : g <= k
  <2>1. ends \in SUBSET Nat /\ ends # {}
    BY <1>1, <1>2
  <2> HIDE DEF ends
  <2> QED BY <2>1, Smallest
<1>4. h \in ends /\ \A k \in ends : h <= k
  <2>1. h = CHOOSE g \in ends : \A k \in ends : g <= k
    BY DEF Cut, middle
  <2> HIDE DEF ends
  <2> QED BY <1>3, <2>1
<1>5. ASSUME size = length PROVE h <= length
  <2>1. length \in ends
    BY <1>1, <1>5
  <2> QED BY <1>4, <2>1
<1> QED BY <1>1, <1>4, <1>5

-----------------------------------------------------------------------------
(* The inductive invariant.                                                *)

LeftOver == Cleared <= Len(text) /\ Len(text) < longest

Types ==
  /\ jobs \in 0 .. MaxTexts /\ longest \in 0 .. BufSize - 1
  /\ text \in Seq(Letter \cup Sign) /\ Len(text) < BufSize /\ stays \in BOOLEAN
  /\ step \in {"accept", "translate", "replied", "killed"}
  /\ buf \in [1 .. BufSize -> Char]
  /\ half_size \in 0 .. BufSize - 1
  /\ rest \in Seq(Letter \cup Sign) /\ Len(rest) < BufSize
  /\ pending \subseteq Supers
  /\ translated \in [Supers -> Tables]
  /\ extra \in BOOLEAN
  /\ result \in Seq(Piece) /\ result2 \in Seq(Piece) /\ reply \in Seq(Piece)

(* buf is clear behind the longest text, and at its beginning when the     *)
(* next text is awaited.                                                   *)
BufClear ==
  /\ \A i \in 1 .. BufSize : i > longest /\ (step = "accept" \/ i > Len(text)) => buf[i] = Nul
  /\ step = "accept" => \A i \in 1 .. Cleared : buf[i] = Nul

(* The halves are the text, cut behind a word, if its client stays and     *)
(* nothing of an earlier text is read behind its end.                      *)
HalvesRight ==
  (step = "translate" /\ stays /\ ~LeftOver) =>
    /\ half_size <= Len(text)
    /\ half_size = Len(text) \/ ~Alnum(text[half_size + 1])
    /\ Half(1) = SubSeq(text, 1, half_size)
    /\ Half(2) = SubSeq(text, half_size + 1, Len(text))

(* A result is that of its half; there is none before.                     *)
ResultsRight ==
  /\ step = "accept" => result2 = <<>> /\ pending = {}
  /\ step = "translate" =>
       /\ 1 \notin pending => extra \/ result = Reference(Half(1))
       /\ 2 \notin pending => extra \/ result2 = Reference(Half(2))
       /\ 2 \notin pending /\ rest # <<>> => result2 # <<>>
       /\ 2 \in pending => result2 = <<>>

TextInv == Types /\ BufClear /\ HalvesRight /\ ResultsRight /\ ReplyRight

LEMMA Bounds ==
  /\ BufSize \in Nat /\ Cleared \in 1 .. BufSize /\ BufSize >= 1
  /\ Nul \notin Letter /\ Nul \in Char /\ Nul \notin Letter \cup Sign
  /\ Letter \cup Sign \subseteq Char /\ MaxTexts \in Nat
BY TextPipelineAssumption DEF Char

LEMMA TypesImply == Types => TypeOK
<1> SUFFICES ASSUME Types PROVE TypeOK
  OBVIOUS
<1>1. longest \in 0 .. BufSize
  BY Bounds DEF Types
<1>2. \A s \in Supers : /\ Len(translated[s]) = BufSize
                        /\ \A i \in 1 .. BufSize : translated[s][i] \in Seq(Piece)
  <2> SUFFICES ASSUME NEW s \in Supers
               PROVE  /\ Len(translated[s]) = BufSize
                      /\ \A i \in 1 .. BufSize : translated[s][i] \in Seq(Piece)
    OBVIOUS
  <2>1. translated[s] \in Seq(Seq(Piece)) /\ Len(translated[s]) = BufSize
    BY DEF Types, Tables
  <2> QED BY <2>1
<1> QED BY <1>1, <1>2 DEF Types, TypeOK, Char

LEMMA HalfType ==
  ASSUME Types, NEW s \in Supers
  PROVE  Half(s) \in Seq(Char) /\ Len(Half(s)) < BufSize
<1>1. SubSeq(buf, 1, half_size) \in Seq(Char) /\ Len(SubSeq(buf, 1, half_size)) = half_size
  BY Bounds DEF Types
<1>2. rest \in Seq(Char)
  BY Bounds, SeqMonotonic DEF Types
<1> QED BY Bounds, <1>1, <1>2 DEF Types, Half

LEMMA InitText == Init => TextInv
<1> SUFFICES ASSUME Init PROVE TextInv
  OBVIOUS
<1>1. <<>> \in Seq(Letter \cup Sign) /\ <<>> \in Seq(Piece) /\ Len(<<>>) = 0
  OBVIOUS
<1>2. translated \in [Supers -> Tables]
  <2>1. [i \in 1 .. BufSize |-> <<>>] \in Seq(Seq(Piece)) /\ Len([i \in 1 .. BufSize |-> <<>>]) = BufSize
    BY Bounds
  <2> QED BY <2>1 DEF Init, Tables
<1>3. Types
  <2>1. buf \in [1 .. BufSize -> Char]
    BY Bounds DEF Init
  <2>2. jobs \in 0 .. MaxTexts /\ longest \in 0 .. BufSize - 1 /\ half_size \in 0 .. BufSize - 1
    BY Bounds DEF Init
  <2>3. Len(text) < BufSize /\ Len(rest) < BufSize
    BY Bounds, <1>1 DEF Init
  <2> QED BY <1>1, <1>2, <2>1, <2>2, <2>3 DEF Init, Types
<1>4. BufClear
  BY Bounds DEF Init, BufClear
<1> QED BY <1>3, <1>4 DEF Init, TextInv, HalvesRight, ResultsRight, ReplyRight

LEMMA RestType ==
  ASSUME NEW b \in [1 .. BufSize -> Char], b[BufSize] = Nul, NEW h \in 0 .. BufSize - 1,
         NEW back, back = SubSeq(b, h + 1, BufSize)
  PROVE  /\ back \in Seq(Char) /\ Len(back) = BufSize - h
         /\ \A i \in 1 .. BufSize - h : back[i] = b[h + i]
         /\ String(back) \in Seq(Letter \cup Sign) /\ Len(String(back)) < BufSize
<1>1. BufSize \in Nat /\ BufSize >= 1 /\ h \in Nat /\ BufSize - h \in Nat \ {0}
  BY Bounds
<1>2. b \in Seq(Char) /\ Len(b) = BufSize
  BY <1>1
<1>3. /\ back \in Seq(Char) /\ Len(back) = BufSize - h
      /\ \A i \in 1 .. BufSize - h : back[i] = b[h + i]
  BY <1>1, <1>2
<1>4. \E i \in 1 .. Len(back) : back[i] = Nul
  <2>1. BufSize - h \in 1 .. Len(back) /\ h + (BufSize - h) = BufSize
    BY <1>1, <1>3
  <2> QED BY <1>3, <2>1
<1>5. String(back) \in Seq(Char \ {Nul}) /\ Len(String(back)) < Len(back)
  BY <1>3, <1>4, UpToRight DEF String
<1>6. Char \ {Nul} = Letter \cup Sign
  BY Bounds DEF Char
<1>7. String(back) \in Seq(Letter \cup Sign)
  BY <1>5, <1>6
<1>8. Len(String(back)) \in Nat
  BY <1>7
<1> QED BY <1>1, <1>3, <1>5, <1>7, <1>8

(* A text that stands in the buffer with a 0 behind it, cut at h, and what *)
(* follows of its halves.                                                  *)
Stands(b, h, t) ==
  /\ b \in [1 .. BufSize -> Char] /\ b[BufSize] = Nul
  /\ h \in 0 .. BufSize - 1
  /\ t \in Seq(Letter \cup Sign) /\ Len(t) < BufSize
  /\ \A i \in 1 .. Len(t) : b[i] = t[i]
  /\ b[Len(t) + 1] = Nul
  /\ h <= Len(t) /\ (~Alnum(b[h + 1]) \/ h = Len(t))

Halved(b, h, t) ==
  /\ h = Len(t) \/ ~Alnum(t[h + 1])
  /\ SubSeq(b, 1, h) = SubSeq(t, 1, h)
  /\ String(SubSeq(b, h + 1, BufSize)) = SubSeq(t, h + 1, Len(t))

LEMMA HalvesOf ==
  ASSUME NEW b, NEW h, NEW t, Stands(b, h, t)
  PROVE  Halved(b, h, t)
<1> PICK n : n = Len(t)
  OBVIOUS
<1> DEFINE back == SubSeq(b, h + 1, BufSize)
<1>0. /\ b \in [1 .. BufSize -> Char] /\ b[BufSize] = Nul
      /\ h \in 0 .. BufSize - 1
      /\ t \in Seq(Letter \cup Sign) /\ n < BufSize
      /\ \A i \in 1 .. n : b[i] = t[i]
      /\ b[n + 1] = Nul
      /\ h <= n /\ (~Alnum(b[h + 1]) \/ h = n)
  BY DEF Stands
<1>1. /\ BufSize \in Nat /\ h \in Nat /\ n \in Nat /\ n - h \in Nat
      /\ BufSize - h \in Nat /\ n - h < BufSize - h
  BY Bounds, <1>0
<1>2. b \in Seq(Char) /\ Len(b) = BufSize /\ t \in Seq(Char) /\ Len(t) = n
  BY Bounds, <1>0, <1>1, SeqMonotonic
<1>3. back \in Seq(Char) /\ Len(back) = BufSize - h /\ \A i \in 1 .. BufSize - h : back[i] = b[h + i]
  BY <1>0, RestType
<1> HIDE DEF back
<1>4. h = n \/ ~Alnum(t[h + 1])
  <2>1. h # n => h + 1 \in 1 .. n
    BY <1>1
  <2> QED BY <1>0, <2>1
<1>5. SubSeq(b, 1, h) = SubSeq(t, 1, h)
  <2> DEFINE p == SubSeq(b, 1, h)
             q == SubSeq(t, 1, h)
  <2>1. p \in Seq(Char) /\ Len(p) = h /\ \A i \in 1 .. h : p[i] = b[i]
    BY <1>1, <1>2
  <2>2. q \in Seq(Char) /\ Len(q) = h /\ \A i \in 1 .. h : q[i] = t[i]
    BY <1>1, <1>2
  <2>3. \A i \in 1 .. h : i \in 1 .. n
    BY <1>1
  <2> HIDE DEF p, q
  <2>4. \A i \in 1 .. h : p[i] = q[i]
    BY <1>0, <2>1, <2>2, <2>3
  <2>5. p = q
    BY <2>1, <2>2, <2>4, SeqEqual
  <2> QED BY <2>5 DEF p, q
<1>6. String(back) = SubSeq(back, 1, n - h)
  <2>1. /\ n - h \in 0 .. Len(back) - 1 /\ (n - h) + 1 \in 1 .. BufSize - h
        /\ h + ((n - h) + 1) = n + 1
    BY <1>1, <1>3
  <2>2. back[(n - h) + 1] = Nul
    BY <1>0, <1>3, <2>1
  <2>3. ASSUME NEW i \in 1 .. n - h PROVE back[i] # Nul
    <3>1. i \in 1 .. BufSize - h /\ h + i \in 1 .. n
      BY <1>1
    <3>2. t[h + i] \in Letter \cup Sign
      BY <1>0, <1>2, <3>1
    <3> QED BY Bounds, <1>0, <1>3, <3>1, <3>2
  <2> DEFINE k == n - h
  <2>4. k \in 0 .. Len(back) - 1 /\ back[k + 1] = Nul /\ \A i \in 1 .. k : back[i] # Nul
    BY <2>1, <2>2, <2>3
  <2> HIDE DEF k
  <2>5. UpTo(back, Nul) = SubSeq(back, 1, k)
    BY ONLY <1>3, <2>4, UpToAt
  <2> QED BY <2>5 DEF k, String
<1>7. SubSeq(back, 1, n - h) = SubSeq(t, h + 1, n)
  <2> DEFINE p == SubSeq(back, 1, n - h)
             q == SubSeq(t, h + 1, n)
  <2>1. p \in Seq(Char) /\ Len(p) = n - h /\ \A i \in 1 .. n - h : p[i] = back[i]
    BY <1>1, <1>3
  <2>2. q \in Seq(Char) /\ Len(q) = n - h /\ \A i \in 1 .. n - h : q[i] = t[h + i]
    <3>1. \A i \in h + 1 .. n : t[i] \in Char
      BY <1>1, <1>2
    <3>2. /\ q \in Seq(Char) /\ Len(q) = IF h + 1 <= n THEN n - (h + 1) + 1 ELSE 0
          /\ \A i \in 1 .. n - (h + 1) + 1 : q[i] = t[(h + 1) + i - 1]
      BY <1>1, <1>2, <3>1, SubSeqProperties
    <3> HIDE DEF q
    <3>3. n - (h + 1) + 1 = n - h /\ \A i \in 1 .. n - h : (h + 1) + i - 1 = h + i
      BY <1>1
    <3>4. Len(q) = n - h
      <4>1. CASE h + 1 <= n
        BY <3>2, <3>3, <4>1
      <4>2. CASE ~(h + 1 <= n)
        <5>1. n - h = 0
          BY <1>0, <1>1, <4>2
        <5> QED BY <3>2, <4>2, <5>1
      <4> QED BY <4>1, <4>2
    <3>5. ASSUME NEW i \in 1 .. n - h PROVE q[i] = t[h + i]
      <4>1. i \in 1 .. n - (h + 1) + 1 /\ (h + 1) + i - 1 = h + i
        BY <3>3
      <4> QED BY <3>2, <4>1
    <3> QED BY <3>2, <3>4, <3>5
  <2>3. \A i \in 1 .. n - h : h + i \in 1 .. n /\ i \in 1 .. BufSize - h
    BY <1>1
  <2> HIDE DEF p, q
  <2>4. \A i \in 1 .. n - h : p[i] = q[i]
    BY <1>0, <1>3, <2>1, <2>2, <2>3
  <2>5. p = q
    BY <2>1, <2>2, <2>4, SeqEqual
  <2> QED BY <2>5 DEF p, q
<1> QED BY <1>4, <1>5, <1>6, <1>7 DEF back, Halved

(* A text arrives, whole or in part. *)
LEMMA ArriveText ==
  ASSUME TextInv, NEW txt \in Texts, NEW n \in 1 .. Len(txt), Arrive(Framed(txt, n))
  PROVE  TextInv'
<1> DEFINE frame == Framed(txt, n)
<1>1. txt \in Seq(Letter \cup Sign) /\ Len(txt) \in 1 .. BufSize - 1
  BY TextPipelineAssumption
<1>2. /\ frame.length = Len(txt) /\ frame.bytes \in Seq(Letter \cup Sign)
      /\ Len(frame.bytes) = n /\ n \in Nat /\ n <= Len(txt)
      /\ n = Len(txt) => frame.bytes = txt
  <2>1. SubSeq(txt, 1, n) \in Seq(Letter \cup Sign) /\ Len(SubSeq(txt, 1, n)) = n
    BY <1>1
  <2>2. n = Len(txt) => SubSeq(txt, 1, n) = txt
    BY <1>1, SubSeqFull
  <2> QED BY <1>1, <2>1, <2>2 DEF Framed
<1> HIDE DEF frame
<1>3. /\ step = "accept" /\ jobs < MaxTexts /\ jobs' = jobs + 1 /\ text' = frame.bytes
      /\ stays' \in (IF n = frame.length THEN BOOLEAN ELSE {FALSE})
      /\ buf' = ReadInto(frame.bytes, n) /\ half_size' = Cut(buf', frame.length, n)
      /\ rest' = String(SubSeq(buf', half_size' + 1, BufSize))
      /\ pending' = Supers /\ extra' = FALSE
      /\ step' = "translate" /\ reply' = <<>>
      /\ UNCHANGED <<longest, translated, result, result2>>
  BY <1>2 DEF Arrive, frame
<1>4. Types /\ BufClear /\ ResultsRight
  BY DEF TextInv
<1>5. /\ buf' \in [1 .. BufSize -> Char]
      /\ \A i \in 1 .. n : buf'[i] = text'[i]
      /\ \A i \in 1 .. BufSize : i > n => buf'[i] = buf[i]
  <2>1. \A i \in 1 .. n : i \in 1 .. BufSize /\ text'[i] \in Letter \cup Sign
    BY Bounds, <1>1, <1>2, <1>3
  <2>2. \A i \in 1 .. BufSize : (IF i <= n THEN text'[i] ELSE buf[i]) \in Char
    <3> SUFFICES ASSUME NEW i \in 1 .. BufSize
                 PROVE  (IF i <= n THEN text'[i] ELSE buf[i]) \in Char
      OBVIOUS
    <3>1. CASE i <= n
      <4>1. i \in 1 .. n
        BY <1>2, <3>1
      <4> QED BY Bounds, <2>1, <3>1, <4>1
    <3>2. CASE ~(i <= n)
      BY <1>4, <3>2 DEF Types
    <3> QED BY <3>1, <3>2
  <2>3. buf' = [i \in 1 .. BufSize |-> IF i <= n THEN text'[i] ELSE buf[i]]
    BY <1>3 DEF ReadInto
  <2> QED BY <1>2, <2>1, <2>2, <2>3
<1>6. /\ longest \in Nat /\ longest < BufSize /\ n < BufSize
      /\ \A i \in 1 .. BufSize : i > longest \/ i <= Cleared => buf[i] = Nul
  <2>1. longest \in Nat /\ longest < BufSize /\ n < BufSize
    BY Bounds, <1>1, <1>2, <1>4 DEF Types
  <2>2. \A i \in 1 .. BufSize : i > longest => buf[i] = Nul
    BY <1>3, <1>4 DEF BufClear
  <2>3. \A i \in 1 .. BufSize : i <= Cleared => i \in 1 .. Cleared
    BY Bounds
  <2>4. \A i \in 1 .. Cleared : buf[i] = Nul
    BY <1>3, <1>4 DEF BufClear
  <2> QED BY <2>1, <2>2, <2>3, <2>4
<1>7. buf'[BufSize] = Nul
  BY Bounds, <1>5, <1>6
<1>8. PICK b, h, t : b = buf' /\ h = half_size' /\ t = text'
  OBVIOUS
<1>9. /\ h \in 0 .. BufSize - 1
      /\ ~Alnum(b[h + 1]) \/ h = n
      /\ n = frame.length => h <= n
  <2>1. h = Cut(b, frame.length, n) /\ b[BufSize] = Nul /\ frame.length \in 1 .. BufSize - 1 /\ n \in Nat
    BY <1>1, <1>2, <1>3, <1>7, <1>8
  <2> DEFINE k == Cut(b, frame.length, n)
  <2>2. k \in 0 .. BufSize - 1 /\ (~Alnum(b[k + 1]) \/ k = n) /\ (n = frame.length => k <= frame.length)
    BY Bounds, <2>1, CutRight
  <2> HIDE DEF k
  <2>3. h = k
    BY <2>1 DEF k
  <2> QED BY <2>2, <2>3
<1>10. rest' \in Seq(Letter \cup Sign) /\ Len(rest') < BufSize
  <2>1. rest' = String(SubSeq(b, h + 1, BufSize)) /\ b \in [1 .. BufSize -> Char] /\ b[BufSize] = Nul
    BY <1>3, <1>5, <1>7, <1>8
  <2> QED BY <1>9, <2>1, RestType
<1>11. Types'
  <2>1. jobs' \in 0 .. MaxTexts
    BY Bounds, <1>3, <1>4 DEF Types
  <2>2. text' \in Seq(Letter \cup Sign) /\ Len(text') < BufSize /\ stays' \in BOOLEAN
    BY <1>2, <1>3, <1>6
  <2>3. <<>> \in Seq(Piece)
    OBVIOUS
  <2>4. half_size' \in 0 .. BufSize - 1
    BY <1>8, <1>9
  <2> QED BY <1>3, <1>4, <1>5, <1>10, <2>1, <2>2, <2>3, <2>4 DEF Types
<1>12. BufClear'
  <2>1. ASSUME NEW i \in 1 .. BufSize, i > longest, i > Len(text') PROVE buf'[i] = Nul
    BY <1>2, <1>3, <1>5, <1>6, <2>1
  <2> QED BY <1>3, <2>1 DEF BufClear
<1>13. ASSUME stays', ~LeftOver'
       PROVE  /\ half_size' <= Len(text')
              /\ half_size' = Len(text') \/ ~Alnum(text'[half_size' + 1])
              /\ Half(1)' = SubSeq(text', 1, half_size')
              /\ Half(2)' = SubSeq(text', half_size' + 1, Len(text'))
  <2>1. n = frame.length /\ t \in Seq(Letter \cup Sign) /\ n = Len(t) /\ h <= n
    BY <1>2, <1>3, <1>8, <1>9, <1>13
  <2>2. b[n + 1] = Nul
    <3>1. n >= Cleared => longest <= n
      BY Bounds, <1>2, <1>3, <1>6, <1>13 DEF LeftOver
    <3>2. n + 1 \in 1 .. BufSize /\ n + 1 > n /\ (n + 1 > longest \/ n + 1 <= Cleared)
      BY Bounds, <1>2, <1>6, <3>1
    <3> QED BY <1>5, <1>6, <1>8, <3>2
  <2>3. b \in [1 .. BufSize -> Char] /\ b[BufSize] = Nul /\ \A i \in 1 .. n : b[i] = t[i]
    BY <1>5, <1>7, <1>8
  <2>4. Halved(b, h, t)
    <3>1. Stands(b, h, t)
      BY <1>6, <1>9, <2>1, <2>2, <2>3 DEF Stands
    <3> QED BY <3>1, HalvesOf
  <2>5. Half(1)' = SubSeq(b, 1, h) /\ Half(2)' = String(SubSeq(b, h + 1, BufSize))
    BY <1>3, <1>8 DEF Half
  <2> QED BY <1>8, <2>1, <2>4, <2>5 DEF Halved
<1>14. HalvesRight'
  BY <1>13 DEF HalvesRight
<1>15. ResultsRight'
  BY <1>3, <1>4 DEF ResultsRight, Supers
<1> QED BY <1>3, <1>11, <1>12, <1>14, <1>15 DEF TextInv, ReplyRight

(* A half is translated. *)
LEMMA TranslateText ==
  ASSUME TextInv, NEW s \in Supers, Translate(s)
  PROVE  TextInv'
<1>1. Types /\ BufClear /\ HalvesRight /\ ResultsRight /\ ReplyRight
  BY DEF TextInv
<1>2. PICK half, p, tr, r : /\ half = Half(s) /\ p = Parse(half)
                            /\ tr = Translated(translated[s], p.word)
                            /\ r = Assemble(p.non_word, tr)
  OBVIOUS
<1> DEFINE over == Len(p.non_word) > Len(p.word) /\ tr[Len(p.non_word)] # <<>>
<1>3. /\ s \in pending /\ pending' = pending \ {s}
      /\ translated' = [translated EXCEPT ![s] = tr]
      /\ extra' = (extra \/ over)
      /\ Finished(s, r)
      /\ UNCHANGED <<jobs, longest, text, stays, step, buf, half_size, rest, reply>>
  BY <1>2 DEF Translate
<1>4. /\ tr \in Tables /\ r \in Seq(Piece)
      /\ Len(half) > 0 => r # <<>>
      /\ ~over => r = Reference(half)
  <2>1. half \in Seq(Char) /\ Len(half) < BufSize /\ translated[s] \in Tables
    BY <1>1, <1>2, HalfType DEF Types
  <2> QED BY <1>2, <2>1, Bounds, AssembleRight
<1> HIDE DEF over
<1>5. PICK x : x = over
  OBVIOUS
<1>6. Half(1)' = Half(1) /\ Half(2)' = Half(2)
  BY <1>3 DEF Half
<1>7. /\ s = 1 => result' = r /\ result2' = result2
      /\ s = 2 => result2' = r /\ result' = result
  BY <1>3 DEF Finished
<1>8. s = 1 \/ s = 2
  BY DEF Supers
<1>9. Types'
  <2>1. translated' \in [Supers -> Tables]
    BY <1>1, <1>3, <1>4 DEF Types
  <2>2. extra' \in BOOLEAN
    BY <1>3
  <2>3. result' \in Seq(Piece) /\ result2' \in Seq(Piece)
    BY <1>1, <1>4, <1>7, <1>8 DEF Types
  <2>4. pending' \subseteq Supers
    BY <1>1, <1>3 DEF Types
  <2> QED BY <1>1, <1>3, <2>1, <2>2, <2>3, <2>4 DEF Types
<1>10. BufClear'
  BY <1>1, <1>3 DEF BufClear
<1>11. HalvesRight'
  BY <1>1, <1>3, <1>6 DEF HalvesRight, LeftOver
<1>12. step # "accept"
  BY <1>1, <1>3 DEF ResultsRight
<1>13. ASSUME step = "translate"
       PROVE  /\ 1 \notin pending' => extra' \/ result' = Reference(Half(1))'
              /\ 2 \notin pending' => extra' \/ result2' = Reference(Half(2))'
              /\ 2 \notin pending' /\ rest' # <<>> => result2' # <<>>
              /\ 2 \in pending' => result2' = <<>>
  <2>1. /\ 1 \notin pending => extra \/ result = Reference(Half(1))
        /\ 2 \notin pending => extra \/ result2 = Reference(Half(2))
        /\ 2 \notin pending /\ rest # <<>> => result2 # <<>>
        /\ 2 \in pending => result2 = <<>>
    BY <1>1, <1>13 DEF ResultsRight
  <2>2. Reference(Half(1))' = Reference(Half(1)) /\ Reference(Half(2))' = Reference(Half(2))
    BY <1>6
  <2>3. over \/ r = Reference(half)
    BY <1>4
  <2>4. CASE s = 1
    <3>1. half = Half(1) /\ result' = r /\ result2' = result2 /\ rest' = rest
      BY <1>2, <1>3, <1>7, <2>4
    <3>2. 1 \notin pending' /\ (2 \in pending' <=> 2 \in pending)
      BY <1>3, <2>4
    <3>3. extra' \/ result' = Reference(Half(1))
      BY <1>3, <2>3, <3>1
    <3> QED BY <1>3, <2>1, <2>2, <3>1, <3>2, <3>3
  <2>5. CASE s = 2
    <3>1. half = Half(2) /\ result' = result /\ result2' = r /\ rest' = rest
      BY <1>2, <1>3, <1>7, <2>5
    <3>2. 2 \notin pending' /\ (1 \in pending' <=> 1 \in pending)
      BY <1>3, <2>5
    <3>3. extra' \/ result2' = Reference(Half(2))
      BY <1>3, <2>3, <3>1
    <3>4. rest # <<>> => Len(half) > 0
      <4>1. half = rest /\ rest \in Seq(Letter \cup Sign)
        BY <1>1, <3>1 DEF Half, Types
      <4> QED BY <4>1, EmptySeq
    <3>5. rest' # <<>> => result2' # <<>>
      BY <1>4, <3>1, <3>4
    <3> QED BY <1>3, <2>1, <2>2, <3>1, <3>2, <3>3, <3>5
  <2> QED BY <1>8, <2>4, <2>5
<1>14. ResultsRight'
  BY <1>3, <1>12, <1>13 DEF ResultsRight
<1>15. ReplyRight'
  <2>1. Reference(text)' = Reference(text)
    BY <1>3
  <2> QED BY <1>1, <1>3, <2>1 DEF ReplyRight
<1> QED BY <1>9, <1>10, <1>11, <1>14, <1>15 DEF TextInv

(* What the client writes is what was sent, and all of it when there is no *)
(* 0 in it.                                                                *)
LEMMA MessageRight ==
  ASSUME NEW r \in Seq(Piece)
  PROVE  /\ Received(Message(r)) \in Seq(Piece)
         /\ r \in Seq(Piece \ {Kept(Nul)}) => Received(Message(r)) = r
<1>1. PICK m : m = Sent(r)
  OBVIOUS
<1>2. m \in Seq(Piece \ {Kept(Nul)})
  BY <1>1, UpToRight DEF Sent
<1>3. m \in Seq(Piece)
  BY <1>2, SeqMonotonic
<1>4. Received(Message(r)) = m
  BY <1>1, <1>3, SubSeqFull DEF Received, Message
<1>5. ASSUME r \in Seq(Piece \ {Kept(Nul)}) PROVE m = r
  <2>1. \A i \in 1 .. Len(r) : r[i] # Kept(Nul)
    BY <1>5
  <2> QED BY <1>1, <2>1, UpToRight DEF Sent
<1> QED BY <1>3, <1>4, <1>5

(* The client is answered, or its leaving ends the process. *)
LEMMA ReplyText ==
  ASSUME TextInv, Reply
  PROVE  TextInv'
<1>1. Types /\ BufClear /\ HalvesRight /\ ResultsRight
  BY DEF TextInv
<1>2. /\ step = "translate" /\ 1 \notin pending /\ result2 # <<>>
      /\ \/ /\ reply' = IF stays THEN Received(Message(result \o result2)) ELSE <<>>
            /\ step' = "replied"
         \/ /\ step' = "killed"
            /\ reply' = reply
      /\ UNCHANGED <<jobs, longest, text, stays, buf, half_size, rest, pending,
                     translated, extra, result, result2>>
  BY DEF Reply
<1>3. PICK r : r = result \o result2
  OBVIOUS
<1>4. r \in Seq(Piece) /\ Received(Message(r)) \in Seq(Piece)
  BY <1>1, <1>3, ConcatProperties, MessageRight DEF Types
<1>5. Types'
  <2>1. <<>> \in Seq(Piece)
    OBVIOUS
  <2>2. reply' \in Seq(Piece)
    BY <1>1, <1>2, <1>3, <1>4, <2>1 DEF Types
  <2> QED BY <1>1, <1>2, <2>2 DEF Types
<1>6. step' # "accept" /\ step' # "translate"
  BY <1>2
<1>7. BufClear'
  BY <1>1, <1>2, <1>6 DEF BufClear
<1>8. HalvesRight' /\ ResultsRight'
  BY <1>6 DEF HalvesRight, ResultsRight
<1>9. ASSUME stays, ~extra, ~LeftOver PROVE Received(Message(r)) = Reference(text)
  <2>1. 2 \notin pending
    BY <1>1, <1>2 DEF ResultsRight
  <2>2. result = Reference(Half(1)) /\ result2 = Reference(Half(2))
    BY <1>1, <1>2, <1>9, <2>1 DEF ResultsRight
  <2>3. PICK h, t : h = half_size /\ t = text
    OBVIOUS
  <2>4. /\ h <= Len(t) /\ (h = Len(t) \/ ~Alnum(t[h + 1]))
        /\ Half(1) = SubSeq(t, 1, h) /\ Half(2) = SubSeq(t, h + 1, Len(t))
    BY <1>1, <1>2, <1>9, <2>3 DEF HalvesRight
  <2>5. t \in Seq(Letter \cup Sign) /\ h \in 0 .. Len(t)
    BY <1>1, <2>3, <2>4 DEF Types
  <2>6. t \in Seq(Char)
    BY <2>5, Bounds, SeqMonotonic
  <2>7. r = Reference(t)
    BY <1>3, <2>2, <2>4, <2>5, <2>6, SplitRight
  <2>8. Reference(t) \in Seq(Piece \ {Kept(Nul)})
    <3>1. Reference(t) \in Seq(Piece \ {Kept(x) : x \in Char \ (Letter \cup Sign)})
      BY <2>5, Bounds, ReferenceType
    <3>2. Kept(Nul) \in {Kept(x) : x \in Char \ (Letter \cup Sign)}
      BY Bounds
    <3>3. Piece \ {Kept(x) : x \in Char \ (Letter \cup Sign)} \subseteq Piece \ {Kept(Nul)}
      BY <3>2
    <3> QED BY <3>1, <3>3, SeqMonotonic
  <2> QED BY <1>4, <2>3, <2>7, <2>8, MessageRight
<1>10. ASSUME step' = "replied", stays, ~extra, ~LeftOver PROVE reply' = Reference(text)
  BY <1>2, <1>3, <1>9, <1>10
<1>11. ReplyRight'
  <2>1. Reference(text)' = Reference(text)
    BY <1>2
  <2> QED BY <1>2, <1>10, <2>1 DEF ReplyRight, LeftOver
<1> QED BY <1>5, <1>7, <1>8, <1>11 DEF TextInv

(* The supernodes clean up. *)
LEMMA ResetText ==
  ASSUME TextInv, Reset
  PROVE  TextInv'
<1>1. Types /\ BufClear
  BY DEF TextInv
<1>2. /\ step = "replied" /\ pending = {} /\ step' = "accept"
      /\ buf' = [i \in 1 .. BufSize |-> IF i <= Cleared THEN Nul ELSE buf[i]]
      /\ longest' = IF Len(text) > longest THEN Len(text) ELSE longest
      /\ result' = <<>> /\ result2' = <<>>
      /\ UNCHANGED <<jobs, text, stays, half_size, rest, pending, translated, extra, reply>>
  BY DEF Reset, Clean
<1>3. /\ longest' \in 0 .. BufSize - 1 /\ longest \in Nat /\ Len(text) \in Nat
      /\ longest <= longest' /\ Len(text) <= longest'
  BY <1>1, <1>2, Bounds DEF Types
<1>4. Types'
  <2>1. buf' \in [1 .. BufSize -> Char]
    BY <1>1, <1>2, Bounds DEF Types
  <2>2. <<>> \in Seq(Piece)
    OBVIOUS
  <2> QED BY <1>1, <1>2, <1>3, <2>1, <2>2 DEF Types
<1>5. BufClear'
  <2>1. ASSUME NEW i \in 1 .. BufSize, i > longest' PROVE buf'[i] = Nul
    <3>1. i > longest /\ i > Len(text)
      BY <1>3, <2>1
    <3>2. buf[i] = Nul
      BY <1>1, <3>1 DEF BufClear
    <3> QED BY <1>2, <3>2
  <2>2. ASSUME NEW i \in 1 .. Cleared PROVE buf'[i] = Nul
    <3>1. i \in 1 .. BufSize /\ i <= Cleared
      BY Bounds
    <3> QED BY <1>2, <3>1
  <2> QED BY <2>1, <2>2 DEF BufClear
<1>6. HalvesRight' /\ ResultsRight' /\ ReplyRight'
  BY <1>2 DEF HalvesRight, ResultsRight, ReplyRight
<1> QED BY <1>4, <1>5, <1>6 DEF TextInv

LEMMA TextStep == TextInv /\ [Next]_vars => TextInv'
<1> SUFFICES ASSUME TextInv, [Next]_vars PROVE TextInv'
  OBVIOUS
<1>1. ASSUME NEW txt \in Texts, NEW n \in 1 .. Len(txt), Arrive(Framed(txt, n)) PROVE TextInv'
  BY <1>1, ArriveText
<1>2. ASSUME NEW s \in Supers, Translate(s) PROVE TextInv'
  BY <1>2, TranslateText
<1>3. CASE Reply
  BY <1>3, ReplyText
<1>4. CASE Reset
  BY <1>4, ResetText
<1>5. CASE UNCHANGED vars
  <2>1. UNCHANGED <<jobs, longest, text, stays, step, buf, half_size, rest, pending,
                    translated, extra, result, result2, reply>>
    BY <1>5 DEF vars
  <2>2. Types /\ BufClear /\ HalvesRight /\ ResultsRight /\ ReplyRight
    BY DEF TextInv
  <2>3. Half(1)' = Half(1) /\ Half(2)' = Half(2)
    BY <2>1 DEF Half
  <2>4. Types' /\ BufClear'
    BY <2>1, <2>2 DEF Types, BufClear
  <2>5. HalvesRight'
    BY <2>1, <2>2, <2>3 DEF HalvesRight, LeftOver
  <2>6. ResultsRight'
    BY <2>1, <2>2, <2>3 DEF ResultsRight
  <2>7. ReplyRight'
    BY <2>1, <2>2 DEF ReplyRight
  <2> QED BY <2>4, <2>5, <2>6, <2>7 DEF TextInv
<1> QED BY <1>1, <1>2, <1>3, <1>4, <1>5 DEF Next

LEMMA TextAlways == Spec => []TextInv
BY InitText, TextStep, PTL DEF Spec

(* The half of a text is a string of the text's characters, the tables of  *)
(* translations keep their length, and everything sent is made of signs    *)
(* and translations, whatever the texts are and however large buf is       *)
(* (super.cc:623-683,724-741,766-804,848-856).                             *)
THEOREM TextTypes == Spec => []TypeOK
<1>1. TextInv => TypeOK
  BY TypesImply DEF TextInv
<1> QED BY <1>1, TextAlways, PTL

(* For every alphabet, every text shorter than buf and every number of     *)
(* texts after each other: the client gets its text back with each word    *)
(* translated and all else in its place, but for a text of Cleared or more *)
(* characters after a longer one and for a sign that finds an old          *)
(* translation behind the last word (super.cc:623-683,724-741,748,766-804, *)
(* 848-856; README.md:20-21).                                              *)
THEOREM ReplyIsTranslation == Spec => []ReplyRight
<1>1. TextInv => ReplyRight
  BY DEF TextInv
<1> QED BY <1>1, TextAlways, PTL

(* main() finds the result2 it waits for when both halves are translated   *)
(* and the second one is not empty, and it is never one of an earlier text *)
(* (super.cc:733,745,858).                                                 *)
THEOREM SecondHalfComes == Spec => []WaitEnds
<1>1. TextInv => WaitEnds
  BY DEF TextInv, ResultsRight, WaitEnds
<1> QED BY <1>1, TextAlways, PTL

-----------------------------------------------------------------------------
(* The lines of a head.                                                    *)

(* What is known of a head whose lengths are of V. *)
Found(V) == [host : BOOLEAN, lengthGiven : BOOLEAN, length : V, encode : BOOLEAN,
             crashed : BOOLEAN]

LengthsIn(lines, V) ==
  \A i \in 2 .. Len(lines) :
    HeaderLine(lines[i]) /\ lines[i][1] \in LengthNames => lines[i][2] \in V

LEMMA TakeLineIs ==
  ASSUME NEW V, NEW h \in Found(V), NEW line,
         HeaderLine(line) /\ line[1] \in LengthNames => line[2] \in V,
         NEW k, k = TakeLine(h, line)
  PROVE  /\ k \in Found(V)
         /\ k.crashed <=> h.crashed \/ ~HeaderLine(line)
         /\ ~k.crashed =>
              /\ k.host <=> h.host \/ line[1] = "Host"
              /\ k.lengthGiven <=> h.lengthGiven \/ line[1] \in LengthNames
              /\ k.length = IF line[1] \in LengthNames THEN line[2] ELSE h.length
              /\ k.encode <=> h.encode \/ (line[1] \in TypeNames /\ line[2] = Form)
<1>1. CASE h.crashed \/ ~HeaderLine(line)
  <2>1. k = [h EXCEPT !.crashed = TRUE]
    BY <1>1 DEF TakeLine
  <2> QED BY <1>1, <2>1 DEF Found
<1>2. CASE ~(h.crashed \/ ~HeaderLine(line)) /\ line[1] = "Host"
  <2>1. k = [h EXCEPT !.host = TRUE]
    BY <1>2 DEF TakeLine, LengthNames, TypeNames
  <2> QED BY <1>2, <2>1 DEF Found, LengthNames, TypeNames
<1>3. CASE ~(h.crashed \/ ~HeaderLine(line)) /\ line[1] \in LengthNames
  <2>1. k = [h EXCEPT !.lengthGiven = TRUE, !.length = line[2]]
    BY <1>3 DEF TakeLine, LengthNames, TypeNames
  <2> QED BY <1>3, <2>1 DEF Found, LengthNames, TypeNames
<1>4. CASE ~(h.crashed \/ ~HeaderLine(line)) /\ line[1] \in TypeNames
  <2>1. k = [h EXCEPT !.encode = h.encode \/ line[2] = Form]
    BY <1>4 DEF TakeLine, LengthNames, TypeNames
  <2> QED BY <1>4, <2>1 DEF Found, LengthNames, TypeNames
<1>5. CASE /\ ~(h.crashed \/ ~HeaderLine(line)) /\ line[1] # "Host"
           /\ line[1] \notin LengthNames \cup TypeNames
  <2>1. k = h
    BY <1>5 DEF TakeLine
  <2> QED BY <1>5, <2>1 DEF Found
<1> QED BY <1>1, <1>2, <1>3, <1>4, <1>5

LEMMA LinesBy ==
  ASSUME NEW lines, Len(lines) \in Nat \ {0}, NEW V, NEW before \in Found(V), LengthsIn(lines, V)
  PROVE  \E f \in [0 .. Len(lines) - 1 -> Found(V)] :
           /\ f[0] = before
           /\ \A n \in 1 .. Len(lines) - 1 : f[n] = TakeLine(f[n - 1], lines[n + 1])
           /\ Lines(lines, before) = f[Len(lines) - 1]
<1> DEFINE N == Len(lines) - 1
           read == CHOOSE f : f = [n \in 0 .. N |-> IF n = 0 THEN before
                                                    ELSE TakeLine(f[n - 1], lines[n + 1])]
           g == [x \in (1 .. N) \X Found(V) |-> TakeLine(x[2], lines[x[1] + 1])]
<1>1. N \in Nat /\ g \in [(1 .. N) \X Found(V) -> Found(V)]
  <2>1. \A n \in 1 .. N : n + 1 \in 2 .. Len(lines)
    OBVIOUS
  <2>2. \A n \in 1 .. N : \A h \in Found(V) : TakeLine(h, lines[n + 1]) \in Found(V)
    BY <2>1, TakeLineIs DEF LengthsIn
  <2> QED BY <2>2
<1>2. \A n \in 1 .. N : \A h \in Found(V) : g[<<n, h>>] = TakeLine(h, lines[n + 1])
  OBVIOUS
<1> HIDE DEF g
<1>3. PICK f \in [0 .. N -> Found(V)] :
        f[0] = before /\ \A n \in 1 .. N : f[n] = g[<<n, f[n - 1]>>]
  <2>1. Defines(N, Found(V), before, g)
    BY <1>1, Recursion
  <2> QED BY <2>1 DEF Defines
<1>4. ASSUME NEW n \in 1 .. N PROVE f[n] = TakeLine(f[n - 1], lines[n + 1])
  <2>1. n - 1 \in 0 .. N
    BY <1>1
  <2>2. f[n - 1] \in Found(V)
    BY <2>1
  <2> QED BY <1>2, <1>3, <2>2
<1> DEFINE IsIt(x) == x = [n \in 0 .. N |-> IF n = 0 THEN before
                                            ELSE TakeLine(x[n - 1], lines[n + 1])]
<1>5. IsIt(f)
  <2>1. \A n \in 0 .. N : n = 0 \/ n \in 1 .. N
    BY <1>1
  <2>2. \A n \in 0 .. N : f[n] = IF n = 0 THEN before ELSE TakeLine(f[n - 1], lines[n + 1])
    BY <1>3, <1>4, <2>1
  <2> QED BY <2>2
<1>6. IsIt(read)
  <2>1. read = CHOOSE x : IsIt(x)
    OBVIOUS
  <2> HIDE DEF IsIt
  <2> QED BY <1>5, <2>1
<1>7. Lines(lines, before) = read[N]
  BY DEF Lines
<1> HIDE DEF read
<1> DEFINE T == {n \in 0 .. N : read[n] = f[n]}
<1>8. 0 \in T
  BY <1>1, <1>3, <1>6
<1>9. ASSUME NEW n \in 1 .. N, n - 1 \in T PROVE n \in T
  <2>1. n \in 0 .. N /\ n # 0 /\ read[n - 1] = f[n - 1]
    BY <1>1, <1>9
  <2>2. read[n] = TakeLine(read[n - 1], lines[n + 1])
    BY <1>6, <2>1
  <2> QED BY <1>4, <2>1, <2>2
<1> HIDE DEF T
<1>10. N \in T
  <2>1. \A n \in 0 .. N : n \in T
    BY <1>1, <1>8, <1>9, UpToN
  <2> QED BY <1>1, <2>1
<1> QED BY <1>3, <1>4, <1>7, <1>10 DEF T

(* The places of these names among the first m lines. *)
PlacesTo(lines, m, names) == {i \in 2 .. m : HeaderLine(lines[i]) /\ lines[i][1] \in names}

LEMMA OnePlaceMore ==
  ASSUME NEW lines, NEW m \in Nat \ {0}, NEW names
  PROVE  PlacesTo(lines, m + 1, names) =
           PlacesTo(lines, m, names) \cup
             IF HeaderLine(lines[m + 1]) /\ lines[m + 1][1] \in names THEN {m + 1} ELSE {}
<1>1. 2 .. m + 1 = (2 .. m) \cup {m + 1}
  OBVIOUS
<1> QED BY <1>1 DEF PlacesTo

(* What is known when m lines are read that none of is broken. *)
KnownOf(lines, m, length, h) ==
  /\ h.crashed <=> \E i \in 2 .. m : ~HeaderLine(lines[i])
  /\ ~h.crashed =>
       /\ h.host <=> PlacesTo(lines, m, {"Host"}) # {}
       /\ h.lengthGiven <=> PlacesTo(lines, m, LengthNames) # {}
       /\ ~h.lengthGiven => h.length = length
       /\ h.lengthGiven => \E i \in PlacesTo(lines, m, LengthNames) :
                             /\ \A j \in PlacesTo(lines, m, LengthNames) : j <= i
                             /\ h.length = lines[i][2]
       /\ h.encode <=> \E i \in PlacesTo(lines, m, TypeNames) : lines[i][2] = Form

LEMMA KnownMore ==
  ASSUME NEW lines, NEW m \in Nat \ {0}, NEW length, NEW V, NEW h \in Found(V),
         KnownOf(lines, m, length, h),
         HeaderLine(lines[m + 1]) /\ lines[m + 1][1] \in LengthNames => lines[m + 1][2] \in V
  PROVE  KnownOf(lines, m + 1, length, TakeLine(h, lines[m + 1]))
<1> PICK line, k : line = lines[m + 1] /\ k = TakeLine(h, line)
  OBVIOUS
<1>1. /\ k \in Found(V)
      /\ k.crashed <=> h.crashed \/ ~HeaderLine(line)
      /\ ~k.crashed =>
           /\ k.host <=> h.host \/ line[1] = "Host"
           /\ k.lengthGiven <=> h.lengthGiven \/ line[1] \in LengthNames
           /\ k.length = IF line[1] \in LengthNames THEN line[2] ELSE h.length
           /\ k.encode <=> h.encode \/ (line[1] \in TypeNames /\ line[2] = Form)
  BY TakeLineIs
<1>2. 2 .. m + 1 = (2 .. m) \cup {m + 1}
  OBVIOUS
<1>3. k.crashed <=> \E i \in 2 .. m + 1 : ~HeaderLine(lines[i])
  BY <1>1, <1>2 DEF KnownOf
<1>4. ASSUME ~k.crashed, NEW names
      PROVE  PlacesTo(lines, m + 1, names) =
               PlacesTo(lines, m, names) \cup IF line[1] \in names THEN {m + 1} ELSE {}
  BY <1>1, <1>4, OnePlaceMore
<1>5. ASSUME ~k.crashed
      PROVE  /\ k.host <=> PlacesTo(lines, m + 1, {"Host"}) # {}
             /\ k.lengthGiven <=> PlacesTo(lines, m + 1, LengthNames) # {}
             /\ k.encode <=> \E i \in PlacesTo(lines, m + 1, TypeNames) : lines[i][2] = Form
  <2>1. /\ h.host <=> PlacesTo(lines, m, {"Host"}) # {}
        /\ h.lengthGiven <=> PlacesTo(lines, m, LengthNames) # {}
        /\ h.encode <=> \E i \in PlacesTo(lines, m, TypeNames) : lines[i][2] = Form
    BY <1>1, <1>5 DEF KnownOf
  <2>2. PlacesTo(lines, m + 1, {"Host"}) =
          PlacesTo(lines, m, {"Host"}) \cup IF line[1] \in {"Host"} THEN {m + 1} ELSE {}
    BY <1>4, <1>5
  <2>3. PlacesTo(lines, m + 1, LengthNames) =
          PlacesTo(lines, m, LengthNames) \cup IF line[1] \in LengthNames THEN {m + 1} ELSE {}
    BY <1>4, <1>5
  <2>4. PlacesTo(lines, m + 1, TypeNames) =
          PlacesTo(lines, m, TypeNames) \cup IF line[1] \in TypeNames THEN {m + 1} ELSE {}
    BY <1>4, <1>5
  <2>5. k.host <=> PlacesTo(lines, m + 1, {"Host"}) # {}
    BY <1>1, <1>5, <2>1, <2>2
  <2>6. k.lengthGiven <=> PlacesTo(lines, m + 1, LengthNames) # {}
    BY <1>1, <1>5, <2>1, <2>3
  <2>7. k.encode <=> \E i \in PlacesTo(lines, m + 1, TypeNames) : lines[i][2] = Form
    BY <1>1, <1>5, <2>1, <2>4
  <2> QED BY <2>5, <2>6, <2>7
<1>6. ASSUME ~k.crashed
      PROVE  /\ ~k.lengthGiven => k.length = length
             /\ k.lengthGiven => \E i \in PlacesTo(lines, m + 1, LengthNames) :
                                   /\ \A j \in PlacesTo(lines, m + 1, LengthNames) : j <= i
                                   /\ k.length = lines[i][2]
  <2>1. PlacesTo(lines, m + 1, LengthNames) =
          PlacesTo(lines, m, LengthNames) \cup IF line[1] \in LengthNames THEN {m + 1} ELSE {}
    BY <1>4, <1>6
  <2>2. CASE line[1] \in LengthNames
    <3>1. \A j \in PlacesTo(lines, m, LengthNames) : j <= m + 1
      BY DEF PlacesTo
    <3> QED BY <1>1, <1>6, <2>1, <2>2, <3>1
  <2>3. CASE line[1] \notin LengthNames
    <3>1. k.length = h.length /\ (k.lengthGiven <=> h.lengthGiven) /\ ~h.crashed
      BY <1>1, <1>6, <2>3
    <3> QED BY <2>1, <2>3, <3>1 DEF KnownOf
  <2> QED BY <2>2, <2>3
<1> QED BY <1>3, <1>5, <1>6 DEF KnownOf

LEMMA LinesRight ==
  ASSUME NEW lines, Len(lines) \in Nat \ {0}, NEW V, NEW before \in Found(V), LengthsIn(lines, V),
         ~before.host, ~before.lengthGiven, ~before.encode, ~before.crashed
  PROVE  /\ Lines(lines, before) \in Found(V)
         /\ KnownOf(lines, Len(lines), before.length, Lines(lines, before))
<1> DEFINE N == Len(lines) - 1
<1>1. PICK f \in [0 .. N -> Found(V)] :
        /\ f[0] = before
        /\ \A n \in 1 .. N : f[n] = TakeLine(f[n - 1], lines[n + 1])
        /\ Lines(lines, before) = f[N]
  BY LinesBy
<1> DEFINE T == {n \in 0 .. N : KnownOf(lines, n + 1, before.length, f[n])}
<1>2. N \in Nat /\ N + 1 = Len(lines)
  OBVIOUS
<1>3. 0 \in T
  <2>1. 2 .. 0 + 1 = {}
    OBVIOUS
  <2>2. \A names : PlacesTo(lines, 0 + 1, names) = {}
    BY <2>1 DEF PlacesTo
  <2>3. KnownOf(lines, 0 + 1, before.length, before)
    BY <2>1, <2>2 DEF KnownOf
  <2> QED BY <1>1, <1>2, <2>3
<1>4. ASSUME NEW n \in 1 .. N, n - 1 \in T PROVE n \in T
  <2>1. /\ n \in 0 .. N /\ n - 1 \in 0 .. N /\ (n - 1) + 1 = n /\ n \in Nat \ {0}
        /\ n + 1 \in 2 .. Len(lines)
    BY <1>2
  <2>2. KnownOf(lines, n, before.length, f[n - 1]) /\ f[n - 1] \in Found(V)
    BY <1>4, <2>1
  <2>3. HeaderLine(lines[n + 1]) /\ lines[n + 1][1] \in LengthNames => lines[n + 1][2] \in V
    BY <2>1 DEF LengthsIn
  <2>4. KnownOf(lines, n + 1, before.length, TakeLine(f[n - 1], lines[n + 1]))
    BY <2>1, <2>2, <2>3, KnownMore
  <2> QED BY <1>1, <2>1, <2>4
<1> HIDE DEF T
<1>5. N \in T
  <2>1. \A n \in 0 .. N : n \in T
    BY <1>2, <1>3, <1>4, UpToN
  <2> QED BY <1>2, <2>1
<1> QED BY <1>1, <1>2, <1>5 DEF T

LEMMA LastPlace ==
  ASSUME NEW lines, NEW names, NEW i \in Places(lines, names),
         \A j \in Places(lines, names) : j <= i
  PROVE  Max(Places(lines, names)) = i
<1> DEFINE S == Places(lines, names)
           m == CHOOSE x \in S : \A y \in S : x >= y
<1>1. S \subseteq Int /\ i \in S /\ \A y \in S : i >= y
  BY DEF Places
<1>2. Max(S) = m
  BY DEF Max
<1> HIDE DEF S
<1>3. m \in S /\ \A y \in S : m >= y
  BY <1>1
<1> QED BY <1>1, <1>2, <1>3 DEF S

LEMMA SameVerdict ==
  ASSUME NEW A, NEW B, NEW C, NEW D,
         NEW x \in [does : A, length : B, encode : C, target : D],
         NEW y \in [does : A, length : B, encode : C, target : D],
         x.does = y.does, x.length = y.length, x.encode = y.encode, x.target = y.target
  PROVE  x = y
OBVIOUS
(* The event-driven server never unescapes: its verdict without encode.    *)
LEMMA EncodeCleared ==
  /\ [Refused EXCEPT !.encode = FALSE] = Refused
  /\ [Crashed EXCEPT !.encode = FALSE] = Crashed
  /\ \A t : [Gets(t) EXCEPT !.encode = FALSE] = Gets(t)
  /\ \A n, e : [Posts(n, e) EXCEPT !.encode = FALSE] = Posts(n, FALSE)
<1> DEFINE R(t, n, e) == [does : {"404", "crash", "get", "post"}, length : {0, n},
                          encode : {e, FALSE}, target : {"", t}]
<1>1. ASSUME NEW A, NEW B, NEW C, NEW D, FALSE \in C,
             NEW x \in [does : A, length : B, encode : C, target : D]
      PROVE  /\ [x EXCEPT !.encode = FALSE] \in [does : A, length : B, encode : C, target : D]
             /\ [x EXCEPT !.encode = FALSE].does = x.does
             /\ [x EXCEPT !.encode = FALSE].length = x.length
             /\ [x EXCEPT !.encode = FALSE].encode = FALSE
             /\ [x EXCEPT !.encode = FALSE].target = x.target
  BY <1>1
<1>2. ASSUME NEW t, NEW n, NEW e
      PROVE  /\ Refused \in R(t, n, e) /\ Crashed \in R(t, n, e)
             /\ Gets(t) \in R(t, n, e)
             /\ Posts(n, e) \in R(t, n, e) /\ Posts(n, FALSE) \in R(t, n, e)
  BY DEF Refused, Crashed, Gets, Posts
<1>3. ASSUME NEW t, NEW n, NEW e
      PROVE  /\ Refused.encode = FALSE /\ Crashed.encode = FALSE /\ Gets(t).encode = FALSE
             /\ Posts(n, FALSE).encode = FALSE
             /\ Posts(n, e).does = Posts(n, FALSE).does
             /\ Posts(n, e).length = Posts(n, FALSE).length
             /\ Posts(n, e).target = Posts(n, FALSE).target
  BY DEF Refused, Crashed, Gets, Posts
<1>4. ASSUME NEW t, NEW n, NEW e, NEW x \in R(t, n, e), NEW y \in R(t, n, e),
             x.does = y.does, x.length = y.length, x.target = y.target, y.encode = FALSE
      PROVE  [x EXCEPT !.encode = FALSE] = y
  <2> DEFINE A == {"404", "crash", "get", "post"}
             B == {0, n}
             C == {e, FALSE}
             D == {"", t}
  <2>1. /\ x \in [does : A, length : B, encode : C, target : D]
        /\ y \in [does : A, length : B, encode : C, target : D] /\ FALSE \in C
    BY <1>4
  <2> HIDE DEF A, B, C, D
  <2>2. PICK z : z = [x EXCEPT !.encode = FALSE]
    OBVIOUS
  <2>3. /\ z \in [does : A, length : B, encode : C, target : D] /\ z.does = x.does
        /\ z.length = x.length /\ z.encode = FALSE /\ z.target = x.target
    BY <1>1, <2>1, <2>2
  <2>4. z = y
    <3>1. z.does = y.does /\ z.length = y.length /\ z.encode = y.encode /\ z.target = y.target
      BY <1>4, <2>3
    <3> QED BY ONLY <2>1, <2>3, <3>1, SameVerdict
  <2> QED BY <2>2, <2>4
<1> HIDE DEF R
<1>5. [Refused EXCEPT !.encode = FALSE] = Refused
  BY <1>2, <1>3, <1>4
<1>6. [Crashed EXCEPT !.encode = FALSE] = Crashed
  BY <1>2, <1>3, <1>4
<1>7. ASSUME NEW t PROVE [Gets(t) EXCEPT !.encode = FALSE] = Gets(t)
  <2>1. Gets(t) \in R(t, 0, FALSE) /\ Gets(t).encode = FALSE
    BY <1>2, <1>3
  <2> QED BY <1>4, <2>1
<1>8. ASSUME NEW n, NEW e PROVE [Posts(n, e) EXCEPT !.encode = FALSE] = Posts(n, FALSE)
  <2>1. Posts(n, e) \in R("", n, e) /\ Posts(n, FALSE) \in R("", n, e)
    BY <1>2
  <2>2. /\ Posts(n, FALSE).encode = FALSE
        /\ Posts(n, e).does = Posts(n, FALSE).does
        /\ Posts(n, e).length = Posts(n, FALSE).length
        /\ Posts(n, e).target = Posts(n, FALSE).target
    BY <1>3
  <2> QED BY <1>4, <2>1, <2>2
<1> QED BY <1>5, <1>6, <1>7, <1>8

(* A head is taken for what it means, by both readers. *)
LEMMA HeadRight ==
  ASSUME NEW L, NEW lines \in Seq(L), NEW V, 0 \in V, NEW length \in V, LengthsIn(lines, V)
  PROVE  /\ BlockingHead(lines) = Meant(lines)
         /\ EventHead(lines, length).verdict = [Meant(lines) EXCEPT !.encode = FALSE]
         /\ EventHead(lines, length).length \in V
<1>1. CASE lines = <<>> \/ ~FirstLine(lines[1])
  <2>1. BlockingHead(lines) = Refused
    BY <1>1 DEF BlockingHead
  <2>2. EventHead(lines, length) = [verdict |-> Refused, length |-> length]
    BY <1>1, Zenon DEF EventHead
  <2>3. Meant(lines) = Refused
    BY <1>1, Zenon DEF Meant, FirstLine
  <2>4. [Refused EXCEPT !.encode = FALSE] = Refused
    BY EncodeCleared
  <2> QED BY <2>1, <2>2, <2>3, <2>4
<1>2. CASE ~(lines = <<>> \/ ~FirstLine(lines[1]))
  <2> DEFINE first == [NothingRead EXCEPT !.length = length]
             hosts == Places(lines, {"Host"})
             lengths == Places(lines, LengthNames)
             given == IF lengths = {} THEN 0 ELSE lines[Max(lengths)][2]
             broken == \E i \in 2 .. Len(lines) : ~HeaderLine(lines[i])
             encode == \E i \in Places(lines, TypeNames) : lines[i][2] = Form
  <2>1. /\ NothingRead \in Found(V) /\ first \in Found(V) /\ first.length = length
        /\ ~first.host /\ ~first.lengthGiven /\ ~first.encode /\ ~first.crashed
        /\ ~NothingRead.host /\ ~NothingRead.lengthGiven /\ ~NothingRead.encode
        /\ ~NothingRead.crashed /\ NothingRead.length = 0
    BY DEF NothingRead, Found
  <2> HIDE DEF first
  <2>2. PICK g, h : g = Lines(lines, NothingRead) /\ h = Lines(lines, first)
    OBVIOUS
  <2>3. Len(lines) \in Nat \ {0}
    BY <1>2
  <2>4. /\ g \in Found(V) /\ KnownOf(lines, Len(lines), 0, g)
        /\ h \in Found(V) /\ KnownOf(lines, Len(lines), length, h)
    BY <2>1, <2>2, <2>3, LinesRight
  <2>5. \A names : PlacesTo(lines, Len(lines), names) = Places(lines, names)
    BY DEF PlacesTo, Places
  <2>6. ASSUME NEW k, NEW old, KnownOf(lines, Len(lines), old, k)
        PROVE  /\ k.crashed <=> broken
               /\ ~k.crashed => /\ k.host <=> hosts # {}
                                /\ k.lengthGiven <=> lengths # {}
                                /\ k.length = IF lengths = {} THEN old ELSE given
                                /\ k.encode <=> encode
    <3>1. k.crashed <=> broken
      BY <2>6 DEF KnownOf
    <3>2. ASSUME ~k.crashed
          PROVE  /\ k.host <=> hosts # {}
                 /\ k.lengthGiven <=> lengths # {}
                 /\ k.encode <=> encode
      BY <2>5, <2>6, <3>2 DEF KnownOf
    <3>3. ASSUME ~k.crashed, lengths = {} PROVE k.length = old
      BY <2>5, <2>6, <3>2, <3>3 DEF KnownOf
    <3>4. ASSUME ~k.crashed, lengths # {} PROVE k.length = given
      <4>1. PICK i \in lengths : (\A j \in lengths : j <= i) /\ k.length = lines[i][2]
        BY <2>5, <2>6, <3>2, <3>4 DEF KnownOf
      <4>2. Max(lengths) = i
        BY <4>1, LastPlace
      <4> QED BY <3>4, <4>1, <4>2
    <3> QED BY <3>1, <3>2, <3>3, <3>4
  <2>7. Meant(lines) = IF broken THEN Crashed
                       ELSE IF hosts = {} THEN Refused
                       ELSE IF lines[1][1] = "GET" THEN Gets(lines[1][2])
                       ELSE IF lines[1][1] = "POST" /\ given # 0 THEN Posts(given, encode)
                       ELSE Refused
    BY <1>2, Zenon DEF Meant, FirstLine
  <2>8. BlockingHead(lines) = Judged(lines[1], g)
    BY <1>2, <2>2 DEF BlockingHead
  <2> DEFINE verdict == IF h.crashed THEN Crashed
                        ELSE IF ~h.host THEN Refused
                        ELSE CASE lines[1][1] = "POST" /\ ~NoContent(h) -> Posts(h.length, FALSE)
                               [] lines[1][1] = "GET" -> Gets(lines[1][2])
                               [] OTHER -> Refused
  <2>9. EventHead(lines, length) = [verdict |-> verdict, length |-> h.length]
    <3>1. h = Lines(lines, [NothingRead EXCEPT !.length = length])
      BY <2>2 DEF first
    <3> QED BY ONLY <1>2, <3>1, Zenon DEF EventHead
  <2>10. /\ g.crashed <=> broken
         /\ ~g.crashed => /\ g.host <=> hosts # {}
                          /\ g.lengthGiven <=> lengths # {}
                          /\ g.length = IF lengths = {} THEN 0 ELSE given
                          /\ g.encode <=> encode
    BY <2>4, <2>6
  <2>11. /\ h.crashed <=> broken
         /\ ~h.crashed => /\ h.host <=> hosts # {}
                          /\ h.lengthGiven <=> lengths # {}
                          /\ h.length = IF lengths = {} THEN length ELSE given
    BY <2>4, <2>6
  <2>12. lengths = {} => given = 0
    OBVIOUS
  <2> HIDE DEF hosts, lengths, given, broken, encode
  <2>13. g.encode \in BOOLEAN /\ encode \in BOOLEAN
    BY <2>4 DEF Found, encode
  <2>14. BlockingHead(lines) = Meant(lines)
    BY <2>7, <2>8, <2>10, <2>12, <2>13 DEF Judged
  <2>15. verdict = [Meant(lines) EXCEPT !.encode = FALSE]
    <3>1. /\ [Refused EXCEPT !.encode = FALSE] = Refused
          /\ [Crashed EXCEPT !.encode = FALSE] = Crashed
          /\ \A t : [Gets(t) EXCEPT !.encode = FALSE] = Gets(t)
          /\ \A n, e : [Posts(n, e) EXCEPT !.encode = FALSE] = Posts(n, FALSE)
      BY EncodeCleared
    <3>2. CASE broken
      BY <2>7, <2>11, <3>1, <3>2
    <3>3. CASE ~broken /\ hosts = {}
      BY <2>7, <2>11, <3>1, <3>3
    <3>4. CASE ~broken /\ hosts # {} /\ lines[1][1] = "GET"
      BY <2>7, <2>11, <3>1, <3>4
    <3>5. CASE ~broken /\ hosts # {} /\ lines[1][1] = "POST" /\ given # 0
      <4>1. lines[1][1] # "GET" /\ lengths # {}
        BY <2>12, <3>5
      <4>2. Meant(lines) = Posts(given, encode)
        BY <2>7, <3>5, <4>1
      <4>3. ~h.crashed /\ h.host /\ h.lengthGiven /\ h.length = given
        BY <2>11, <3>5, <4>1
      <4>4. ~NoContent(h)
        BY <3>5, <4>3 DEF NoContent
      <4>5. verdict = Posts(given, FALSE)
        BY <3>5, <4>1, <4>3, <4>4
      <4> HIDE DEF verdict
      <4>6. [Posts(given, encode) EXCEPT !.encode = FALSE] = Posts(given, FALSE)
        BY <3>1
      <4> QED BY <4>2, <4>5, <4>6, Zenon
    <3>6. CASE ~broken /\ hosts # {} /\ lines[1][1] # "GET" /\ ~(lines[1][1] = "POST" /\ given # 0)
      <4>1. Meant(lines) = Refused
        BY <2>7, <3>6
      <4>2. lines[1][1] = "POST" => NoContent(h)
        BY <2>11, <3>6 DEF NoContent
      <4>3. verdict = Refused
        BY <2>11, <3>6, <4>2
      <4> QED BY <3>1, <4>1, <4>3
    <3> QED BY <3>2, <3>3, <3>4, <3>5, <3>6
  <2>16. h.length \in V
    BY <2>4 DEF Found
  <2> HIDE DEF verdict
  <2> QED BY <2>9, <2>14, <2>15, <2>16
<1> QED BY <1>1, <1>2

-----------------------------------------------------------------------------
(* One call of read_cb.                                                    *)

Chars == STRING \cup {NoChar}
Pairs == Seq(Chars) \X Seq(Chars)
Stores == Seq(Pairs)
Buffers == [0 .. KeySize -> Chars]

(* What read_cb works with: its variables and those of p_info. *)
Callbacks == [state : {1, 2}, key : Buffers, key_size : Nat, length : 0 .. MaxBody,
              left : 0 .. MaxBody, size : Nat, value : Buffers, input : Seq(STRING),
              sets : Stores, refused : Int, back : BOOLEAN, response : {"none", "404", "ok"}]

(* The key and what is still to come of the body fit into B bytes. *)
Fits(p, B) ==
  /\ p.key_size <= B
  /\ ~p.back => p.response = "none" /\ p.size + p.left <= B
  /\ p.response # "ok"
  /\ ~p.back /\ p.state = 2 => p.key_size + p.left <= B
  /\ p.response = "none" /\ (p.back \/ p.state = 1) => p.key_size + p.length <= B

(* What a turn of the loop does to the variables. *)
Shorter(p, key, value, input) ==
  [p EXCEPT !.key = key, !.value = value, !.input = input, !.left = p.left - 1]
KeyEnded(q, n) ==
  [q EXCEPT !.key = [q.key EXCEPT ![n] = NoChar], !.key_size = n, !.size = 0, !.state = 2]
ValueEnded(q) == [q EXCEPT !.key_size = 0, !.size = 0, !.state = 1]
Noted(q) == [q EXCEPT !.length = q.left]
ValueStopped(q) == [q EXCEPT !.length = q.left, !.back = TRUE]
KeyStopped(q, n) == [q EXCEPT !.key_size = n, !.length = q.left, !.back = TRUE]
OneMore(q) == [q EXCEPT !.size = q.size + 1]
Broken(q) == [q EXCEPT !.back = TRUE, !.response = "404"]

LEMMA BytesAre ==
  ASSUME NEW b \in Buffers, NEW n \in Nat, n <= KeySize + 1, KeySize \in Nat
  PROVE  Bytes(b, n) \in Seq(Chars)
<1>1. \A i \in 1 .. n : i - 1 \in 0 .. KeySize
  OBVIOUS
<1>2. \A i \in 1 .. n : b[i - 1] \in Chars
  BY <1>1 DEF Buffers
<1>3. Bytes(b, n) \in [1 .. n -> Chars]
  BY <1>2 DEF Bytes
<1> QED BY <1>3

LEMMA RemovedIs ==
  ASSUME NEW p \in Callbacks, NEW b \in Buffers
  PROVE  Removed(p, b) \in Buffers
<1>1. p.input # <<>> => Head(p.input) \in Chars
  BY DEF Callbacks, Chars
<1> QED BY <1>1 DEF Removed, Buffers

LEMMA StoredIs ==
  ASSUME NEW p \in Callbacks, NEW n \in Nat, n <= KeySize + 1, p.key_size <= KeySize + 1,
         KeySize \in Nat, NEW then \in Callbacks, then.sets = p.sets
  PROVE  /\ Stored(p, n, then) \in Callbacks
         /\ \/ Stored(p, n, then) = Broken(p)
            \/ /\ Stored(p, n, then).state = then.state /\ Stored(p, n, then).size = then.size
               /\ Stored(p, n, then).key_size = then.key_size
               /\ Stored(p, n, then).length = then.length
               /\ Stored(p, n, then).left = then.left
               /\ Stored(p, n, then).back = then.back
               /\ Stored(p, n, then).response = then.response
               /\ Stored(p, n, then).key = then.key /\ Stored(p, n, then).input = then.input
               /\ Stored(p, n, then).sets =
                    Append(p.sets, <<Bytes(p.key, p.key_size), Bytes(p.value, n)>>)
<1>1. CASE Len(p.sets) = p.refused
  <2>1. Stored(p, n, then) = Broken(p)
    BY <1>1 DEF Stored, Broken
  <2> QED BY <2>1 DEF Callbacks, Broken
<1>2. CASE Len(p.sets) # p.refused
  <2>1. PICK s : s = <<Bytes(p.key, p.key_size), Bytes(p.value, n)>>
    OBVIOUS
  <2>2. s \in Pairs
    <3>1. p.key \in Buffers /\ p.value \in Buffers /\ p.key_size \in Nat
      BY DEF Callbacks
    <3> QED BY <2>1, <3>1, BytesAre DEF Pairs
  <2>3. Stored(p, n, then) = [then EXCEPT !.sets = Append(then.sets, s)]
    BY <1>2, <2>1 DEF Stored
  <2>4. Append(then.sets, s) \in Stores
    <3>1. then.sets \in Stores
      BY DEF Callbacks
    <3> QED BY <2>2, <3>1 DEF Stores
  <2>5. PICK sets1 : sets1 = Append(then.sets, s)
    OBVIOUS
  <2>6. PICK k : k = Stored(p, n, then)
    OBVIOUS
  <2>7. k = [then EXCEPT !.sets = sets1] /\ sets1 \in Stores
    BY <2>3, <2>4, <2>5, <2>6
  <2>8. /\ k \in Callbacks /\ k.state = then.state /\ k.size = then.size
        /\ k.key_size = then.key_size /\ k.length = then.length /\ k.left = then.left
        /\ k.back = then.back /\ k.response = then.response
        /\ k.key = then.key /\ k.input = then.input /\ k.sets = sets1
    BY ONLY <2>7, then \in Callbacks DEF Callbacks
  <2> QED BY <2>1, <2>5, <2>6, <2>8
<1> QED BY <1>1, <1>2

LEMMA RestIs ==
  ASSUME NEW S, NEW s \in Seq(S)
  PROVE  (IF s = <<>> THEN <<>> ELSE Tail(s)) \in Seq(S)
OBVIOUS

LEMMA ShorterIs ==
  ASSUME NEW p \in Callbacks, p.left > 0, MaxBody \in Nat,
         NEW key \in Buffers, NEW value \in Buffers,
         NEW input \in Seq(STRING), NEW q,
         q = Shorter(p, key, value, input)
  PROVE  /\ q \in Callbacks /\ q.key = key /\ q.value = value /\ q.state = p.state
         /\ q.size = p.size /\ q.key_size = p.key_size /\ q.length = p.length
         /\ q.left = p.left - 1 /\ q.back = p.back /\ q.response = p.response
         /\ q.input = input /\ q.sets = p.sets
<1>1. p.left - 1 \in 0 .. MaxBody
  BY DEF Callbacks
<1> QED BY <1>1 DEF Callbacks, Shorter

LEMMA ChangedAt ==
  ASSUME NEW D, NEW S, NEW b \in [D -> S], NEW n \in D, NEW c \in S
  PROVE  [b EXCEPT ![n] = c] \in [D -> S]
OBVIOUS

LEMMA KeyEndedIs ==
  ASSUME KeySize \in Nat, NEW q \in Callbacks, NEW n \in 0 .. KeySize, NEW k,
         k = KeyEnded(q, n)
  PROVE  /\ k \in Callbacks /\ k.key_size = n /\ k.size = 0 /\ k.state = 2
         /\ k.length = q.length /\ k.left = q.left /\ k.back = q.back /\ k.response = q.response
         /\ k.input = q.input /\ k.sets = q.sets
<1>1. PICK key : key = [q.key EXCEPT ![n] = NoChar]
  OBVIOUS
<1>2. key \in Buffers
  <2>1. q.key \in Buffers
    BY DEF Callbacks
  <2>2. NoChar \in Chars
    BY DEF Chars
  <2> QED BY <1>1, <2>1, <2>2, ChangedAt DEF Buffers
<1>3. k = [q EXCEPT !.key = key, !.key_size = n, !.size = 0, !.state = 2]
  BY <1>1 DEF KeyEnded
<1>4. n \in Nat
  OBVIOUS
<1>5. /\ k \in Callbacks /\ k.key_size = n /\ k.size = 0 /\ k.state = 2
      /\ k.length = q.length /\ k.left = q.left /\ k.back = q.back /\ k.response = q.response
      /\ k.input = q.input /\ k.sets = q.sets
  BY ONLY <1>2, <1>3, <1>4, q \in Callbacks DEF Callbacks
<1> QED BY <1>1, <1>5

LEMMA KeyEndedKeeps ==
  ASSUME NEW q \in Callbacks, NEW n, NEW k, k = KeyEnded(q, n)
  PROVE  k.key = [q.key EXCEPT ![n] = NoChar]
<1>1. PICK key : key = [q.key EXCEPT ![n] = NoChar]
  OBVIOUS
<1>2. k = [q EXCEPT !.key = key, !.key_size = n, !.size = 0, !.state = 2]
  BY <1>1 DEF KeyEnded
<1>3. k.key = key
  BY ONLY <1>2, q \in Callbacks DEF Callbacks
<1> QED BY <1>1, <1>3

LEMMA ValueEndedIs ==
  ASSUME NEW q \in Callbacks, NEW k, k = ValueEnded(q)
  PROVE  /\ k \in Callbacks /\ k.key_size = 0 /\ k.size = 0 /\ k.state = 1
         /\ k.length = q.length /\ k.left = q.left /\ k.back = q.back /\ k.response = q.response
         /\ k.sets = q.sets /\ k.key = q.key /\ k.input = q.input
BY DEF Callbacks, ValueEnded

LEMMA ValueStoppedIs ==
  ASSUME NEW q \in Callbacks, NEW k, k = ValueStopped(q)
  PROVE  /\ k \in Callbacks /\ k.key_size = q.key_size /\ k.size = q.size /\ k.state = q.state
         /\ k.length = q.left /\ k.left = q.left /\ k.back /\ k.response = q.response
         /\ k.sets = q.sets /\ k.key = q.key
BY DEF Callbacks, ValueStopped

LEMMA KeyStoppedIs ==
  ASSUME NEW q \in Callbacks, NEW n \in Nat, NEW k,
         k = KeyStopped(q, n)
  PROVE  /\ k \in Callbacks /\ k.key_size = n /\ k.state = q.state
         /\ k.length = q.left /\ k.left = q.left /\ k.back /\ k.response = q.response
         /\ k.sets = q.sets /\ k.key = q.key
BY DEF Callbacks, KeyStopped

LEMMA OneMoreIs ==
  ASSUME NEW q \in Callbacks, NEW k, k = OneMore(q)
  PROVE  /\ k \in Callbacks /\ k.key_size = q.key_size /\ k.size = q.size + 1
         /\ k.state = q.state /\ k.length = q.length /\ k.left = q.left
         /\ k.back = q.back /\ k.response = q.response
         /\ k.key = q.key /\ k.value = q.value /\ k.input = q.input /\ k.sets = q.sets
<1>1. q.size + 1 \in Nat
  BY DEF Callbacks
<1> QED BY <1>1 DEF Callbacks, OneMore

LEMMA BrokenIs ==
  ASSUME NEW q \in Callbacks, NEW k, k = Broken(q)
  PROVE  /\ k \in Callbacks /\ k.key_size = q.key_size /\ k.length = q.length
         /\ k.back /\ k.response = "404"
BY DEF Callbacks, Broken

LEMMA NotedIs ==
  ASSUME NEW q \in Callbacks, NEW k, k = Noted(q)
  PROVE  /\ k \in Callbacks /\ k.key_size = q.key_size /\ k.key = q.key
         /\ k.value = q.value /\ k.sets = q.sets
BY DEF Callbacks, Noted

LEMMA TurnIs ==
  ASSUME NEW p, p.state \in {1, 2}, ~p.back, p.left > 0, NEW q,
         q = Shorter(p, IF p.state = 1 THEN Removed(p, p.key) ELSE p.key,
                        IF p.state = 2 THEN Removed(p, p.value) ELSE p.value,
                        IF p.input = <<>> THEN <<>> ELSE Tail(p.input))
  PROVE  Turn(p) =
           IF p.state = 1 /\ q.key[p.size] = "=" THEN KeyEnded(q, p.size)
           ELSE IF p.state = 2 /\ q.value[p.size] = "&" THEN Stored(q, p.size, ValueEnded(q))
           ELSE IF q.input = <<>> /\ q.left > 0
           THEN IF p.state = 2 THEN Stored(Noted(q), Taken(p), ValueStopped(q))
                               ELSE KeyStopped(q, Taken(p))
           ELSE OneMore(q)
<1> DEFINE starved == q.input = <<>> /\ q.left > 0
<1> DEFINE r == [p EXCEPT !.key = IF p.state = 1 THEN Removed(p, p.key) ELSE p.key,
                          !.value = IF p.state = 2 THEN Removed(p, p.value) ELSE p.value,
                          !.input = IF p.input = <<>> THEN <<>> ELSE Tail(p.input),
                          !.left = p.left - 1]
<1>1. p.left # 0
  OBVIOUS
<1>2. q = r
  BY DEF Shorter
<1>3. Turn(p) =
    CASE p.back \/ p.left = 0 -> p
      [] ~p.back /\ p.left > 0 /\ p.state = 1 /\ q.key[p.size] = "=" -> KeyEnded(q, p.size)
      [] ~p.back /\ p.left > 0 /\ p.state = 2 /\ q.value[p.size] = "&" ->
           Stored(q, p.size, ValueEnded(q))
      [] ~p.back /\ p.state = 2 /\ q.value[p.size] # "&" /\ starved ->
           Stored(Noted(q), Taken(p), ValueStopped(q))
      [] ~p.back /\ p.state = 1 /\ q.key[p.size] # "=" /\ starved -> KeyStopped(q, Taken(p))
      [] OTHER -> OneMore(q)
  <2>1. Turn(p) =
      CASE p.back \/ p.left = 0 -> p
        [] ~p.back /\ p.left > 0 /\ p.state = 1 /\ r.key[p.size] = "=" -> KeyEnded(r, p.size)
        [] ~p.back /\ p.left > 0 /\ p.state = 2 /\ r.value[p.size] = "&" ->
             Stored(r, p.size, ValueEnded(r))
        [] ~p.back /\ p.state = 2 /\ r.value[p.size] # "&" /\ r.input = <<>> /\ r.left > 0 ->
             Stored(Noted(r), Taken(p), ValueStopped(r))
        [] ~p.back /\ p.state = 1 /\ r.key[p.size] # "=" /\ r.input = <<>> /\ r.left > 0 ->
             KeyStopped(r, Taken(p))
        [] OTHER -> OneMore(r)
    BY DEF Turn, KeyEnded, ValueEnded, Noted, ValueStopped, KeyStopped, OneMore
  <2> HIDE DEF r
  <2> QED BY ONLY <1>2, <2>1, Zenon
<1>4. PICK a, b, c, d, e :
        /\ a = KeyEnded(q, p.size) /\ b = Stored(q, p.size, ValueEnded(q))
        /\ c = Stored(Noted(q), Taken(p), ValueStopped(q))
        /\ d = KeyStopped(q, Taken(p)) /\ e = OneMore(q)
  OBVIOUS
<1> HIDE DEF r
<1>5. PICK endsKey, endsValue, stops :
        /\ endsKey = (q.key[p.size] = "=") /\ endsValue = (q.value[p.size] = "&")
        /\ stops = starved
  OBVIOUS
<1> HIDE DEF starved
<1>6. Turn(p) =
    CASE p.back \/ p.left = 0 -> p
      [] ~p.back /\ p.left > 0 /\ p.state = 1 /\ endsKey -> a
      [] ~p.back /\ p.left > 0 /\ p.state = 2 /\ endsValue -> b
      [] ~p.back /\ p.state = 2 /\ ~endsValue /\ stops -> c
      [] ~p.back /\ p.state = 1 /\ ~endsKey /\ stops -> d
      [] OTHER -> e
  BY ONLY <1>3, <1>4, <1>5, Zenon
<1>7. Turn(p) = IF p.state = 1 /\ endsKey THEN a ELSE IF p.state = 2 /\ endsValue THEN b
                ELSE IF stops THEN IF p.state = 2 THEN c ELSE d
                ELSE e
  BY <1>1, <1>6
<1> QED BY ONLY <1>4, <1>5, <1>7, Zenon DEF starved

LEMMA TurnFits ==
  ASSUME NEW p \in Callbacks, NEW B \in Nat, B <= KeySize, KeySize \in Nat, MaxBody \in Nat,
         MaxBody <= B, Fits(p, B)
  PROVE  Turn(p) \in Callbacks /\ Fits(Turn(p), B)
<1>1. CASE p.back \/ p.left = 0
  <2>1. Turn(p) = p
    BY <1>1 DEF Turn, Callbacks
  <2> QED BY <2>1
<1>2. CASE ~p.back /\ p.left # 0
  <2>1. /\ p.state \in {1, 2} /\ p.left \in Nat /\ p.left > 0 /\ p.size \in Nat
        /\ p.key_size \in Nat /\ p.key_size <= B /\ p.size + p.left <= B /\ p.response = "none"
        /\ p.state = 2 => p.key_size + p.left <= B
        /\ p.length \in 0 .. MaxBody /\ p.back = FALSE
        /\ p.state = 1 => p.key_size + p.length <= B
    BY <1>2 DEF Callbacks, Fits
  <2>2. PICK key, value, input :
          /\ key = IF p.state = 1 THEN Removed(p, p.key) ELSE p.key
          /\ value = IF p.state = 2 THEN Removed(p, p.value) ELSE p.value
          /\ input = IF p.input = <<>> THEN <<>> ELSE Tail(p.input)
    OBVIOUS
  <2>3. key \in Buffers /\ value \in Buffers /\ input \in Seq(STRING)
    <3>1. p.key \in Buffers /\ p.value \in Buffers /\ p.input \in Seq(STRING)
      BY DEF Callbacks
    <3>2. input \in Seq(STRING)
      BY <2>2, <3>1, RestIs
    <3> QED BY <2>2, <3>1, <3>2, RemovedIs
  <2>4. PICK q : q = Shorter(p, key, value, input)
    OBVIOUS
  <2>5. /\ q \in Callbacks /\ q.key = key /\ q.value = value /\ q.state = p.state
        /\ q.size = p.size /\ q.key_size = p.key_size /\ q.length = p.length
        /\ q.left = p.left - 1 /\ q.back = p.back /\ q.response = p.response
    BY <2>1, <2>3, <2>4, ShorterIs
  <2>6. q = Shorter(p, IF p.state = 1 THEN Removed(p, p.key) ELSE p.key,
                       IF p.state = 2 THEN Removed(p, p.value) ELSE p.value,
                       IF p.input = <<>> THEN <<>> ELSE Tail(p.input))
    BY <2>2, <2>4, Zenon
  <2>7. PICK a, b, c, d, e :
          /\ a = KeyEnded(q, p.size) /\ b = ValueEnded(q) /\ c = ValueStopped(q)
          /\ d = KeyStopped(q, Taken(p)) /\ e = OneMore(q)
    OBVIOUS
  <2>8. Turn(p) = IF p.state = 1 /\ q.key[p.size] = "=" THEN KeyEnded(q, p.size)
                  ELSE IF p.state = 2 /\ q.value[p.size] = "&" THEN Stored(q, p.size, ValueEnded(q))
                  ELSE IF q.input = <<>> /\ q.left > 0
                  THEN IF p.state = 2 THEN Stored(Noted(q), Taken(p), ValueStopped(q))
                                      ELSE KeyStopped(q, Taken(p))
                  ELSE OneMore(q)
    BY ONLY <1>2, <2>1, <2>6, TurnIs
  <2>9. Taken(p) = p.size + 1 /\ p.size <= KeySize /\ Taken(p) \in Nat /\ Taken(p) <= KeySize
        /\ p.size \in 0 .. KeySize
    BY <2>1 DEF Taken
  <2>10. a \in Callbacks /\ Fits(a, B)
    <3>1. /\ a \in Callbacks /\ a.key_size = p.size /\ a.size = 0 /\ a.state = 2
          /\ a.length = q.length /\ a.left = q.left /\ a.back = q.back /\ a.response = q.response
      <4>1. PICK n : n = p.size
        OBVIOUS
      <4>2. n \in 0 .. KeySize /\ a = KeyEnded(q, n)
        BY <2>7, <2>9, <4>1
      <4>3. /\ a \in Callbacks /\ a.key_size = n /\ a.size = 0 /\ a.state = 2
            /\ a.length = q.length /\ a.left = q.left /\ a.back = q.back /\ a.response = q.response
        BY ONLY <2>5, <4>2, KeyEndedIs, KeySize \in Nat
      <4> QED BY <4>1, <4>3
    <3> QED BY ONLY <2>1, <2>5, <3>1 DEF Fits
  <2>11. d \in Callbacks /\ Fits(d, B)
    <3>1. /\ d \in Callbacks /\ d.key_size = Taken(p) /\ d.state = q.state
          /\ d.length = q.left /\ d.left = q.left /\ d.back /\ d.response = q.response
      <4>1. PICK n : n = Taken(p)
        OBVIOUS
      <4>2. n \in Nat /\ d = KeyStopped(q, n)
        BY <2>7, <2>9, <4>1
      <4>3. /\ d \in Callbacks /\ d.key_size = n /\ d.state = q.state
            /\ d.length = q.left /\ d.left = q.left /\ d.back /\ d.response = q.response
        BY ONLY <2>5, <4>2, KeyStoppedIs
      <4> QED BY <4>1, <4>3
    <3> QED BY ONLY <2>1, <2>5, <2>9, <3>1 DEF Fits
  <2>12. e \in Callbacks /\ Fits(e, B)
    <3>1. /\ e \in Callbacks /\ e.key_size = q.key_size /\ e.size = q.size + 1
          /\ e.state = q.state /\ e.length = q.length /\ e.left = q.left
          /\ e.back = q.back /\ e.response = q.response
      BY <2>5, <2>7, OneMoreIs
    <3> QED BY ONLY <2>1, <2>5, <3>1 DEF Fits
  <2>13. ASSUME NEW o \in Callbacks, o.key_size = q.key_size, o.sets = q.sets,
                NEW n \in Nat, n <= KeySize,
                NEW then \in Callbacks, then.sets = q.sets, Fits(then, B)
         PROVE  Stored(o, n, then) \in Callbacks /\ Fits(Stored(o, n, then), B)
    <3> PICK k : k = Stored(o, n, then)
      OBVIOUS
    <3>1. PICK x : x = Broken(o)
      OBVIOUS
    <3>2. /\ k \in Callbacks
          /\ \/ k = x
             \/ /\ k.state = then.state /\ k.size = then.size /\ k.key_size = then.key_size
                /\ k.length = then.length /\ k.left = then.left /\ k.back = then.back
                /\ k.response = then.response
      BY <2>1, <2>5, <2>13, <3>1, StoredIs
    <3>3. x.key_size = q.key_size /\ x.back /\ x.response = "404"
      BY <2>13, <3>1, BrokenIs
    <3>4. CASE k = x
      BY <2>1, <2>5, <3>2, <3>3, <3>4 DEF Fits
    <3>5. CASE k # x
      BY <2>13, <3>2, <3>5 DEF Fits
    <3> QED BY <3>2, <3>4, <3>5
  <2>14. b \in Callbacks /\ b.sets = q.sets /\ Fits(b, B)
    <3>1. /\ b \in Callbacks /\ b.key_size = 0 /\ b.size = 0 /\ b.state = 1
          /\ b.length = q.length /\ b.left = q.left /\ b.back = q.back /\ b.response = q.response
          /\ b.sets = q.sets
      BY <2>5, <2>7, ValueEndedIs
    <3> QED BY <2>1, <2>5, <3>1 DEF Fits
  <2>15. p.state = 2 => c \in Callbacks /\ c.sets = q.sets /\ Fits(c, B)
    <3>1. /\ c \in Callbacks /\ c.key_size = q.key_size /\ c.size = q.size /\ c.state = q.state
          /\ c.length = q.left /\ c.left = q.left /\ c.back /\ c.response = q.response
          /\ c.sets = q.sets
      BY <2>5, <2>7, ValueStoppedIs
    <3> QED BY <2>1, <2>5, <3>1 DEF Fits
  <2>16. Stored(q, p.size, b) \in Callbacks /\ Fits(Stored(q, p.size, b), B)
    BY <2>1, <2>5, <2>9, <2>13, <2>14
  <2>17. PICK o : o = Noted(q)
    OBVIOUS
  <2>18. p.state = 2 => Stored(o, Taken(p), c) \in Callbacks /\ Fits(Stored(o, Taken(p), c), B)
    BY <2>5, <2>9, <2>13, <2>15, <2>17, NotedIs
  <2>19. PICK b1, c1 : b1 = Stored(q, p.size, b) /\ c1 = Stored(o, Taken(p), c)
    OBVIOUS
  <2> QED BY ONLY <2>7, <2>8, <2>10, <2>11, <2>12, <2>16, <2>17, <2>18, <2>19
<1> QED BY <1>1, <1>2

Threads == [working : {0, 1}, state : {0, 1, 2}, length : 0 .. MaxBody, key : Buffers,
            key_size : Nat]

LEMMA EndFits ==
  ASSUME NEW p \in Callbacks, NEW B \in Nat, B <= KeySize, KeySize \in Nat, MaxBody \in Nat,
         Fits(p, B)
  PROVE  /\ BodyEnd(p) \in Callbacks /\ BodyEnd(p).key_size <= B
         /\ BodyEnd(p).response = "ok" => BodyEnd(p).key_size = 0
         /\ BodyEnd(p).response = "none" => BodyEnd(p).key_size + BodyEnd(p).length <= B
<1>1. CASE p.back \/ p.state # 2
  <2>1. BodyEnd(p) = p
    BY <1>1 DEF BodyEnd
  <2>2. p.state \in {1, 2}
    BY DEF Callbacks
  <2> QED BY <1>1, <2>1, <2>2 DEF Fits
<1>2. CASE ~(p.back \/ p.state # 2)
  <2>1. PICK then : then = [p EXCEPT !.state = 1, !.length = 0, !.key_size = 0, !.response = "ok"]
    OBVIOUS
  <2>2. BodyEnd(p) = Stored(p, p.size, then)
    BY <1>2, <2>1 DEF BodyEnd
  <2>3. /\ then \in Callbacks /\ then.sets = p.sets /\ then.key_size = 0 /\ then.length = 0
        /\ then.response = "ok"
    <3>1. 0 \in 0 .. MaxBody
      OBVIOUS
    <3> QED BY ONLY <2>1, <3>1, p \in Callbacks DEF Callbacks
  <2>4. p.size \in Nat /\ p.left \in Nat /\ p.key_size \in Nat
    BY DEF Callbacks
  <2>5. p.size <= KeySize + 1 /\ p.key_size <= KeySize + 1 /\ p.key_size <= B
    BY <1>2, <2>4 DEF Fits
  <2>6. PICK k, x : k = Stored(p, p.size, then) /\ x = Broken(p)
    OBVIOUS
  <2>7. /\ k \in Callbacks
        /\ k = x \/ (k.key_size = then.key_size /\ k.response = then.response)
    BY <2>3, <2>4, <2>5, <2>6, StoredIs
  <2>8. x.key_size = p.key_size /\ x.response = "404"
    BY <2>6, BrokenIs
  <2>9. k.key_size <= B /\ k.response # "none" /\ (k.response = "ok" => k.key_size = 0)
    BY <2>3, <2>5, <2>7, <2>8
  <2> QED BY <2>2, <2>6, <2>7, <2>9
<1> QED BY <1>1, <1>2

(* How read_cb begins. *)
Entered(th, input, refused) ==
  [state |-> th.state, key |-> th.key, key_size |-> th.key_size,
   length |-> th.length, left |-> th.length,
   size |-> IF th.state = 1 THEN th.key_size ELSE 0,
   value |-> Cells, input |-> input, sets |-> sets, refused |-> refused,
   back |-> FALSE, response |-> "none"]

LEMMA CalledBy ==
  ASSUME NEW th \in Threads, th.state \in {1, 2}, NEW B \in Nat, B <= KeySize, KeySize \in Nat,
         MaxBody \in Nat, MaxBody <= B, th.key_size + th.length <= B, sets \in Stores,
         NEW input \in Seq(STRING), NEW refused \in Int, NEW k, k = Called(th, input, refused)
  PROVE  \E f \in [0 .. th.length -> {p \in Callbacks : Fits(p, B)}] :
           /\ f[0] = Entered(th, input, refused)
           /\ \A n \in 1 .. th.length : f[n] = Turn(f[n - 1])
           /\ k = BodyEnd(f[th.length])
<1> DEFINE first == Entered(th, input, refused)
           N == th.length
           S == {p \in Callbacks : Fits(p, B)}
           turn == CHOOSE f : f = [i \in 0 .. N |-> IF i = 0 THEN first ELSE Turn(f[i - 1])]
           g == [x \in (1 .. N) \X S |-> Turn(x[2])]
<1>1. N \in Nat
  BY DEF Threads
<1>2. first \in S
  <2>1. Cells \in Buffers
    BY DEF Cells, Buffers, Chars
  <2>2. /\ th.key \in Buffers /\ th.key_size \in Nat /\ th.length \in 0 .. MaxBody
        /\ (IF th.state = 1 THEN th.key_size ELSE 0) \in Nat
    BY DEF Threads
  <2>3. first \in Callbacks
    BY <2>1, <2>2 DEF Callbacks, Entered
  <2>4. Fits(first, B)
    BY <2>2 DEF Fits, Entered
  <2> QED BY <2>3, <2>4
<1>3. \A p \in S : Turn(p) \in S
  BY TurnFits
<1>4. k = BodyEnd(turn[N])
  BY DEF Called, Entered
<1> HIDE DEF S, first
<1>5. g \in [(1 .. N) \X S -> S]
  BY <1>3
<1>6. \A n \in 1 .. N : \A p \in S : g[<<n, p>>] = Turn(p)
  OBVIOUS
<1> HIDE DEF g
<1>7. PICK f \in [0 .. N -> S] :
        f[0] = first /\ \A n \in 1 .. N : f[n] = g[<<n, f[n - 1]>>]
  <2>1. Defines(N, S, first, g)
    BY <1>1, <1>2, <1>5, Recursion
  <2> QED BY <2>1 DEF Defines
<1> DEFINE IsIt(x) == x = [i \in 0 .. N |-> IF i = 0 THEN first ELSE Turn(x[i - 1])]
<1>11. ASSUME NEW n \in 1 .. N PROVE f[n] = Turn(f[n - 1])
  <2>1. n - 1 \in 0 .. N
    BY <1>1
  <2>2. f[n - 1] \in S
    BY <2>1
  <2> QED BY <1>6, <1>7, <2>2
<1>8. IsIt(f)
  <2>2. \A n \in 0 .. N : n = 0 \/ n \in 1 .. N
    BY <1>1
  <2>3. \A n \in 0 .. N : f[n] = IF n = 0 THEN first ELSE Turn(f[n - 1])
    BY <1>7, <1>11, <2>2
  <2> QED BY <2>3
<1>9. IsIt(turn)
  <2>1. turn = CHOOSE x : IsIt(x)
    OBVIOUS
  <2> HIDE DEF IsIt
  <2> QED BY <1>8, <2>1
<1> HIDE DEF turn
<1> DEFINE T == {n \in 0 .. N : turn[n] = f[n]}
<1>10. 0 \in T
  BY <1>1, <1>7, <1>9
<1>12. ASSUME NEW n \in 1 .. N, n - 1 \in T PROVE n \in T
  <2>1. n \in 0 .. N /\ n # 0 /\ turn[n - 1] = f[n - 1]
    BY <1>1, <1>12
  <2>2. turn[n] = Turn(turn[n - 1])
    BY <1>9, <2>1
  <2> QED BY <1>11, <2>1, <2>2
<1> HIDE DEF T
<1>13. turn[N] = f[N]
  <2>1. \A n \in 0 .. N : n \in T
    BY <1>1, <1>10, <1>12, UpToN
  <2> QED BY <1>1, <2>1 DEF T
<1>14. k = BodyEnd(f[N]) /\ f[0] = first /\ \A n \in 1 .. N : f[n] = Turn(f[n - 1])
  BY <1>4, <1>7, <1>11, <1>13
<1> QED BY <1>14 DEF S, first

LEMMA CalledFits ==
  ASSUME NEW th \in Threads, th.state \in {1, 2}, NEW B \in Nat, B <= KeySize, KeySize \in Nat,
         MaxBody \in Nat, MaxBody <= B, th.key_size + th.length <= B, sets \in Stores,
         NEW input \in Seq(STRING), NEW refused \in Int, NEW k, k = Called(th, input, refused)
  PROVE  /\ k \in Callbacks /\ k.key_size <= B
         /\ k.response = "ok" => k.key_size = 0
         /\ k.response = "none" => k.key_size + k.length <= B
<1>1. PICK f \in [0 .. th.length -> {p \in Callbacks : Fits(p, B)}] : k = BodyEnd(f[th.length])
  BY CalledBy
<1>2. th.length \in Nat /\ th.length \in 0 .. th.length
  BY DEF Threads
<1> QED BY <1>1, <1>2, EndFits

LEMMA Room ==
  ASSUME NEW n \in 1 .. MaxRequests
  PROVE  /\ MaxBody \in Nat /\ KeySize \in Nat /\ n * MaxBody \in Nat /\ (n - 1) * MaxBody \in Nat
         /\ (n - 1) * MaxBody + MaxBody = n * MaxBody /\ MaxBody <= n * MaxBody
         /\ n * MaxBody <= KeySize
<1>1. MaxBody \in Nat /\ MaxRequests \in Nat
  BY PostBodyAssumption
<1>2. PICK M, R : M = MaxBody /\ R = MaxRequests
  OBVIOUS
<1>3. ASSUME NEW a \in Nat, NEW b \in Nat PROVE a * b \in Nat
  BY <1>3
<1>4. ASSUME NEW a \in Nat, NEW b \in Nat, NEW c \in Nat, c <= b PROVE c * a <= b * a
  <2>1. PICK d \in Nat : b = c + d
    BY <1>4
  <2>2. b * a = c * a + d * a
    BY <2>1
  <2> QED BY <2>2, <1>3
<1>5. n \in Nat /\ n - 1 \in Nat /\ n <= MaxRequests /\ 1 <= n
  BY <1>1
<1>6. (n - 1) * MaxBody + MaxBody = n * MaxBody
  BY <1>1, <1>5
<1>7. 1 * MaxBody = MaxBody
  BY <1>1
<1>8. n * MaxBody \in Nat /\ (n - 1) * MaxBody \in Nat /\ MaxRequests * MaxBody \in Nat
  BY <1>1, <1>3, <1>5
<1>9. n * MaxBody <= MaxRequests * MaxBody
  BY <1>1, <1>4, <1>5
<1>10. MaxBody <= n * MaxBody
  BY <1>1, <1>6, <1>8
<1> QED BY <1>1, <1>6, <1>8, <1>9, <1>10 DEF KeySize

(* The key that an earlier request has left behind, the one that is read,  *)
(* and what is still to come of the body fit into p_info's buffer.         *)
BodyInv ==
  /\ plan \in Plans /\ request \in 1 .. Len(plan) /\ came \in 0 .. Len(body)
  /\ sets \in Stores /\ thread \in Threads
  /\ response \in {"none", "ok", "404", "get", "crash"}
  /\ thread.working = 0 => thread.key_size <= (request - 1) * MaxBody
  /\ thread.working = 1 => thread.state \in {1, 2} /\ thread.key_size <= request * MaxBody
  /\ thread.working = 1 /\ response = "none" =>
       thread.key_size + thread.length <= request * MaxBody
  /\ response = "ok" => thread.key_size = 0

LEMMA PlanIs ==
  ASSUME NEW p \in Plans, NEW n \in 1 .. Len(p)
  PROVE  /\ n \in 1 .. MaxRequests /\ p[n].body \in Seq(STRING) /\ Len(p) \in Nat
         /\ Len(p[n].body) \in Nat /\ Len(p[n].body) <= MaxBody
         /\ p[n].head \in Seq(ToSet(p[n].head)) /\ LengthsIn(p[n].head, 0 .. MaxBody)
<1>1. /\ Len(p) \in 1 .. MaxRequests /\ MaxRequests \in Nat
      /\ HeadWithin(p[n].head) /\ BodyWithin(p[n].body)
  BY PostBodyAssumption
<1>2. n \in 1 .. MaxRequests /\ Len(p) \in Nat
  BY <1>1
<1>3. p[n].body \in Seq(STRING) /\ Len(p[n].body) <= MaxBody
  BY <1>1 DEF BodyWithin
<1>4. p[n].head \in Seq(ToSet(p[n].head))
  BY <1>1 DEF HeadWithin
<1>5. LengthsIn(p[n].head, 0 .. MaxBody)
  BY <1>1 DEF HeadWithin, LengthsIn, Places
<1>6. Len(p[n].body) \in Nat
  BY <1>3
<1> QED BY <1>2, <1>3, <1>4, <1>5, <1>6

LEMMA BodyIsRead ==
  ASSUME BodyInv, NEW o \in Threads, o.state \in {1, 2},
         o.key_size + o.length <= request * MaxBody, NEW n \in Nat, came + n <= Len(body),
         ReadBody(o, n)
  PROVE  BodyInv'
<1>1. /\ request \in 1 .. MaxRequests /\ body \in Seq(STRING) /\ Len(body) \in Nat
      /\ came \in 0 .. Len(body) /\ sets \in Stores
  BY PlanIs DEF BodyInv, body
<1>2. PICK B : B = request * MaxBody
  OBVIOUS
<1>3. /\ B \in Nat /\ B <= KeySize /\ KeySize \in Nat /\ MaxBody \in Nat /\ MaxBody <= B
  BY <1>1, <1>2, Room
<1>4. PICK input : input = SubSeq(body, came + 1, came + n)
  OBVIOUS
<1>5. input \in Seq(STRING)
  <2>1. \A i \in came + 1 .. came + n : i \in 1 .. Len(body)
    BY <1>1
  <2>2. came + 1 \in Int /\ came + n \in Int
    BY <1>1
  <2> QED BY <1>1, <1>4, <2>1, <2>2, SubSeqProperties
<1>6. PICK refused \in {-1} \cup (Len(sets) .. Len(sets) + 1) :
        LET p == Called(o, input, refused)
        IN  /\ sets' = p.sets /\ response' = p.response
            /\ thread' = [working |-> 1, state |-> p.state, length |-> p.length,
                          key |-> p.key, key_size |-> p.key_size]
  BY <1>4 DEF ReadBody
<1>7. refused \in Int
  <2>1. Len(sets) \in Nat
    BY <1>1 DEF Stores
  <2> QED BY <2>1
<1>8. PICK k : k = Called(o, input, refused)
  OBVIOUS
<1>9. /\ k \in Callbacks /\ k.key_size <= B
      /\ k.response = "ok" => k.key_size = 0
      /\ k.response = "none" => k.key_size + k.length <= B
  BY <1>1, <1>2, <1>3, <1>5, <1>7, <1>8, CalledFits
<1>10. /\ sets' = k.sets /\ response' = k.response
       /\ thread' = [working |-> 1, state |-> k.state, length |-> k.length,
                     key |-> k.key, key_size |-> k.key_size]
  BY <1>6, <1>8
<1>11. /\ thread' \in Threads /\ thread'.working = 1 /\ thread'.state \in {1, 2}
       /\ thread'.length = k.length /\ thread'.key_size = k.key_size
       /\ sets' \in Stores /\ response' \in {"none", "ok", "404"}
  BY <1>9, <1>10 DEF Callbacks, Threads
<1>12. plan' = plan /\ request' = request /\ came' = came + n
  BY DEF ReadBody
<1>13. came' \in 0 .. Len(body)'
  BY <1>1, <1>12 DEF body
<1> QED BY <1>2, <1>9, <1>10, <1>11, <1>12, <1>13 DEF BodyInv

LEMMA VerdictDoes ==
  ASSUME NEW L, NEW lines \in Seq(L), NEW V, 0 \in V, NEW length \in V, LengthsIn(lines, V)
  PROVE  EventHead(lines, length).verdict.does \in {"404", "crash", "get", "post"}
<1>1. PICK v, m : v = EventHead(lines, length).verdict /\ m = Meant(lines)
  OBVIOUS
<1>2. v = [m EXCEPT !.encode = FALSE]
  BY <1>1, HeadRight, Zenon
<1>3. m = Refused \/ m = Crashed \/ (\E t : m = Gets(t)) \/ (\E n, e : m = Posts(n, e))
  BY <1>1 DEF Meant
<1>4. v = Refused \/ v = Crashed \/ (\E t : v = Gets(t)) \/ (\E n : v = Posts(n, FALSE))
  <2>1. CASE m = Refused
    BY <1>2, <2>1, EncodeCleared, Zenon
  <2>2. CASE m = Crashed
    BY <1>2, <2>2, EncodeCleared, Zenon
  <2>3. CASE \E t : m = Gets(t)
    <3>1. PICK t : m = Gets(t)
      BY <2>3
    <3>2. [Gets(t) EXCEPT !.encode = FALSE] = Gets(t)
      BY EncodeCleared
    <3>3. v = Gets(t)
      BY <1>2, <3>1, <3>2, Zenon
    <3> QED BY <3>3
  <2>4. CASE \E n, e : m = Posts(n, e)
    <3>1. PICK n, e : m = Posts(n, e)
      BY <2>4
    <3>2. [Posts(n, e) EXCEPT !.encode = FALSE] = Posts(n, FALSE)
      BY EncodeCleared
    <3>3. v = Posts(n, FALSE)
      BY <1>2, <3>1, <3>2, Zenon
    <3> QED BY <3>3
  <2> QED BY <1>3, <2>1, <2>2, <2>3, <2>4
<1>5. /\ Refused.does = "404" /\ Crashed.does = "crash" /\ \A t : Gets(t).does = "get"
      /\ \A n : Posts(n, FALSE).does = "post"
  BY DEF Refused, Crashed, Gets, Posts
<1>6. v.does \in {"404", "crash", "get", "post"}
  BY <1>4, <1>5
<1> QED BY <1>1, <1>6

LEMMA BodyInvHolds == BodySpec => []BodyInv
<1>1. BodyInit => BodyInv
  <2> SUFFICES ASSUME BodyInit PROVE BodyInv
    OBVIOUS
  <2>1. plan \in Plans /\ request = 1 /\ came = 0 /\ sets = <<>> /\ response = "none"
    BY DEF BodyInit
  <2>2. Len(plan) \in 1 .. MaxRequests /\ MaxRequests \in Nat
    BY <2>1, PostBodyAssumption
  <2>3. 1 \in 1 .. Len(plan)
    BY <2>2
  <2>4. Len(body) \in Nat /\ 1 \in 1 .. MaxRequests
    BY <2>1, <2>3, PlanIs DEF body
  <2>5. (request - 1) * MaxBody \in Nat /\ MaxBody \in Nat
    BY <2>1, <2>4, Room
  <2>6. Cells \in Buffers
    BY DEF Cells, Buffers, Chars
  <2>7. thread \in Threads /\ thread.working = 0 /\ thread.key_size = 0
    <3>1. 0 \in 0 .. MaxBody
      BY <2>5
    <3> QED BY <2>6, <3>1 DEF BodyInit, Threads
  <2>8. sets \in Stores
    BY <2>1 DEF Stores
  <2>9. came \in 0 .. Len(body)
    BY <2>1, <2>4
  <2> QED BY <2>1, <2>3, <2>5, <2>7, <2>8, <2>9 DEF BodyInv
<1>2. BodyInv /\ [BodyNext]_bodyVars => BodyInv'
  <2> SUFFICES ASSUME BodyInv, [BodyNext]_bodyVars PROVE BodyInv'
    OBVIOUS
  <2>1. /\ plan \in Plans /\ request \in 1 .. Len(plan) /\ came \in 0 .. Len(body)
        /\ sets \in Stores /\ thread \in Threads /\ request \in 1 .. MaxRequests
        /\ Len(body) \in Nat /\ Len(plan) \in Nat
    BY PlanIs DEF BodyInv, body
  <2>2. /\ MaxBody \in Nat /\ KeySize \in Nat /\ request * MaxBody \in Nat
        /\ (request - 1) * MaxBody \in Nat
        /\ (request - 1) * MaxBody + MaxBody = request * MaxBody
    BY <2>1, Room
  <2>3. CASE NextRequest
    <3>1. /\ request' = request + 1 /\ came' = 0 /\ sets' = <<>> /\ response' = "none"
          /\ plan' = plan /\ thread' = [thread EXCEPT !.working = 0]
      BY <2>3 DEF NextRequest
    <3>2. request' \in 1 .. Len(plan)' /\ plan' \in Plans
      BY <2>1, <2>3, <3>1 DEF NextRequest
    <3>3. came' \in 0 .. Len(body)'
      <4>1. Len(plan'[request'].body) \in Nat
        BY <3>2, PlanIs
      <4> QED BY <3>1, <4>1 DEF body
    <3>4. thread' \in Threads /\ thread'.working = 0 /\ thread'.key_size = thread.key_size
      BY <2>1, <3>1 DEF Threads
    <3>5. thread.key_size \in Nat /\ thread.working \in {0, 1}
      BY <2>1 DEF Threads
    <3>6. thread.key_size <= request * MaxBody
      BY <2>2, <3>5 DEF BodyInv
    <3>7. request' - 1 = request
      BY <2>1, <3>1
    <3>8. sets' \in Stores
      BY <3>1 DEF Stores
    <3> QED BY <3>1, <3>2, <3>3, <3>4, <3>6, <3>7, <3>8 DEF BodyInv
  <2>4. ASSUME NEW n \in 0 .. MaxBody, ReadHead(n) PROVE BodyInv'
    <3>1. PICK read, th : /\ read = EventHead(head, thread.length)
                          /\ th = [thread EXCEPT !.length = read.length]
      OBVIOUS
    <3>2. read.length \in 0 .. MaxBody
      <4>1. head \in Seq(ToSet(head)) /\ LengthsIn(head, 0 .. MaxBody)
        BY <2>1, PlanIs DEF head
      <4>2. thread.length \in 0 .. MaxBody /\ 0 \in 0 .. MaxBody
        BY <2>1, <2>2 DEF Threads
      <4> QED BY <3>1, <4>1, <4>2, HeadRight
    <3>3. /\ th \in Threads /\ th.working = thread.working /\ th.length = read.length
          /\ th.key_size = thread.key_size /\ th.state = thread.state
      BY <2>1, <3>1, <3>2 DEF Threads
    <3>4. /\ response = "none" /\ thread.working = 0 /\ came + n <= Len(body)
          /\ IF read.verdict.does = "post" THEN ReadBody(Opened(th), n)
             ELSE /\ response' = read.verdict.does /\ thread' = th
                  /\ UNCHANGED <<plan, request, came, sets, cutInside, clean>>
      BY <2>4, <3>1 DEF ReadHead
    <3>5. CASE read.verdict.does = "post"
      <4>1. PICK o : o = Opened(th)
        OBVIOUS
      <4>2. o \in Threads /\ o.state = 1 /\ o.key_size = thread.key_size /\ o.length = read.length
        BY <3>3, <4>1 DEF Opened, Threads
      <4>3. o.key_size + o.length <= request * MaxBody
        <5>1. thread.key_size \in Nat /\ thread.key_size <= (request - 1) * MaxBody
          BY <2>1, <3>4 DEF BodyInv, Threads
        <5> QED BY <2>2, <3>2, <4>2, <5>1
      <4>4. n \in Nat
        BY <2>2
      <4> QED BY <3>4, <3>5, <4>1, <4>2, <4>3, <4>4, BodyIsRead
    <3>6. CASE read.verdict.does # "post"
      <4>1. /\ response' = read.verdict.does /\ thread' = th
            /\ UNCHANGED <<plan, request, came, sets>>
        BY <3>4, <3>6
      <4>2. read.verdict.does \in {"404", "crash", "get"}
        <5>1. head \in Seq(ToSet(head)) /\ LengthsIn(head, 0 .. MaxBody)
          BY <2>1, PlanIs DEF head
        <5>2. thread.length \in 0 .. MaxBody /\ 0 \in 0 .. MaxBody
          BY <2>1, <2>2 DEF Threads
        <5>3. read.verdict.does \in {"404", "crash", "get", "post"}
          BY <3>1, <5>1, <5>2, VerdictDoes
        <5> QED BY <3>6, <5>3
      <4>3. body' = body
        BY <4>1 DEF body
      <4> QED BY <2>1, <3>3, <3>4, <4>1, <4>2, <4>3 DEF BodyInv
    <3> QED BY <3>5, <3>6
  <2>5. ASSUME NEW n \in 0 .. MaxBody, ReadOn(n) PROVE BodyInv'
    <3>1. /\ response = "none" /\ thread.working = 1 /\ came + n <= Len(body) /\ ReadBody(thread, n)
      BY <2>5 DEF ReadOn
    <3>2. n \in Nat
      BY <2>2
    <3>3. thread.state \in {1, 2} /\ thread.key_size + thread.length <= request * MaxBody
      BY <3>1 DEF BodyInv
    <3> QED BY <2>1, <3>1, <3>2, <3>3, BodyIsRead
  <2>6. CASE UNCHANGED bodyVars
    BY <2>6 DEF BodyInv, bodyVars, body
  <2> QED BY <2>3, <2>4, <2>5, <2>6 DEF BodyNext
<1> QED BY <1>1, <1>2, PTL DEF BodySpec

(* The variables stay within their types: however a body is cut into parts *)
(* and wherever a request is broken off, the key that p_info keeps is no   *)
(* longer than the bodies that this thread was sent (webserver1.c:278-535).*)
THEOREM BodyTypes == BodySpec => []BodyTypeOK
<1>1. BodyInv => BodyTypeOK
  <2> SUFFICES ASSUME BodyInv PROVE BodyTypeOK
    OBVIOUS
  <2>1. /\ request \in 1 .. Len(plan) /\ came \in 0 .. Len(body) /\ request \in 1 .. MaxRequests
        /\ response \in {"none", "ok", "404", "get", "crash"} /\ thread \in Threads
    BY PlanIs DEF BodyInv
  <2>2. /\ thread.working \in {0, 1} /\ thread.state \in {0, 1, 2} /\ thread.key \in Buffers
        /\ thread.length \in 0 .. MaxBody /\ thread.key_size \in Nat
    BY <2>1 DEF Threads
  <2>3. thread.key_size <= KeySize
    <3>1. /\ (request - 1) * MaxBody + MaxBody = request * MaxBody /\ request * MaxBody <= KeySize
          /\ MaxBody \in Nat /\ KeySize \in Nat /\ request * MaxBody \in Nat
          /\ (request - 1) * MaxBody \in Nat
      BY <2>1, Room
    <3>2. thread.key_size <= request * MaxBody
      BY <2>2, <3>1 DEF BodyInv
    <3> QED BY <2>2, <3>1, <3>2
  <2>4. KeySize \in Nat
    BY <2>1, Room
  <2>5. thread.key_size \in 0 .. KeySize
    BY <2>2, <2>3, <2>4
  <2>6. DOMAIN thread.key = 0 .. KeySize
    BY <2>2 DEF Buffers
  <2> QED BY <2>1, <2>2, <2>5, <2>6 DEF BodyTypeOK
<1> QED BY <1>1, BodyInvHolds, PTL

(* Both readers take every head for what it means, whatever length the     *)
(* thread's last request has left in p_info (http_parse.c, read_cb).       *)
THEOREM HeadsTaken == BodySpec => []HeadsRead
<1>1. BodyInv => HeadsRead
  <2> SUFFICES ASSUME BodyInv PROVE HeadsRead
    OBVIOUS
  <2>1. head \in Seq(ToSet(head)) /\ LengthsIn(head, 0 .. MaxBody)
    BY PlanIs DEF BodyInv, head
  <2>2. thread.length \in 0 .. MaxBody /\ 0 \in 0 .. MaxBody
    BY PostBodyAssumption DEF BodyInv, Threads
  <2> QED BY <2>1, <2>2, HeadRight DEF HeadsRead
<1> QED BY <1>1, BodyInvHolds, PTL

-----------------------------------------------------------------------------
(* The pairs of a body.                                                    *)

LEMMA FoundAt ==
  ASSUME NEW s, Len(s) \in Nat, NEW ch, NEW i \in Nat, NEW j \in i .. Len(s), s[j] = ch,
         \A m \in i .. j - 1 : s[m] # ch
  PROVE  Next1(s, ch, i) = j
<1> DEFINE S == {m \in i .. Len(s) : s[m] = ch} \cup {Len(s) + 1}
           least == CHOOSE x \in S : \A y \in S : x <= y
<1>1. S \subseteq Int /\ j \in S
  OBVIOUS
<1>2. \A y \in S : j <= y
  <2> SUFFICES ASSUME NEW y \in S, ~(j <= y) PROVE FALSE
    OBVIOUS
  <2>1. y \in i .. j - 1 /\ s[y] = ch
    OBVIOUS
  <2> QED BY <2>1
<1>3. Next1(s, ch, i) = least
  BY DEF Next1, Min
<1> HIDE DEF S
<1>4. least \in S /\ \A y \in S : least <= y
  BY <1>1, <1>2
<1>5. least <= j /\ j <= least /\ least \in Int /\ j \in Int
  BY <1>1, <1>2, <1>4
<1> HIDE DEF least
<1> QED BY <1>3, <1>5

LEMMA FoundNowhere ==
  ASSUME NEW s, Len(s) \in Nat, NEW ch, NEW i \in Nat, \A m \in i .. Len(s) : s[m] # ch
  PROVE  Next1(s, ch, i) = Len(s) + 1
<1> DEFINE S == {m \in i .. Len(s) : s[m] = ch} \cup {Len(s) + 1}
           least == CHOOSE x \in S : \A y \in S : x <= y
<1>1. S = {Len(s) + 1}
  OBVIOUS
<1>2. Next1(s, ch, i) = least
  BY DEF Next1, Min
<1> HIDE DEF S
<1>3. least \in S
  BY <1>1
<1> HIDE DEF least
<1> QED BY <1>1, <1>2, <1>3

LEMMA FoundPlace ==
  ASSUME NEW s, Len(s) \in Nat, NEW ch, NEW i \in Nat, i <= Len(s) + 1
  PROVE  /\ Next1(s, ch, i) \in i .. Len(s) + 1
         /\ Next1(s, ch, i) <= Len(s) => s[Next1(s, ch, i)] = ch
         /\ \A m \in i .. Next1(s, ch, i) - 1 : s[m] # ch
<1>1. CASE \A m \in i .. Len(s) : s[m] # ch
  BY <1>1, FoundNowhere
<1>2. CASE \E m \in i .. Len(s) : s[m] = ch
  <2> DEFINE T == {m \in i .. Len(s) : s[m] = ch}
  <2>1. T \in SUBSET Nat /\ T # {}
    BY <1>2
  <2>2. PICK j \in T : \A y \in T : j <= y
    BY <2>1, Smallest
  <2>3. \A m \in i .. j - 1 : s[m] # ch
    BY <2>2
  <2>4. Next1(s, ch, i) = j
    BY <2>2, <2>3, FoundAt
  <2> QED BY <2>2, <2>4
<1> QED BY <1>1, <1>2

Spans == Seq(Nat \X Nat \X Nat)

(* The spans of a body of N characters do not end behind it.               *)
SpansIn(N) == {t \in Spans : Rest(t) \in 1 .. N + 2}

LEMMA AppendIs ==
  ASSUME NEW E, NEW t \in Seq(E), NEW x \in E
  PROVE  /\ Append(t, x) \in Seq(E) /\ Len(Append(t, x)) = Len(t) + 1 /\ Len(t) \in Nat
         /\ Append(t, x)[Len(t) + 1] = x
         /\ \A i \in 1 .. Len(t) : Append(t, x)[i] = t[i]
OBVIOUS

LEMMA OneMoreSpanIs ==
  ASSUME NEW s, Len(s) \in Nat, NEW t \in SpansIn(Len(s))
  PROVE  OneMoreSpan(s, t) \in SpansIn(Len(s))
<1>1. t \in Spans /\ Rest(t) \in 1 .. Len(s) + 2 /\ Rest(t) \in Nat
  BY DEF SpansIn
<1> DEFINE eq == Next1(s, "=", Rest(t))
           amp == Next1(s, "&", eq + 1)
<1>2. CASE eq > Len(s)
  BY <1>1, <1>2 DEF OneMoreSpan, SpansIn
<1>3. CASE ~(eq > Len(s))
  <2>1. eq \in Rest(t) .. Len(s) + 1 \/ eq = Len(s) + 1
    <3>1. CASE Rest(t) <= Len(s) + 1
      BY <1>1, <3>1, FoundPlace
    <3>2. CASE Rest(t) = Len(s) + 2
      <4>1. \A m \in Rest(t) .. Len(s) : s[m] # "="
        BY <3>2
      <4> QED BY <1>1, <4>1, FoundNowhere
    <3> QED BY <1>1, <3>1, <3>2
  <2>2. eq \in Nat /\ eq + 1 \in Nat /\ eq + 1 <= Len(s) + 1
    BY <1>1, <1>3, <2>1
  <2>3. amp \in eq + 1 .. Len(s) + 1
    BY <2>2, FoundPlace
  <2> HIDE DEF eq, amp
  <2>4. PICK x : x = <<Rest(t), eq, amp>>
    OBVIOUS
  <2>5. x \in Nat \X Nat \X Nat /\ x[3] = amp
    BY <1>1, <2>2, <2>3, <2>4
  <2>6. OneMoreSpan(s, t) = Append(t, x)
    BY <1>3, <2>4 DEF OneMoreSpan, eq, amp
  <2>7. /\ Append(t, x) \in Spans /\ Append(t, x) # <<>>
        /\ Append(t, x)[Len(Append(t, x))] = x
    <3>1. t \in Seq(Nat \X Nat \X Nat)
      BY <1>1 DEF Spans
    <3>2. /\ Append(t, x) \in Seq(Nat \X Nat \X Nat) /\ Len(Append(t, x)) = Len(t) + 1
          /\ Append(t, x)[Len(t) + 1] = x /\ Len(t) \in Nat
      BY <2>5, <3>1, AppendIs
    <3>3. Len(<<>>) = 0
      OBVIOUS
    <3>4. PICK u : u = Append(t, x)
      OBVIOUS
    <3>5. u \in Seq(Nat \X Nat \X Nat) /\ Len(u) = Len(t) + 1 /\ u[Len(t) + 1] = x
      BY ONLY <3>2, <3>4, Zenon
    <3>6. u[Len(u)] = x /\ u # <<>>
      BY <3>2, <3>3, <3>5
    <3>7. u \in Spans
      BY <3>5 DEF Spans
    <3> QED BY <3>4, <3>5, <3>6, <3>7
  <2>8. Rest(Append(t, x)) = amp + 1
    BY <2>5, <2>7 DEF Rest
  <2> QED BY <2>2, <2>3, <2>6, <2>7, <2>8 DEF SpansIn
<1> QED BY <1>2, <1>3

LEMMA SpansBy ==
  ASSUME NEW s, Len(s) \in Nat
  PROVE  \E f \in [0 .. Len(s) -> SpansIn(Len(s))] :
           /\ f[0] = <<>>
           /\ \A n \in 1 .. Len(s) : f[n] = OneMoreSpan(s, f[n - 1])
           /\ SpansOf(s) = f[Len(s)]
<1> DEFINE N == Len(s)
           S == SpansIn(N)
           upTo == CHOOSE f : f = [n \in 0 .. N |-> IF n = 0 THEN <<>>
                                                    ELSE OneMoreSpan(s, f[n - 1])]
           g == [x \in (1 .. N) \X S |-> OneMoreSpan(s, x[2])]
<1>1. N \in Nat /\ <<>> \in S
  <2>1. <<>> \in Spans /\ Rest(<<>>) = 1
    BY DEF Spans, Rest
  <2> QED BY <2>1 DEF SpansIn
<1>2. SpansOf(s) = upTo[N]
  BY DEF SpansOf
<1>3. \A t \in S : OneMoreSpan(s, t) \in S
  BY OneMoreSpanIs
<1> HIDE DEF S
<1>4. g \in [(1 .. N) \X S -> S]
  BY <1>3
<1>5. \A n \in 1 .. N : \A t \in S : g[<<n, t>>] = OneMoreSpan(s, t)
  OBVIOUS
<1> HIDE DEF g
<1>6. PICK f \in [0 .. N -> S] :
        f[0] = <<>> /\ \A n \in 1 .. N : f[n] = g[<<n, f[n - 1]>>]
  <2>1. Defines(N, S, <<>>, g)
    BY <1>1, <1>4, Recursion
  <2> QED BY <2>1 DEF Defines
<1> DEFINE IsIt(x) == x = [n \in 0 .. N |-> IF n = 0 THEN <<>> ELSE OneMoreSpan(s, x[n - 1])]
<1>7. ASSUME NEW n \in 1 .. N PROVE f[n] = OneMoreSpan(s, f[n - 1])
  <2>1. n - 1 \in 0 .. N
    BY <1>1
  <2>2. f[n - 1] \in S
    BY <2>1
  <2> QED BY <1>5, <1>6, <2>2
<1>8. IsIt(f)
  <2>1. \A n \in 0 .. N : n = 0 \/ n \in 1 .. N
    BY <1>1
  <2>2. \A n \in 0 .. N : f[n] = IF n = 0 THEN <<>> ELSE OneMoreSpan(s, f[n - 1])
    BY <1>6, <1>7, <2>1
  <2> QED BY <2>2
<1>9. IsIt(upTo)
  <2>1. upTo = CHOOSE x : IsIt(x)
    OBVIOUS
  <2> HIDE DEF IsIt
  <2> QED BY <1>8, <2>1
<1> HIDE DEF upTo
<1> DEFINE T == {n \in 0 .. N : upTo[n] = f[n]}
<1>10. 0 \in T
  BY <1>1, <1>6, <1>9
<1>11. ASSUME NEW n \in 1 .. N, n - 1 \in T PROVE n \in T
  <2>1. n \in 0 .. N /\ n # 0 /\ upTo[n - 1] = f[n - 1]
    BY <1>1, <1>11
  <2>2. upTo[n] = OneMoreSpan(s, upTo[n - 1])
    BY <1>9, <2>1
  <2> QED BY <1>7, <2>1, <2>2
<1> HIDE DEF T
<1>12. upTo[N] = f[N]
  <2>1. \A n \in 0 .. N : n \in T
    BY <1>1, <1>10, <1>11, UpToN
  <2> QED BY <1>1, <2>1 DEF T
<1> QED BY <1>2, <1>6, <1>7, <1>12 DEF S

(* When there is no further pair, the pairs stay what they are.            *)
LEMMA SpansStay ==
  ASSUME NEW s, Len(s) \in Nat, NEW S, NEW f \in [0 .. Len(s) -> S],
         \A n \in 1 .. Len(s) : f[n] = OneMoreSpan(s, f[n - 1]),
         NEW k \in 0 .. Len(s), OneMoreSpan(s, f[k]) = f[k]
  PROVE  f[Len(s)] = f[k]
<1> DEFINE N == Len(s)
           T == {n \in 0 .. N : n >= k => f[n] = f[k]}
<1>1. 0 \in T
  OBVIOUS
<1>2. ASSUME NEW n \in 1 .. N, n - 1 \in T PROVE n \in T
  <2>1. n \in 0 .. N /\ n - 1 \in 0 .. N /\ k \in Nat
    OBVIOUS
  <2>2. CASE n <= k
    BY <2>1, <2>2
  <2>3. CASE n > k
    <3>1. f[n - 1] = f[k]
      BY <1>2, <2>1, <2>3
    <3>2. f[n] = f[k]
      BY <3>1
    <3> QED BY <2>1, <3>2
  <2> QED BY <2>1, <2>2, <2>3
<1> HIDE DEF T
<1>3. N \in T
  <2>1. \A n \in 0 .. N : n \in T
    BY <1>1, <1>2, UpToN
  <2> QED BY <2>1
<1> QED BY <1>3 DEF T

-----------------------------------------------------------------------------
(* Escapes.                                                                *)

Symbols == STRING \cup {"=", "&", "%"}

(* What stands for the character at i. *)
Begins(s, i) == i > 0 /\ s[i] = "%"
UnAt(s, i) ==
  IF Begins(s, i - 2) THEN <<Decoded(SubSeq(s, i - 2, i))>>
  ELSE IF Begins(s, i - 1) \/ Begins(s, i) THEN <<>>
  ELSE <<s[i]>>

UnAts(s) == [i \in 1 .. Len(s) |-> UnAt(s, i)]

LEMMA UnescapedIs == \A s : Unescaped(s) = Joined(UnAts(s))
BY Zenon DEF Unescaped, UnAts, UnAt, Begins

LEMMA DecodedIs == \A e : Decoded(e) \in Symbols
BY DEF Decoded, Symbols

LEMMA UnAtType ==
  ASSUME NEW s \in Seq(STRING), NEW i \in 1 .. Len(s)
  PROVE  UnAt(s, i) \in Seq(Symbols)
<1>1. s[i] \in Symbols
  BY DEF Symbols
<1>2. PICK d : d = Decoded(SubSeq(s, i - 2, i))
  OBVIOUS
<1>3. d \in Symbols
  BY <1>2, DecodedIs
<1>4. <<d>> \in Seq(Symbols) /\ <<s[i]>> \in Seq(Symbols) /\ <<>> \in Seq(Symbols)
  BY <1>1, <1>3
<1> QED BY <1>2, <1>4 DEF UnAt

LEMMA UnAtsAre ==
  ASSUME NEW s \in Seq(STRING)
  PROVE  /\ UnAts(s) \in Seq(Seq(Symbols)) /\ Len(UnAts(s)) = Len(s)
         /\ \A i \in 1 .. Len(s) : UnAts(s)[i] = UnAt(s, i)
<1>1. \A i \in 1 .. Len(s) : UnAt(s, i) \in Seq(Symbols)
  BY UnAtType
<1>2. UnAts(s) \in [1 .. Len(s) -> Seq(Symbols)]
  BY <1>1 DEF UnAts
<1>3. Len(s) \in Nat
  OBVIOUS
<1> QED BY <1>2, <1>3 DEF UnAts

LEMMA ThreeOf ==
  ASSUME NEW S, NEW q \in Seq(S), NEW i \in 3 .. Len(q)
  PROVE  SubSeq(q, i - 2, i) = <<q[i - 2], q[i - 1], q[i]>>
<1>1. i \in Nat /\ i - 2 \in 1 .. Len(q) /\ i - 1 \in 1 .. Len(q) /\ i \in 1 .. Len(q)
  OBVIOUS
<1>2. SubSeq(q, i - 2, i) = [n \in 1 .. 3 |-> q[(i - 2) + n - 1]]
  BY <1>1
<1> DEFINE r == SubSeq(q, i - 2, i)
<1>3. /\ r \in Seq(S) /\ Len(r) = 3 /\ r[1] = q[(i - 2) + 1 - 1]
      /\ r[2] = q[(i - 2) + 2 - 1] /\ r[3] = q[(i - 2) + 3 - 1]
  <2>1. \A n \in 1 .. 3 : (i - 2) + n - 1 \in 1 .. Len(q)
    BY <1>1
  <2>2. \A n \in 1 .. 3 : q[(i - 2) + n - 1] \in S
    BY <2>1
  <2>3. r \in [1 .. 3 -> S]
    BY <1>2, <2>2
  <2> QED BY <1>2, <2>3
<1>4. (i - 2) + 1 - 1 = i - 2 /\ (i - 2) + 2 - 1 = i - 1 /\ (i - 2) + 3 - 1 = i
  BY <1>1
<1> HIDE DEF r
<1>5. r[1] = q[i - 2] /\ r[2] = q[i - 1] /\ r[3] = q[i]
  BY <1>3, <1>4
<1>6. PICK u : u = <<q[i - 2], q[i - 1], q[i]>>
  OBVIOUS
<1>7. /\ u \in Seq(S) /\ Len(u) = 3
      /\ u[1] = q[i - 2] /\ u[2] = q[i - 1] /\ u[3] = q[i]
  BY <1>1, <1>6
<1>8. \A n \in 1 .. 3 : n = 1 \/ n = 2 \/ n = 3
  OBVIOUS
<1>9. r = u
  BY <1>3, <1>5, <1>7, <1>8, SeqEqual
<1> QED BY <1>6, <1>9 DEF r

(* q is p and one more character. *)
Grown(p, ch, q) ==
  /\ q \in Seq(STRING) /\ Len(q) = Len(p) + 1 /\ q[Len(p) + 1] = ch
  /\ \A i \in 1 .. Len(p) : q[i] = p[i]

LEMMA GrownIs ==
  ASSUME NEW p \in Seq(STRING), NEW ch \in STRING, NEW q, Grown(p, ch, q)
  PROVE  q = Append(p, ch)
<1>1. PICK r : r = Append(p, ch)
  OBVIOUS
<1>2. /\ r \in Seq(STRING) /\ Len(r) = Len(p) + 1 /\ r[Len(p) + 1] = ch /\ Len(p) \in Nat
      /\ \A i \in 1 .. Len(p) : r[i] = p[i]
  <2>1. /\ Append(p, ch) \in Seq(STRING) /\ Len(Append(p, ch)) = Len(p) + 1
        /\ Append(p, ch)[Len(p) + 1] = ch /\ \A i \in 1 .. Len(p) : Append(p, ch)[i] = p[i]
    <3>1. PICK E, t, x : E = STRING /\ t = p /\ x = ch
      OBVIOUS
    <3>2. t \in Seq(E) /\ x \in E
      BY <3>1
    <3>3. /\ Append(t, x) \in Seq(E) /\ Len(Append(t, x)) = Len(t) + 1
          /\ Append(t, x)[Len(t) + 1] = x /\ \A i \in 1 .. Len(t) : Append(t, x)[i] = t[i]
      BY ONLY <3>2, AppendIs
    <3> QED BY ONLY <3>1, <3>3, Zenon
  <2>2. Len(p) \in Nat
    OBVIOUS
  <2> QED BY ONLY <1>1, <2>1, <2>2, Zenon
<1>3. \A i \in 1 .. Len(p) + 1 : i \in 1 .. Len(p) \/ i = Len(p) + 1
  BY <1>2
<1>4. \A i \in 1 .. Len(p) + 1 : q[i] = r[i]
  BY <1>2, <1>3 DEF Grown
<1>5. q = r
  BY <1>2, <1>4, SeqEqual DEF Grown
<1> QED BY <1>1, <1>5

LEMMA OneMoreChar ==
  ASSUME NEW p \in Seq(STRING), NEW ch \in STRING, NEW q, Grown(p, ch, q)
  PROVE  /\ Unescaped(p) \in Seq(Symbols)
         /\ Unescaped(q) = Unescaped(p) \o UnAt(q, Len(p) + 1)
<1>1. PICK L : L = Len(p)
  OBVIOUS
<1>2. /\ q \in Seq(STRING) /\ Len(q) = L + 1 /\ L \in Nat /\ q[L + 1] = ch
      /\ \A i \in 1 .. L : q[i] = p[i]
  <2>1. L \in Nat
    BY <1>1
  <2> QED BY <1>1, <2>1, Zenon DEF Grown
<1>3. ASSUME NEW i \in 1 .. L PROVE UnAt(q, i) = UnAt(p, i)
  <2>1. i \in 1 .. Len(q) /\ i \in Nat /\ q[i] = p[i]
    BY <1>2
  <2>2. Begins(q, i) <=> Begins(p, i)
    BY <2>1 DEF Begins
  <2>3. Begins(q, i - 1) <=> Begins(p, i - 1)
    <3>1. CASE i - 1 > 0
      <4>1. i - 1 \in 1 .. L
        BY <1>2, <2>1, <3>1
      <4>2. q[i - 1] = p[i - 1]
        BY <1>2, <4>1
      <4> QED BY <4>2 DEF Begins
    <3>2. CASE ~(i - 1 > 0)
      BY <3>2 DEF Begins
    <3> QED BY <3>1, <3>2
  <2>4. CASE i - 2 > 0
    <3>1. i \in 3 .. Len(p) /\ i \in 3 .. Len(q) /\ i - 2 \in 1 .. L /\ i - 1 \in 1 .. L
      BY <1>1, <1>2, <2>1, <2>4
    <3>2. q[i - 2] = p[i - 2] /\ q[i - 1] = p[i - 1]
      BY <1>2, <3>1
    <3>3. SubSeq(p, i - 2, i) = <<p[i - 2], p[i - 1], p[i]>>
      BY <3>1, ThreeOf
    <3>4. SubSeq(q, i - 2, i) = <<q[i - 2], q[i - 1], q[i]>>
      BY <1>2, <3>1, ThreeOf
    <3>5. SubSeq(p, i - 2, i) = SubSeq(q, i - 2, i)
      BY <2>1, <3>2, <3>3, <3>4
    <3>6. Begins(q, i - 2) <=> Begins(p, i - 2)
      BY <3>2 DEF Begins
    <3> QED BY <2>1, <2>2, <2>3, <3>5, <3>6 DEF UnAt
  <2>5. CASE ~(i - 2 > 0)
    <3>1. ~Begins(q, i - 2) /\ ~Begins(p, i - 2)
      BY <2>5 DEF Begins
    <3> QED BY <2>1, <2>2, <2>3, <3>1 DEF UnAt
  <2> QED BY <2>4, <2>5
<1>4. PICK ps, qs : ps = UnAts(p) /\ qs = UnAts(q)
  OBVIOUS
<1>5. ps \in Seq(Seq(Symbols)) /\ Len(ps) = L /\ \A i \in 1 .. L : ps[i] = UnAt(p, i)
  BY <1>1, <1>4, UnAtsAre
<1>6. qs \in Seq(Seq(Symbols)) /\ Len(qs) = L + 1 /\ \A i \in 1 .. L + 1 : qs[i] = UnAt(q, i)
  <2>1. /\ UnAts(q) \in Seq(Seq(Symbols)) /\ Len(UnAts(q)) = Len(q)
        /\ \A i \in 1 .. Len(q) : UnAts(q)[i] = UnAt(q, i)
    BY <1>2, UnAtsAre
  <2> QED BY <1>2, <1>4, <2>1
<1>7. PICK x : x = UnAt(q, L + 1)
  OBVIOUS
<1>8. L + 1 \in 1 .. Len(q) /\ L + 1 \in 1 .. L + 1
  BY <1>2
<1>9. x \in Seq(Symbols)
  BY <1>2, <1>7, <1>8, UnAtType
<1>10. /\ Append(ps, x) \in Seq(Seq(Symbols)) /\ Len(Append(ps, x)) = L + 1
       /\ Append(ps, x)[L + 1] = x /\ \A i \in 1 .. L : Append(ps, x)[i] = ps[i]
  BY <1>5, <1>9, AppendIs
<1>11. \A i \in 1 .. L + 1 : qs[i] = Append(ps, x)[i]
  <2>1. \A i \in 1 .. L + 1 : i \in 1 .. L \/ i = L + 1
    BY <1>2
  <2>2. ASSUME NEW i \in 1 .. L PROVE qs[i] = ps[i]
    <3>1. i \in 1 .. L + 1
      BY <1>2
    <3> QED BY <1>3, <1>5, <1>6, <3>1
  <2>3. qs[L + 1] = x
    BY <1>6, <1>7, <1>8
  <2> QED BY <1>10, <2>1, <2>2, <2>3
<1>12. qs = Append(ps, x)
  BY <1>6, <1>10, <1>11, SeqEqual
<1>13. Unescaped(p) = Joined(ps) /\ Unescaped(q) = Joined(qs)
  BY <1>4, UnescapedIs
<1>14. Joined(ps) \in Seq(Symbols) /\ Joined(qs) = Joined(ps) \o x
  BY <1>5, <1>9, <1>12, JoinedType, JoinedAppend
<1> QED BY <1>1, <1>7, <1>13, <1>14

LEMMA UnescapedEmpty == Unescaped(<<>>) = <<>>
<1>1. Unescaped(<<>>) = Joined(UnAts(<<>>))
  BY UnescapedIs
<1>2. UnAts(<<>>) = <<>>
  BY DEF UnAts
<1> QED BY <1>1, <1>2, JoinedEmpty

(* What a part of a body means, and how much of an escape it ends in.      *)
MeaningOf(part, encode) == IF encode THEN Unescaped(part) ELSE part
EscapeOf(p, encode) ==
  IF encode /\ Len(p) >= 1 /\ p[Len(p)] = "%" THEN <<"%">>
  ELSE IF encode /\ Len(p) >= 2 /\ p[Len(p) - 1] = "%" THEN <<"%", p[Len(p)]>>
  ELSE <<>>

(* No escape is broken off by a separator or another escape. *)
Whole(p) ==
  \A i \in 1 .. Len(p), j \in 1 .. Len(p) :
    p[i] = "%" /\ j \in i + 1 .. i + 2 => p[j] \notin {"%", "=", "&"}

(* What the parser's variables may be. *)
Parsers == [state : {1, 2}, buf : Seq(Symbols), key : Seq(Symbols), escape : Seq(Symbols),
            sets : Seq(Seq(Symbols) \X Seq(Symbols))]

LEMMA AppendToOne ==
  ASSUME NEW a, NEW b
  PROVE  Append(<<a>>, b) = <<a, b>> /\ Len(<<a, b>>) = 2
<1>1. PICK E, t, r, u : E = {a, b} /\ t = <<a>> /\ r = Append(<<a>>, b) /\ u = <<a, b>>
  OBVIOUS
<1>2. t \in Seq(E) /\ Len(t) = 1 /\ t[1] = a /\ b \in E
  BY <1>1
<1>3. u \in Seq(E) /\ Len(u) = 2 /\ u[1] = a /\ u[2] = b
  BY <1>1
<1>4. r \in Seq(E) /\ Len(r) = 2 /\ r[2] = b /\ r[1] = a
  BY <1>1, <1>2, AppendIs
<1>5. \A i \in 1 .. 2 : i = 1 \/ i = 2
  OBVIOUS
<1>6. r = u
  BY <1>3, <1>4, <1>5, SeqEqual
<1> QED BY <1>1, <1>3, <1>6

LEMMA AppendToTwo ==
  ASSUME NEW a, NEW b, NEW c
  PROVE  Append(<<a, b>>, c) = <<a, b, c>> /\ Len(<<a, b, c>>) = 3
<1>1. PICK E, t, r, u : E = {a, b, c} /\ t = <<a, b>> /\ r = Append(<<a, b>>, c) /\ u = <<a, b, c>>
  OBVIOUS
<1>2. t \in Seq(E) /\ Len(t) = 2 /\ t[1] = a /\ t[2] = b /\ c \in E
  BY <1>1
<1>3. u \in Seq(E) /\ Len(u) = 3 /\ u[1] = a /\ u[2] = b /\ u[3] = c
  BY <1>1
<1>4. r \in Seq(E) /\ Len(r) = 3 /\ r[3] = c /\ r[2] = b /\ r[1] = a
  BY <1>1, <1>2, AppendIs
<1>5. \A i \in 1 .. 3 : i = 1 \/ i = 2 \/ i = 3
  OBVIOUS
<1>6. r = u
  BY <1>3, <1>4, <1>5, SeqEqual
<1> QED BY <1>1, <1>3, <1>6

(* What is taken of a character that is not a separator here. *)
LEMMA PartGrows ==
  ASSUME NEW k \in Parsers, NEW p \in Seq(STRING), NEW ch \in STRING, NEW encode \in BOOLEAN,
         k.buf = MeaningOf(p, encode), k.escape = EscapeOf(p, encode),
         NEW q, Grown(p, ch, q), encode => Whole(q),
         ~(ch = "=" /\ k.state = 1), ~(ch = "&" /\ k.state = 2),
         NEW r, r = TakeChar(k, ch, encode)
  PROVE  /\ r.state = k.state /\ r.key = k.key /\ r.sets = k.sets
         /\ r.buf = MeaningOf(q, encode) /\ r.escape = EscapeOf(q, encode)
<1>0. PICK L : L = Len(p)
  OBVIOUS
<1>1. /\ q \in Seq(STRING) /\ Len(q) = L + 1 /\ L \in Nat /\ q[L + 1] = ch
      /\ \A i \in 1 .. L : q[i] = p[i]
  BY <1>0 DEF Grown
<1>2. k.buf \in Seq(Symbols) /\ k.escape \in Seq(Symbols) /\ ch \in Symbols
  BY DEF Parsers, Symbols
<1>3. CASE ~encode
  <2>1. k.escape = <<>> /\ EscapeOf(q, encode) = <<>>
    BY <1>3 DEF EscapeOf
  <2>2. r = [k EXCEPT !.buf = Append(k.buf, ch)]
    BY <1>3, <2>1 DEF TakeChar
  <2>3. q = Append(p, ch)
    BY GrownIs
  <2> QED BY <1>3, <2>1, <2>2, <2>3 DEF MeaningOf, Parsers
<1>4. CASE encode
  <2>1. /\ k.buf = Unescaped(p) /\ MeaningOf(q, encode) = k.buf \o UnAt(q, L + 1)
    BY <1>0, <1>4, OneMoreChar DEF MeaningOf
  <2>2. (L >= 1 => q[L] = p[L]) /\ (L >= 2 => q[L - 1] = p[L - 1])
    BY <1>1
  <2>3. L >= 1 /\ p[L] = "%" => ch \notin {"%", "=", "&"}
    <3> SUFFICES ASSUME L >= 1, p[L] = "%" PROVE ch \notin {"%", "=", "&"}
      OBVIOUS
    <3>1. L \in 1 .. Len(q) /\ L + 1 \in 1 .. Len(q) /\ L + 1 \in L + 1 .. L + 2
      BY <1>1
    <3> QED BY <1>1, <1>4, <2>2, <3>1 DEF Whole
  <2>4. L >= 2 /\ p[L - 1] = "%" => ch \notin {"%", "=", "&"} /\ p[L] # "%"
    <3> SUFFICES ASSUME L >= 2, p[L - 1] = "%" PROVE ch \notin {"%", "=", "&"} /\ p[L] # "%"
      OBVIOUS
    <3>1. /\ L - 1 \in 1 .. Len(q) /\ L \in 1 .. Len(q) /\ L + 1 \in 1 .. Len(q)
          /\ L + 1 \in (L - 1) + 1 .. (L - 1) + 2 /\ L \in (L - 1) + 1 .. (L - 1) + 2
      BY <1>1
    <3> QED BY <1>1, <1>4, <2>2, <3>1 DEF Whole
  <2>5. /\ Begins(q, (L + 1) - 2) <=> L >= 2 /\ p[L - 1] = "%"
        /\ Begins(q, (L + 1) - 1) <=> L >= 1 /\ p[L] = "%"
        /\ Begins(q, L + 1) <=> ch = "%"
    <3>1. (L + 1) - 2 = L - 1 /\ (L + 1) - 1 = L
      BY <1>1
    <3>2. Begins(q, L - 1) <=> L >= 2 /\ p[L - 1] = "%"
      BY <1>1, <2>2 DEF Begins
    <3>3. Begins(q, L) <=> L >= 1 /\ p[L] = "%"
      BY <1>1, <2>2 DEF Begins
    <3>4. Begins(q, L + 1) <=> ch = "%"
      BY <1>1 DEF Begins
    <3> QED BY <3>1, <3>2, <3>3, <3>4
  <2>6. CASE L >= 1 /\ p[L] = "%"
    <3>1. k.escape = <<"%">>
      BY <1>0, <1>4, <2>6 DEF EscapeOf
    <3>2. PICK e : e = <<"%", ch>>
      OBVIOUS
    <3>3. Append(k.escape, ch) = e /\ Len(e) = 2
      BY <3>1, <3>2, AppendToOne
    <3>4. r = [k EXCEPT !.escape = e]
      <4>1. r = TakeEscaped(k, ch)
        BY <3>1 DEF TakeChar
      <4> QED BY <3>3, <4>1 DEF TakeEscaped
    <3>5. UnAt(q, L + 1) = <<>>
      BY <2>4, <2>5, <2>6 DEF UnAt
    <3>6. EscapeOf(q, encode) = e
      <4>1. q[Len(q)] = ch /\ q[Len(q) - 1] = "%" /\ Len(q) >= 2 /\ ch # "%"
        BY <1>1, <2>2, <2>3, <2>6
      <4> QED BY <1>4, <3>2, <4>1 DEF EscapeOf
    <3>7. k.buf \o <<>> = k.buf
      BY <1>2
    <3> QED BY <2>1, <3>4, <3>5, <3>6, <3>7 DEF Parsers
  <2>7. CASE ~(L >= 1 /\ p[L] = "%") /\ L >= 2 /\ p[L - 1] = "%"
    <3>1. k.escape = <<"%", p[L]>>
      BY <1>0, <1>4, <2>7 DEF EscapeOf
    <3>2. PICK e : e = <<"%", p[L], ch>>
      OBVIOUS
    <3>3. Append(k.escape, ch) = e /\ Len(e) = 3
      BY <3>1, <3>2, AppendToTwo
    <3>4. r = [k EXCEPT !.escape = <<>>, !.buf = Append(k.buf, Decoded(e))]
      <4>1. r = TakeEscaped(k, ch)
        BY <3>1 DEF TakeChar
      <4>2. ~(Len(e) < 3)
        BY <3>3
      <4> QED BY <3>3, <4>1, <4>2, Zenon DEF TakeEscaped
    <3>5. UnAt(q, L + 1) = <<Decoded(e)>>
      <4>1. L + 1 \in 3 .. Len(q) /\ (L + 1) - 2 = L - 1 /\ (L + 1) - 1 = L
        BY <1>1, <2>7
      <4>2. SubSeq(q, (L + 1) - 2, L + 1) = <<q[(L + 1) - 2], q[(L + 1) - 1], q[L + 1]>>
        BY <1>1, <4>1, ThreeOf
      <4>3. q[(L + 1) - 2] = "%" /\ q[(L + 1) - 1] = p[L] /\ q[L + 1] = ch
        BY <1>1, <2>2, <2>7, <4>1
      <4>4. SubSeq(q, (L + 1) - 2, L + 1) = e
        BY <3>2, <4>2, <4>3
      <4> QED BY <2>5, <2>7, <4>4 DEF UnAt
    <3>6. EscapeOf(q, encode) = <<>>
      <4>1. q[Len(q)] = ch /\ q[Len(q) - 1] = p[L] /\ ch # "%" /\ p[L] # "%"
        BY <1>1, <2>2, <2>4, <2>7
      <4> QED BY <4>1 DEF EscapeOf
    <3>7. k.buf \o <<Decoded(e)>> = Append(k.buf, Decoded(e))
      BY <1>2, DecodedIs
    <3> QED BY <2>1, <3>4, <3>5, <3>6, <3>7 DEF Parsers
  <2>8. CASE ~(L >= 1 /\ p[L] = "%") /\ ~(L >= 2 /\ p[L - 1] = "%")
    <3>1. k.escape = <<>>
      BY <1>0, <2>8 DEF EscapeOf
    <3>2. CASE ch = "%"
      <4>1. r = [k EXCEPT !.escape = <<ch>>]
        BY <1>4, <3>1, <3>2 DEF TakeChar
      <4>2. UnAt(q, L + 1) = <<>>
        BY <2>5, <2>8, <3>2 DEF UnAt
      <4>3. EscapeOf(q, encode) = <<ch>>
        BY <1>1, <1>4, <3>2 DEF EscapeOf
      <4>4. k.buf \o <<>> = k.buf
        BY <1>2
      <4> QED BY <2>1, <4>1, <4>2, <4>3, <4>4 DEF Parsers
    <3>3. CASE ch # "%"
      <4>1. r = [k EXCEPT !.buf = Append(k.buf, ch)]
        BY <3>1, <3>3 DEF TakeChar
      <4>2. UnAt(q, L + 1) = <<ch>>
        BY <1>1, <2>5, <2>8, <3>3 DEF UnAt
      <4>3. EscapeOf(q, encode) = <<>>
        <5>1. q[Len(q)] = ch /\ (Len(q) >= 2 => q[Len(q) - 1] # "%")
          BY <1>1, <2>2, <2>8
        <5> QED BY <3>3, <5>1 DEF EscapeOf
      <4>4. k.buf \o <<ch>> = Append(k.buf, ch)
        BY <1>2
      <4> QED BY <2>1, <3>1, <4>1, <4>2, <4>3, <4>4 DEF Parsers
    <3> QED BY <3>2, <3>3
  <2> QED BY <2>6, <2>7, <2>8
<1> QED BY <1>3, <1>4

(* A separator never stands in an escape. *)
LEMMA NoEscapeHere ==
  ASSUME NEW p \in Seq(STRING), NEW ch \in {"=", "&"}, ch \in STRING, NEW encode,
         NEW q, Grown(p, ch, q), encode => Whole(q)
  PROVE  EscapeOf(p, encode) = <<>>
<1>0. PICK L : L = Len(p)
  OBVIOUS
<1>1. /\ q \in Seq(STRING) /\ Len(q) = L + 1 /\ L \in Nat /\ q[L + 1] = ch
      /\ \A i \in 1 .. L : q[i] = p[i]
  BY <1>0 DEF Grown
<1>2. ASSUME NEW i \in 1 .. L, i >= L - 1, p[i] = "%", encode PROVE FALSE
  <2>1. i \in 1 .. Len(q) /\ L + 1 \in 1 .. Len(q) /\ L + 1 \in i + 1 .. i + 2 /\ q[i] = "%"
    BY <1>1, <1>2
  <2> QED BY <1>1, <1>2, <2>1 DEF Whole
<1>3. encode => ~(L >= 1 /\ p[L] = "%") /\ ~(L >= 2 /\ p[L - 1] = "%")
  BY <1>1, <1>2
<1> QED BY <1>0, <1>3 DEF EscapeOf

LEMMA TakeCharType ==
  ASSUME NEW k \in Parsers, NEW ch \in STRING, NEW encode \in BOOLEAN
  PROVE  TakeChar(k, ch, encode) \in Parsers
<1>1. /\ k.buf \in Seq(Symbols) /\ k.escape \in Seq(Symbols) /\ k.key \in Seq(Symbols)
      /\ k.sets \in Seq(Seq(Symbols) \X Seq(Symbols)) /\ ch \in Symbols
  BY DEF Parsers, Symbols
<1>2. PICK r : r = TakeChar(k, ch, encode)
  OBVIOUS
<1> SUFFICES r \in Parsers
  BY <1>2
<1>3. Append(k.buf, ch) \in Seq(Symbols) /\ <<ch>> \in Seq(Symbols) /\ <<>> \in Seq(Symbols)
  BY <1>1
<1>4. CASE k.escape # <<>>
  <2>1. PICK e, d : e = Append(k.escape, ch) /\ d = Decoded(e)
    OBVIOUS
  <2>2. e \in Seq(Symbols) /\ Append(k.buf, d) \in Seq(Symbols)
    BY <1>1, <2>1, DecodedIs
  <2>3. r = TakeEscaped(k, ch)
    BY <1>2, <1>4 DEF TakeChar
  <2>4. r = [k EXCEPT !.escape = e] \/ r = [k EXCEPT !.escape = <<>>, !.buf = Append(k.buf, d)]
    BY <2>1, <2>3 DEF TakeEscaped
  <2>5. CASE r = [k EXCEPT !.escape = e]
    BY <2>2, <2>5 DEF Parsers
  <2>6. CASE r = [k EXCEPT !.escape = <<>>, !.buf = Append(k.buf, d)]
    BY <1>3, <2>2, <2>6 DEF Parsers
  <2> QED BY <1>2, <2>4, <2>5, <2>6
<1>5. CASE k.escape = <<>>
  <2>1. PICK x : x = <<k.key, k.buf>>
    OBVIOUS
  <2>2. Append(k.sets, x) \in Seq(Seq(Symbols) \X Seq(Symbols))
    BY <1>1, <2>1
  <2>3. \/ r = [k EXCEPT !.key = k.buf, !.buf = <<>>, !.state = 2]
        \/ r = [k EXCEPT !.sets = Append(k.sets, x), !.buf = <<>>, !.state = 1]
        \/ r = [k EXCEPT !.escape = <<ch>>]
        \/ r = [k EXCEPT !.buf = Append(k.buf, ch)]
    BY <1>2, <1>5, <2>1 DEF TakeChar
  <2>4. CASE r = [k EXCEPT !.key = k.buf, !.buf = <<>>, !.state = 2]
    BY <1>1, <1>3, <2>4 DEF Parsers
  <2>5. CASE r = [k EXCEPT !.sets = Append(k.sets, x), !.buf = <<>>, !.state = 1]
    BY <1>3, <2>2, <2>5 DEF Parsers
  <2>6. CASE r = [k EXCEPT !.escape = <<ch>>]
    BY <1>3, <2>6 DEF Parsers
  <2>7. CASE r = [k EXCEPT !.buf = Append(k.buf, ch)]
    BY <1>3, <2>7 DEF Parsers
  <2> QED BY <1>2, <2>3, <2>4, <2>5, <2>6, <2>7
<1> QED BY <1>4, <1>5

-----------------------------------------------------------------------------
(* The blocking parser stores the pairs of a body.                         *)

LEMMA PartIs ==
  ASSUME NEW s \in Seq(STRING), NEW m \in 0 .. Len(s), NEW i \in 1 .. m + 1,
         NEW p, p = SubSeq(s, i, m)
  PROVE  /\ p \in Seq(STRING) /\ Len(p) = (m - i) + 1
         /\ \A x \in 1 .. (m - i) + 1 : p[x] = s[(i + x) - 1]
<1>1. i \in Nat /\ m \in Nat /\ (m - i) + 1 \in Nat /\ i <= m + 1 /\ Len(s) \in Nat /\ m <= Len(s)
  OBVIOUS
<1>2. \A x \in 1 .. (m - i) + 1 : (i + x) - 1 \in 1 .. Len(s) /\ (i + x) - 1 = i + x - 1
  BY <1>1
<1>3. p = [x \in 1 .. (m - i) + 1 |-> s[(i + x) - 1]]
  BY <1>1
<1>4. \A x \in 1 .. (m - i) + 1 : s[(i + x) - 1] \in STRING
  BY <1>2
<1>5. p \in [1 .. (m - i) + 1 -> STRING]
  BY <1>3, <1>4
<1> QED BY ONLY <1>1, <1>3, <1>5

LEMMA PartGrown ==
  ASSUME NEW s \in Seq(STRING), NEW m \in 0 .. Len(s) - 1, NEW i \in 1 .. m + 1
  PROVE  /\ SubSeq(s, i, m) \in Seq(STRING) /\ s[m + 1] \in STRING
         /\ Grown(SubSeq(s, i, m), s[m + 1], SubSeq(s, i, m + 1))
<1>1. PICK p, q : p = SubSeq(s, i, m) /\ q = SubSeq(s, i, m + 1)
  OBVIOUS
<1>2. /\ m \in 0 .. Len(s) /\ m + 1 \in 0 .. Len(s) /\ i \in 1 .. (m + 1) + 1
      /\ m \in Nat /\ i \in Nat /\ m + 1 \in 1 .. Len(s) /\ i <= m + 1
  OBVIOUS
<1>3. /\ p \in Seq(STRING) /\ Len(p) = (m - i) + 1
      /\ \A x \in 1 .. (m - i) + 1 : p[x] = s[(i + x) - 1]
  BY <1>1, <1>2, PartIs
<1>4. /\ q \in Seq(STRING) /\ Len(q) = ((m + 1) - i) + 1
      /\ \A x \in 1 .. ((m + 1) - i) + 1 : q[x] = s[(i + x) - 1]
  BY <1>1, <1>2, PartIs
<1>5. PICK L : L = (m - i) + 1
  OBVIOUS
<1>6. L \in Nat /\ ((m + 1) - i) + 1 = L + 1 /\ (i + (L + 1)) - 1 = m + 1 /\ L + 1 \in 1 .. L + 1
  BY <1>2, <1>5
<1>7. Len(q) = Len(p) + 1 /\ Len(p) = L
  BY <1>3, <1>4, <1>5, <1>6
<1>8. q[L + 1] = s[m + 1]
  BY <1>4, <1>6
<1>9. ASSUME NEW x \in 1 .. L PROVE q[x] = p[x]
  <2>1. x \in 1 .. L + 1
    BY <1>6
  <2> QED BY <1>3, <1>4, <1>5, <1>6, <2>1
<1>10. s[m + 1] \in STRING
  BY <1>2
<1>11. Grown(p, s[m + 1], q)
  BY <1>4, <1>7, <1>8, <1>9 DEF Grown
<1> QED BY <1>1, <1>3, <1>10, <1>11

LEMMA PartWhole ==
  ASSUME NEW s \in Seq(STRING), Whole(s), NEW m \in 0 .. Len(s), NEW i \in 1 .. m + 1
  PROVE  Whole(SubSeq(s, i, m))
<1>1. PICK p : p = SubSeq(s, i, m)
  OBVIOUS
<1>2. /\ p \in Seq(STRING) /\ Len(p) = (m - i) + 1
      /\ \A x \in 1 .. (m - i) + 1 : p[x] = s[(i + x) - 1]
  BY <1>1, PartIs
<1>3. ASSUME NEW x \in 1 .. Len(p), NEW y \in 1 .. Len(p), p[x] = "%", y \in x + 1 .. x + 2
      PROVE  p[y] \notin {"%", "=", "&"}
  <2>1. PICK a, b : a = (i + x) - 1 /\ b = (i + y) - 1
    OBVIOUS
  <2>2. a \in 1 .. Len(s) /\ b \in 1 .. Len(s) /\ b \in a + 1 .. a + 2
    BY <1>2, <1>3, <2>1
  <2>3. p[x] = s[a] /\ p[y] = s[b]
    BY <1>2, <2>1
  <2> QED BY <1>3, <2>2, <2>3 DEF Whole
<1> QED BY <1>1, <1>3 DEF Whole

LEMMA PartEmpty ==
  ASSUME NEW s \in Seq(STRING), NEW m \in 0 .. Len(s)
  PROVE  SubSeq(s, m + 1, m) = <<>>
<1>1. m + 1 \in 1 .. m + 1 /\ (m - (m + 1)) + 1 = 0
  OBVIOUS
<1>2. PICK p : p = SubSeq(s, m + 1, m)
  OBVIOUS
<1>3. p \in Seq(STRING) /\ Len(p) = 0
  BY <1>1, <1>2, PartIs
<1> QED BY <1>2, <1>3

(* What is read of the part of s from i to m. *)
InPart(s, i, m, encode, k) ==
  /\ k.buf = MeaningOf(SubSeq(s, i, m), encode)
  /\ k.escape = EscapeOf(SubSeq(s, i, m), encode)

LEMMA PartBegins ==
  ASSUME NEW s \in Seq(STRING), NEW m \in 0 .. Len(s), NEW encode \in BOOLEAN, NEW k,
         k.buf = <<>>, k.escape = <<>>
  PROVE  InPart(s, m + 1, m, encode, k)
<1>1. SubSeq(s, m + 1, m) = <<>>
  BY PartEmpty
<1>2. MeaningOf(<<>>, encode) = <<>>
  BY UnescapedEmpty DEF MeaningOf
<1>3. EscapeOf(<<>>, encode) = <<>>
  BY DEF EscapeOf
<1> QED BY <1>1, <1>2, <1>3 DEF InPart

LEMMA PartGoesOn ==
  ASSUME NEW s \in Seq(STRING), NEW encode \in BOOLEAN, encode => Whole(s),
         NEW m \in 0 .. Len(s) - 1, NEW i \in 1 .. m + 1,
         NEW k \in Parsers, InPart(s, i, m, encode, k),
         ~(s[m + 1] = "=" /\ k.state = 1), ~(s[m + 1] = "&" /\ k.state = 2),
         NEW r, r = TakeChar(k, s[m + 1], encode)
  PROVE  /\ r.state = k.state /\ r.key = k.key /\ r.sets = k.sets
         /\ InPart(s, i, m + 1, encode, r)
<1>1. PICK p, q, ch : p = SubSeq(s, i, m) /\ q = SubSeq(s, i, m + 1) /\ ch = s[m + 1]
  OBVIOUS
<1>2. p \in Seq(STRING) /\ ch \in STRING /\ Grown(p, ch, q)
  BY <1>1, PartGrown
<1>3. encode => Whole(q)
  <2>1. m + 1 \in 0 .. Len(s) /\ i \in 1 .. (m + 1) + 1
    OBVIOUS
  <2> QED BY <1>1, <2>1, PartWhole
<1>4. k.buf = MeaningOf(p, encode) /\ k.escape = EscapeOf(p, encode)
  BY <1>1 DEF InPart
<1>5. ~(ch = "=" /\ k.state = 1) /\ ~(ch = "&" /\ k.state = 2) /\ r = TakeChar(k, ch, encode)
  BY <1>1
<1>6. /\ r.state = k.state /\ r.key = k.key /\ r.sets = k.sets
      /\ r.buf = MeaningOf(q, encode) /\ r.escape = EscapeOf(q, encode)
  BY ONLY <1>2, <1>3, <1>4, <1>5, k \in Parsers, encode \in BOOLEAN, PartGrows
<1> QED BY <1>1, <1>6 DEF InPart

LEMMA PartEnds ==
  ASSUME NEW s \in Seq(STRING), NEW encode \in BOOLEAN, encode => Whole(s),
         NEW m \in 0 .. Len(s) - 1, NEW i \in 1 .. m + 1,
         NEW k \in Parsers, InPart(s, i, m, encode, k),
         s[m + 1] \in {"=", "&"}
  PROVE  k.escape = <<>>
<1>1. PICK p, q, ch : p = SubSeq(s, i, m) /\ q = SubSeq(s, i, m + 1) /\ ch = s[m + 1]
  OBVIOUS
<1>2. p \in Seq(STRING) /\ ch \in STRING /\ Grown(p, ch, q) /\ ch \in {"=", "&"}
  BY <1>1, PartGrown
<1>3. encode => Whole(q)
  <2>1. m + 1 \in 0 .. Len(s) /\ i \in 1 .. (m + 1) + 1
    OBVIOUS
  <2> QED BY <1>1, <2>1, PartWhole
<1>4. EscapeOf(p, encode) = <<>>
  BY <1>2, <1>3, NoEscapeHere
<1> QED BY <1>1, <1>4 DEF InPart

(* The pairs with these places. *)
PairOf(s, x, encode) ==
  <<MeaningOf(SubSeq(s, x[1], x[2] - 1), encode), MeaningOf(SubSeq(s, x[2] + 1, x[3] - 1), encode)>>
PairsAt(s, spans, encode) == [n \in 1 .. Len(spans) |-> PairOf(s, spans[n], encode)]

LEMMA OnePairMore ==
  ASSUME NEW s, NEW encode, NEW t \in Spans, NEW x \in Nat \X Nat \X Nat, NEW E,
         PairsAt(s, t, encode) \in Seq(E), PairOf(s, x, encode) \in E
  PROVE  PairsAt(s, Append(t, x), encode) = Append(PairsAt(s, t, encode), PairOf(s, x, encode))
<1>1. PICK p, q, u, y : /\ p = PairsAt(s, t, encode) /\ u = Append(t, x)
                        /\ q = PairsAt(s, u, encode)
                        /\ y = PairOf(s, x, encode)
  OBVIOUS
<1>2. PICK L : L = Len(t)
  OBVIOUS
<1>3. /\ u \in Spans /\ Len(u) = L + 1 /\ L \in Nat /\ u[L + 1] = x
      /\ \A n \in 1 .. L : u[n] = t[n]
  BY <1>1, <1>2, AppendIs DEF Spans
<1>4. p = [n \in 1 .. L |-> PairOf(s, t[n], encode)]
  BY <1>1, <1>2 DEF PairsAt
<1>5. q = [n \in 1 .. L + 1 |-> PairOf(s, u[n], encode)]
  BY <1>1, <1>3 DEF PairsAt
<1>6. p \in Seq(E) /\ y \in E
  BY <1>1
<1>7. Len(p) = L
  BY <1>3, <1>4, <1>6
<1>8. \A n \in 1 .. L + 1 : n \in 1 .. L \/ n = L + 1
  BY <1>3
<1>9. /\ Append(p, y) \in Seq(E) /\ Len(Append(p, y)) = L + 1 /\ Append(p, y)[L + 1] = y
      /\ \A n \in 1 .. L : Append(p, y)[n] = p[n]
  BY <1>6, <1>7, AppendIs
<1>10. \A n \in 1 .. L + 1 : q[n] = Append(p, y)[n]
  BY <1>1, <1>3, <1>4, <1>5, <1>8, <1>9
<1>11. q \in Seq(E) /\ Len(q) = L + 1
  <2>1. \A n \in 1 .. L + 1 : q[n] \in E
    BY <1>3, <1>6, <1>7, <1>8, <1>9, <1>10
  <2>2. q \in [1 .. L + 1 -> E]
    BY <1>5, <2>1
  <2> QED BY <1>3, <2>2
<1>12. q = Append(p, y)
  BY <1>9, <1>10, <1>11, SeqEqual
<1> QED BY <1>1, <1>12

(* The parser is in the value behind the '=' at eq. *)
InValue(s, t, m, encode, k, eq) ==
  /\ eq \in Rest(t) .. m
  /\ s[eq] = "=" /\ \A j \in Rest(t) .. eq - 1 : s[j] # "="
  /\ \A j \in eq + 1 .. m : s[j] # "&"
  /\ k.key = MeaningOf(SubSeq(s, Rest(t), eq - 1), encode)
  /\ InPart(s, eq + 1, m, encode, k)

(* The parser has read m characters, behind the pairs t. *)
ReadBehind(s, t, m, encode, k) ==
  /\ k.sets = PairsAt(s, t, encode) /\ Rest(t) \in 1 .. m + 1
  /\ \/ /\ k.state = 1 /\ \A j \in Rest(t) .. m : s[j] # "="
        /\ InPart(s, Rest(t), m, encode, k)
     \/ k.state = 2 /\ \E eq : InValue(s, t, m, encode, k, eq)

(* The pairs that it has stored are the first n. *)
HasTaken(s, f, m, encode, k) ==
  \E n \in 0 .. Len(s) : n < Rest(f[n]) /\ ReadBehind(s, f[n], m, encode, k)

LEMMA RestOf ==
  ASSUME NEW t \in Spans, NEW x \in Nat \X Nat \X Nat
  PROVE  Append(t, x) \in Spans /\ Rest(Append(t, x)) = x[3] + 1
<1>1. /\ Append(t, x) \in Seq(Nat \X Nat \X Nat) /\ Len(Append(t, x)) = Len(t) + 1
      /\ Append(t, x)[Len(t) + 1] = x /\ Len(t) \in Nat
  BY AppendIs DEF Spans
<1>2. PICK r : r = Append(t, x)
  OBVIOUS
<1>3. r \in Seq(Nat \X Nat \X Nat) /\ Len(r) = Len(t) + 1 /\ r[Len(t) + 1] = x /\ Len(t) \in Nat
  BY <1>1, <1>2
<1>4. r # <<>> /\ r[Len(r)] = x
  BY <1>3
<1>5. Rest(r) = x[3] + 1
  BY ONLY <1>4 DEF Rest
<1>6. r \in Spans
  BY <1>3 DEF Spans
<1> QED BY <1>2, <1>5, <1>6

LEMMA KeyTaken ==
  ASSUME NEW s \in Seq(STRING), NEW encode \in BOOLEAN, encode => Whole(s),
         NEW m \in 0 .. Len(s) - 1, NEW k \in Parsers, NEW t \in Spans,
         Rest(t) \in 1 .. m + 1, k.sets = PairsAt(s, t, encode),
         k.state = 1, \A j \in Rest(t) .. m : s[j] # "=", InPart(s, Rest(t), m, encode, k),
         NEW r, r = TakeChar(k, s[m + 1], encode)
  PROVE  ReadBehind(s, t, m + 1, encode, r)
<1>1. m \in Nat /\ m + 1 \in 0 .. Len(s) /\ Rest(t) \in 1 .. (m + 1) + 1 /\ Rest(t) \in Nat
  OBVIOUS
<1>2. \A j \in Rest(t) .. m + 1 : j \in Rest(t) .. m \/ j = m + 1
  BY <1>1
<1>3. CASE s[m + 1] # "="
  <2>1. /\ r.state = k.state /\ r.key = k.key /\ r.sets = k.sets
        /\ InPart(s, Rest(t), m + 1, encode, r)
    BY <1>3, PartGoesOn
  <2>2. \A j \in Rest(t) .. m + 1 : s[j] # "="
    BY <1>2, <1>3
  <2> QED BY <1>1, <2>1, <2>2 DEF ReadBehind
<1>4. CASE s[m + 1] = "="
  <2>1. k.escape = <<>>
    BY <1>4, PartEnds
  <2>2. r = [k EXCEPT !.key = k.buf, !.buf = <<>>, !.state = 2]
    BY <1>4, <2>1 DEF TakeChar
  <2>3. r.key = k.buf /\ r.buf = <<>> /\ r.state = 2 /\ r.escape = <<>> /\ r.sets = k.sets
    BY <2>1, <2>2 DEF Parsers
  <2>4. InPart(s, (m + 1) + 1, m + 1, encode, r)
    BY <1>1, <2>3, PartBegins
  <2>5. (m + 1) - 1 = m /\ m + 1 \in Rest(t) .. m + 1
    BY <1>1
  <2>6. r.key = MeaningOf(SubSeq(s, Rest(t), (m + 1) - 1), encode)
    BY <2>3, <2>5 DEF InPart
  <2>7. \A j \in (m + 1) + 1 .. m + 1 : FALSE
    BY <1>1
  <2>8. \A j \in Rest(t) .. (m + 1) - 1 : s[j] # "="
    BY <2>5
  <2>9. InValue(s, t, m + 1, encode, r, m + 1)
    BY <1>4, <2>4, <2>5, <2>6, <2>7, <2>8 DEF InValue
  <2> QED BY <1>1, <2>3, <2>9 DEF ReadBehind
<1> QED BY <1>3, <1>4

LEMMA ValueTaken ==
  ASSUME NEW s \in Seq(STRING), NEW encode \in BOOLEAN, encode => Whole(s),
         NEW m \in 0 .. Len(s) - 1, NEW k \in Parsers, NEW t \in Spans,
         Rest(t) \in 1 .. m + 1, k.sets = PairsAt(s, t, encode),
         k.state = 2, NEW eq, InValue(s, t, m, encode, k, eq),
         NEW r, r = TakeChar(k, s[m + 1], encode)
  PROVE  \/ ReadBehind(s, t, m + 1, encode, r)
         \/ \E u : OneMoreSpan(s, t) = u /\ ReadBehind(s, u, m + 1, encode, r) /\ Rest(u) = m + 2
<1>0. /\ eq \in Rest(t) .. m
      /\ s[eq] = "=" /\ \A j \in Rest(t) .. eq - 1 : s[j] # "="
      /\ \A j \in eq + 1 .. m : s[j] # "&"
      /\ k.key = MeaningOf(SubSeq(s, Rest(t), eq - 1), encode)
      /\ InPart(s, eq + 1, m, encode, k)
  BY DEF InValue
<1>1. /\ m \in Nat /\ m + 1 \in 0 .. Len(s) /\ Rest(t) \in 1 .. (m + 1) + 1 /\ Rest(t) \in Nat
      /\ eq \in Nat /\ eq + 1 \in 1 .. m + 1 /\ eq \in Rest(t) .. m + 1 /\ m + 1 \in 1 .. Len(s)
      /\ Len(s) \in Nat /\ eq \in Rest(t) .. Len(s) /\ m + 1 \in eq + 1 .. Len(s) /\ eq <= Len(s)
  BY <1>0
<1>2. \A j \in eq + 1 .. m + 1 : j \in eq + 1 .. m \/ j = m + 1
  BY <1>1
<1>3. CASE s[m + 1] # "&"
  <2>1. /\ r.state = k.state /\ r.key = k.key /\ r.sets = k.sets
        /\ InPart(s, eq + 1, m + 1, encode, r)
    BY <1>0, <1>1, <1>3, PartGoesOn
  <2>2. \A j \in eq + 1 .. m + 1 : s[j] # "&"
    BY <1>0, <1>2, <1>3
  <2>3. InValue(s, t, m + 1, encode, r, eq)
    BY <1>0, <1>1, <2>1, <2>2 DEF InValue
  <2> QED BY <1>1, <2>1, <2>3 DEF ReadBehind
<1>4. CASE s[m + 1] = "&"
  <2>1. k.escape = <<>>
    BY <1>0, <1>1, <1>4, PartEnds
  <2>2. PICK y : y = <<k.key, k.buf>>
    OBVIOUS
  <2>3. r = [k EXCEPT !.sets = Append(k.sets, y), !.buf = <<>>, !.state = 1]
    BY <1>4, <2>1, <2>2 DEF TakeChar
  <2>4. r.sets = Append(k.sets, y) /\ r.buf = <<>> /\ r.state = 1 /\ r.escape = <<>>
    BY <2>1, <2>3 DEF Parsers
  <2>5. PICK x : x = <<Rest(t), eq, m + 1>>
    OBVIOUS
  <2>6. x \in Nat \X Nat \X Nat /\ x[1] = Rest(t) /\ x[2] = eq /\ x[3] = m + 1 /\ (m + 1) - 1 = m
    BY <1>1, <2>5
  <2>7. PairOf(s, x, encode) = y
    BY <1>0, <2>2, <2>6 DEF PairOf, InPart
  <2>8. Append(k.sets, y) = PairsAt(s, Append(t, x), encode)
    <3> DEFINE E == Seq(Symbols) \X Seq(Symbols)
    <3>1. k.sets \in Seq(E) /\ y \in E
      BY <2>2 DEF Parsers
    <3> HIDE DEF E
    <3> QED BY <2>6, <2>7, <3>1, OnePairMore
  <2>9. OneMoreSpan(s, t) = Append(t, x)
    <3>1. Next1(s, "=", Rest(t)) = eq
      BY <1>0, <1>1, FoundAt
    <3>2. Next1(s, "&", eq + 1) = m + 1
      <4>1. \A j \in eq + 1 .. (m + 1) - 1 : s[j] # "&"
        BY <1>0, <2>6
      <4> QED BY <1>0, <1>1, <1>4, <4>1, FoundAt
    <3>3. ~(eq > Len(s))
      BY <1>1
    <3> QED BY <2>5, <3>1, <3>2, <3>3 DEF OneMoreSpan
  <2>10. Append(t, x) \in Spans /\ Rest(Append(t, x)) = (m + 1) + 1 /\ (m + 1) + 1 = m + 2
    <3>1. Append(t, x) \in Spans /\ Rest(Append(t, x)) = x[3] + 1
      BY ONLY <2>6, t \in Spans, RestOf
    <3> QED BY <1>1, <2>6, <3>1
  <2>11. InPart(s, (m + 1) + 1, m + 1, encode, r)
    BY <1>1, <2>4, PartBegins
  <2>12. \A j \in (m + 1) + 1 .. m + 1 : FALSE
    BY <1>1
  <2>13. (m + 1) + 1 \in 1 .. (m + 1) + 1
    BY <1>1
  <2>14. ReadBehind(s, Append(t, x), m + 1, encode, r)
    BY <2>4, <2>8, <2>10, <2>11, <2>12, <2>13 DEF ReadBehind
  <2> QED BY <2>5, <2>9, <2>10, <2>14
<1> QED BY <1>3, <1>4

LEMMA TakenMore ==
  ASSUME NEW s \in Seq(STRING), NEW encode \in BOOLEAN, encode => Whole(s),
         NEW f \in [0 .. Len(s) -> SpansIn(Len(s))],
         \A n \in 1 .. Len(s) : f[n] = OneMoreSpan(s, f[n - 1]),
         NEW m \in 0 .. Len(s) - 1, NEW k \in Parsers,
         HasTaken(s, f, m, encode, k), NEW r, r = TakeChar(k, s[m + 1], encode)
  PROVE  HasTaken(s, f, m + 1, encode, r)
<1>1. PICK n \in 0 .. Len(s) : n < Rest(f[n]) /\ ReadBehind(s, f[n], m, encode, k)
  BY DEF HasTaken
<1>2. PICK t : t = f[n]
  OBVIOUS
<1>3. /\ t \in Spans /\ k.sets = PairsAt(s, t, encode) /\ Rest(t) \in 1 .. m + 1 /\ n < Rest(t)
      /\ ReadBehind(s, t, m, encode, k)
  BY <1>1, <1>2 DEF SpansIn, ReadBehind
<1>4. CASE k.state = 1
  <2>1. (\A j \in Rest(t) .. m : s[j] # "=") /\ InPart(s, Rest(t), m, encode, k)
    BY <1>3, <1>4 DEF ReadBehind
  <2>2. ReadBehind(s, t, m + 1, encode, r)
    BY <1>3, <1>4, <2>1, KeyTaken
  <2> QED BY <1>1, <1>2, <2>2 DEF HasTaken
<1>5. CASE k.state = 2
  <2>1. PICK eq : InValue(s, t, m, encode, k, eq)
    BY <1>3, <1>5 DEF ReadBehind
  <2>2. PICK u : \/ ReadBehind(s, t, m + 1, encode, r)
                 \/ OneMoreSpan(s, t) = u /\ ReadBehind(s, u, m + 1, encode, r) /\ Rest(u) = m + 2
    BY <1>3, <1>5, <2>1, ValueTaken
  <2>4. CASE ReadBehind(s, t, m + 1, encode, r)
    BY <1>1, <1>2, <2>4 DEF HasTaken
  <2>5. CASE OneMoreSpan(s, t) = u /\ ReadBehind(s, u, m + 1, encode, r) /\ Rest(u) = m + 2
    <3>1. n + 1 \in 1 .. Len(s) /\ n + 1 \in 0 .. Len(s) /\ (n + 1) - 1 = n /\ n + 1 < m + 2
      BY <1>3, <2>1 DEF InValue
    <3>2. f[n + 1] = u
      BY <1>2, <2>5, <3>1
    <3>3. n + 1 < Rest(f[n + 1]) /\ ReadBehind(s, f[n + 1], m + 1, encode, r)
      BY <2>5, <3>1, <3>2
    <3> QED BY <3>1, <3>3 DEF HasTaken
  <2> QED BY <2>2, <2>4, <2>5
<1> QED BY <1>4, <1>5 DEF Parsers

LEMMA BlockingBy ==
  ASSUME NEW s \in Seq(STRING), NEW encode \in BOOLEAN
  PROVE  \E h \in [0 .. Len(s) -> Parsers] :
           /\ h[0] = Begin
           /\ \A n \in 1 .. Len(s) : h[n] = TakeChar(h[n - 1], s[n], encode)
           /\ Blocking(s, encode) = IF h[Len(s)].state = 2
                                    THEN Append(h[Len(s)].sets, <<h[Len(s)].key, h[Len(s)].buf>>)
                                    ELSE h[Len(s)].sets
<1> DEFINE N == Len(s)
           read == CHOOSE f : f = [n \in 0 .. N |-> IF n = 0 THEN Begin
                                                    ELSE TakeChar(f[n - 1], s[n], encode)]
           g == [x \in (1 .. N) \X Parsers |-> TakeChar(x[2], s[x[1]], encode)]
<1>1. N \in Nat /\ Begin \in Parsers
  BY DEF Begin, Parsers
<1>2. Blocking(s, encode) = IF read[N].state = 2
                            THEN Append(read[N].sets, <<read[N].key, read[N].buf>>)
                            ELSE read[N].sets
  BY Zenon DEF Blocking
<1>3. g \in [(1 .. N) \X Parsers -> Parsers]
  <2>1. \A n \in 1 .. N : s[n] \in STRING
    OBVIOUS
  <2>2. \A n \in 1 .. N : \A k \in Parsers : TakeChar(k, s[n], encode) \in Parsers
    BY <2>1, TakeCharType
  <2> QED BY <2>2
<1>4. \A n \in 1 .. N : \A k \in Parsers : g[<<n, k>>] = TakeChar(k, s[n], encode)
  OBVIOUS
<1> HIDE DEF g
<1>5. PICK f \in [0 .. N -> Parsers] :
        f[0] = Begin /\ \A n \in 1 .. N : f[n] = g[<<n, f[n - 1]>>]
  <2>1. Defines(N, Parsers, Begin, g)
    BY <1>1, <1>3, Recursion
  <2> QED BY <2>1 DEF Defines
<1> DEFINE IsIt(x) == x = [n \in 0 .. N |-> IF n = 0 THEN Begin
                                            ELSE TakeChar(x[n - 1], s[n], encode)]
<1>6. ASSUME NEW n \in 1 .. N PROVE f[n] = TakeChar(f[n - 1], s[n], encode)
  <2>1. n - 1 \in 0 .. N
    BY <1>1
  <2>2. f[n - 1] \in Parsers
    BY <2>1
  <2> QED BY <1>4, <1>5, <2>2
<1>7. IsIt(f)
  <2>1. \A n \in 0 .. N : n = 0 \/ n \in 1 .. N
    BY <1>1
  <2>2. \A n \in 0 .. N : f[n] = IF n = 0 THEN Begin ELSE TakeChar(f[n - 1], s[n], encode)
    BY <1>5, <1>6, <2>1
  <2> QED BY <2>2
<1>8. IsIt(read)
  <2>1. read = CHOOSE x : IsIt(x)
    OBVIOUS
  <2> HIDE DEF IsIt
  <2> QED BY <1>7, <2>1
<1> HIDE DEF read
<1> DEFINE T == {n \in 0 .. N : read[n] = f[n]}
<1>9. 0 \in T
  BY <1>1, <1>5, <1>8
<1>10. ASSUME NEW n \in 1 .. N, n - 1 \in T PROVE n \in T
  <2>1. n \in 0 .. N /\ n # 0 /\ read[n - 1] = f[n - 1]
    BY <1>1, <1>10
  <2>2. read[n] = TakeChar(read[n - 1], s[n], encode)
    BY <1>8, <2>1
  <2> QED BY <1>6, <2>1, <2>2
<1> HIDE DEF T
<1>11. read[N] = f[N]
  <2>1. \A n \in 0 .. N : n \in T
    BY <1>1, <1>9, <1>10, UpToN
  <2> QED BY <1>1, <2>1 DEF T
<1> QED BY <1>2, <1>5, <1>6, <1>11

LEMMA StoresPairs ==
  ASSUME NEW s \in Seq(STRING), NEW encode \in BOOLEAN, encode => Whole(s)
  PROVE  Blocking(s, encode) = PairsAt(s, SpansOf(s), encode) /\ SpansOf(s) \in Spans
<1>1. PICK N : N = Len(s)
  OBVIOUS
<1>2. N \in Nat
  BY <1>1
<1>3. PICK f \in [0 .. N -> SpansIn(N)] :
        /\ f[0] = <<>> /\ \A n \in 1 .. N : f[n] = OneMoreSpan(s, f[n - 1])
        /\ SpansOf(s) = f[N]
  BY <1>1, <1>2, SpansBy
<1>4. PICK h \in [0 .. N -> Parsers] :
        /\ h[0] = Begin /\ \A n \in 1 .. N : h[n] = TakeChar(h[n - 1], s[n], encode)
        /\ Blocking(s, encode) = IF h[N].state = 2 THEN Append(h[N].sets, <<h[N].key, h[N].buf>>)
                                 ELSE h[N].sets
  BY <1>1, BlockingBy
<1> DEFINE T == {m \in 0 .. N : HasTaken(s, f, m, encode, h[m])}
<1>5. 0 \in T
  <2>1. Rest(<<>>) = 1 /\ 0 \in 0 .. Len(s)
    BY <1>1, <1>2 DEF Rest
  <2>2. /\ Begin.state = 1 /\ Begin.buf = <<>> /\ Begin.escape = <<>> /\ Begin.sets = <<>>
    BY DEF Begin
  <2>3. InPart(s, 0 + 1, 0, encode, Begin) /\ 0 + 1 = 1
    BY <2>1, <2>2, PartBegins
  <2>4. PairsAt(s, <<>>, encode) = <<>>
    BY DEF PairsAt
  <2>5. \A j \in 1 .. 0 : FALSE
    OBVIOUS
  <2>6. ReadBehind(s, <<>>, 0, encode, Begin)
    BY <2>1, <2>2, <2>3, <2>4, <2>5 DEF ReadBehind
  <2>7. HasTaken(s, f, 0, encode, Begin)
    BY <1>3, <2>1, <2>6 DEF HasTaken
  <2> QED BY <1>2, <1>4, <2>7
<1>6. ASSUME NEW m \in 1 .. N, m - 1 \in T PROVE m \in T
  <2>1. PICK l : l = m - 1
    OBVIOUS
  <2>2. l \in 0 .. Len(s) - 1 /\ l \in 0 .. N /\ l + 1 = m /\ m \in 0 .. N
    BY <1>1, <1>2, <2>1
  <2>3. HasTaken(s, f, l, encode, h[l]) /\ h[l] \in Parsers
    BY <1>6, <2>1, <2>2
  <2>4. h[m] = TakeChar(h[l], s[l + 1], encode)
    BY <1>4, <2>1, <2>2
  <2>5. HasTaken(s, f, l + 1, encode, h[m])
    BY <1>1, <1>3, <2>2, <2>3, <2>4, TakenMore
  <2> QED BY <2>2, <2>5
<1> HIDE DEF T
<1>7. HasTaken(s, f, N, encode, h[N]) /\ h[N] \in Parsers
  <2>1. \A n \in 0 .. N : n \in T
    BY <1>2, <1>5, <1>6, UpToN
  <2> QED BY <1>2, <2>1 DEF T
<1>8. PICK k : k = h[N]
  OBVIOUS
<1>9. PICK n \in 0 .. N : n < Rest(f[n]) /\ ReadBehind(s, f[n], N, encode, k)
  BY <1>1, <1>7, <1>8 DEF HasTaken
<1>10. PICK t : t = f[n]
  OBVIOUS
<1>11. /\ t \in Spans /\ k.sets = PairsAt(s, t, encode) /\ Rest(t) \in 1 .. N + 1 /\ n < Rest(t)
       /\ ReadBehind(s, t, N, encode, k) /\ k \in Parsers /\ Rest(t) \in Nat
  BY <1>2, <1>7, <1>8, <1>9, <1>10 DEF SpansIn, ReadBehind
<1>12. CASE k.state = 1
  <2>1. \A j \in Rest(t) .. N : s[j] # "="
    BY <1>11, <1>12 DEF ReadBehind
  <2>2. Next1(s, "=", Rest(t)) = N + 1
    BY <1>1, <1>2, <1>11, <2>1, FoundNowhere
  <2>3. OneMoreSpan(s, t) = t
    BY <1>1, <1>2, <2>2 DEF OneMoreSpan
  <2>4. f[N] = t
    BY <1>1, <1>2, <1>3, <1>10, <2>3, SpansStay
  <2> QED BY <1>3, <1>4, <1>8, <1>11, <1>12, <2>4
<1>13. CASE k.state = 2
  <2>1. PICK eq \in Rest(t) .. N :
             /\ s[eq] = "=" /\ \A j \in Rest(t) .. eq - 1 : s[j] # "="
             /\ \A j \in eq + 1 .. N : s[j] # "&"
             /\ k.key = MeaningOf(SubSeq(s, Rest(t), eq - 1), encode)
             /\ InPart(s, eq + 1, N, encode, k)
    BY <1>11, <1>13 DEF ReadBehind, InValue
  <2>2. eq \in Nat /\ eq + 1 \in Nat /\ ~(eq > N) /\ n + 1 \in 1 .. N /\ (n + 1) - 1 = n
        /\ n + 1 \in 0 .. N /\ N + 1 \in Nat /\ (N + 1) - 1 = N /\ N + 2 \in Nat
        /\ (N + 1) + 1 = N + 2
    BY <1>2, <1>11, <2>1
  <2>3. PICK x, y : x = <<Rest(t), eq, N + 1>> /\ y = <<k.key, k.buf>>
    OBVIOUS
  <2>4. x \in Nat \X Nat \X Nat /\ x[1] = Rest(t) /\ x[2] = eq /\ x[3] = N + 1
    BY <1>11, <2>2, <2>3
  <2>5. PairOf(s, x, encode) = y
    BY <2>1, <2>2, <2>3, <2>4 DEF PairOf, InPart
  <2>6. Append(k.sets, y) = PairsAt(s, Append(t, x), encode)
    <3> DEFINE E == Seq(Symbols) \X Seq(Symbols)
    <3>1. k.sets \in Seq(E) /\ y \in E
      BY <1>11, <2>3 DEF Parsers
    <3> HIDE DEF E
    <3> QED BY <1>11, <2>4, <2>5, <3>1, OnePairMore
  <2>7. Next1(s, "=", Rest(t)) = eq
    BY <1>1, <1>2, <1>11, <2>1, FoundAt
  <2>8. Next1(s, "&", eq + 1) = N + 1
    BY <1>1, <1>2, <2>1, <2>2, FoundNowhere
  <2>9. OneMoreSpan(s, t) = Append(t, x)
    BY <1>1, <2>2, <2>3, <2>7, <2>8 DEF OneMoreSpan
  <2>10. f[n + 1] = Append(t, x)
    BY <1>3, <1>10, <2>2, <2>9
  <2>11. Append(t, x) \in Spans /\ Rest(Append(t, x)) = N + 2
    BY <1>11, <2>2, <2>4, RestOf
  <2>12. \A j \in N + 2 .. N : FALSE
    BY <1>2
  <2>13. Next1(s, "=", N + 2) = N + 1
    BY <1>1, <1>2, <2>2, <2>12, FoundNowhere
  <2>14. OneMoreSpan(s, Append(t, x)) = Append(t, x)
    BY <1>1, <1>2, <2>11, <2>13 DEF OneMoreSpan
  <2>15. f[N] = Append(t, x)
    <3>1. PICK l : l = n + 1
      OBVIOUS
    <3>2. l \in 0 .. N /\ f[l] = Append(t, x) /\ OneMoreSpan(s, f[l]) = f[l]
      BY <2>2, <2>10, <2>14, <3>1
    <3>3. f[N] = f[l]
      BY <1>1, <1>2, <1>3, <3>2, SpansStay
    <3> QED BY <3>2, <3>3
  <2>16. Blocking(s, encode) = Append(k.sets, y)
    BY <1>4, <1>8, <1>13, <2>3
  <2> QED BY <1>3, <2>6, <2>11, <2>15, <2>16
<1> QED BY <1>11, <1>12, <1>13 DEF Parsers

(* What a head means says yes or no to unescaping.                         *)
LEMMA EncodeIs ==
  ASSUME NEW L, NEW lines \in Seq(L), NEW V, 0 \in V, LengthsIn(lines, V)
  PROVE  BlockingHead(lines).encode \in BOOLEAN
<1>1. /\ Refused.encode = FALSE /\ Crashed.encode = FALSE
      /\ \A t : Gets(t).encode = FALSE
      /\ \A n : \A e \in BOOLEAN : Posts(n, e).encode \in BOOLEAN
  BY DEF Refused, Crashed, Gets, Posts
<1>2. CASE lines = <<>> \/ ~FirstLine(lines[1])
  BY <1>1, <1>2 DEF BlockingHead
<1>3. CASE ~(lines = <<>> \/ ~FirstLine(lines[1]))
  <2>1. PICK h : h = Lines(lines, NothingRead)
    OBVIOUS
  <2>2. NothingRead \in Found(V) /\ NothingRead.crashed = FALSE /\ Len(lines) \in Nat \ {0}
    BY <1>3 DEF NothingRead, Found
  <2>3. \E f \in [0 .. Len(lines) - 1 -> Found(V)] : Lines(lines, NothingRead) = f[Len(lines) - 1]
    BY <2>2, LinesBy
  <2>4. h.encode \in BOOLEAN
    BY <2>1, <2>2, <2>3 DEF Found
  <2>5. BlockingHead(lines) = Judged(lines[1], h)
    BY <1>3, <2>1 DEF BlockingHead
  <2> QED BY <1>1, <2>4, <2>5 DEF Judged
<1> QED BY <1>2, <1>3

(* The blocking parser of assignment 2 stores the pairs of every body the  *)
(* program may be sent, in their order, each part unescaped if the head    *)
(* says so; then the escapes are whole (webserver_fork.c:133-199).         *)
THEOREM PairsStored == BodySpec => []BlockingRight
<1>1. BodyInv => BlockingRight
  <2> SUFFICES ASSUME BodyInv PROVE BlockingRight
    OBVIOUS
  <2>1. body \in Seq(STRING) /\ head \in Seq(ToSet(head)) /\ LengthsIn(head, 0 .. MaxBody)
    BY PlanIs DEF BodyInv, head, body
  <2>2. MaxBody \in Nat
    BY PostBodyAssumption
  <2>3. EscapesWhole(body) => Whole(body)
    BY <2>1 DEF EscapesWhole, Whole
  <2>4. PICK e : e = BlockingHead(head).encode
    OBVIOUS
  <2>5. e \in BOOLEAN
    <3>1. 0 \in 0 .. MaxBody
      BY <2>2
    <3> QED BY <2>1, <2>4, <3>1, EncodeIs
  <2>6. PICK spans, parts : spans = SpansOf(body) /\ parts = PairsOf(body)
    OBVIOUS
  <2> SUFFICES ASSUME e => EscapesWhole(body)
               PROVE  Blocking(body, e) =
                        [n \in DOMAIN parts |->
                           <<MeaningOf(parts[n][1], e), MeaningOf(parts[n][2], e)>>]
    BY <2>4, <2>6 DEF BlockingRight, MeaningOf
  <2>7. Blocking(body, e) = PairsAt(body, spans, e) /\ spans \in Spans
    BY <2>1, <2>3, <2>5, <2>6, StoresPairs
  <2>8. DOMAIN spans = 1 .. Len(spans)
    BY <2>7 DEF Spans
  <2>9. parts = [n \in 1 .. Len(spans) |->
                   <<SubSeq(body, spans[n][1], spans[n][2] - 1),
                     SubSeq(body, spans[n][2] + 1, spans[n][3] - 1)>>]
    BY <2>6, <2>8 DEF PairsOf
  <2>10. DOMAIN parts = 1 .. Len(spans)
    BY <2>9
  <2>11. ASSUME NEW n \in 1 .. Len(spans)
         PROVE  PairOf(body, spans[n], e) = <<MeaningOf(parts[n][1], e), MeaningOf(parts[n][2], e)>>
    BY <2>9 DEF PairOf
  <2> QED BY <2>7, <2>10, <2>11 DEF PairsAt
<1> QED BY <1>1, BodyInvHolds, PTL
-----------------------------------------------------------------------------
(* What Redis holds after these commands.                                  *)

PartsOf(pairs, k) == [n \in 1 .. Len(pairs) |-> IF pairs[n][1] = k THEN pairs[n][2] ELSE <<>>]

LEMMA SeqFrom ==
  ASSUME NEW N \in Nat, NEW S, NEW f \in [1 .. N -> S]
  PROVE  f \in Seq(S) /\ Len(f) = N
OBVIOUS

LEMMA PairIs ==
  /\ \A k, v \in Seq(Chars) : <<k, v>> \in Pairs
  /\ \A x \in Pairs : x[1] \in Seq(Chars) /\ x[2] \in Seq(Chars)
BY DEF Pairs

LEMMA TotalMore ==
  ASSUME NEW a \in Stores, NEW x \in Pairs, NEW k
  PROVE  /\ Total(a, k) \in Seq(Chars) /\ KeysOf(Append(a, x)) = KeysOf(a) \cup {x[1]}
         /\ Total(Append(a, x), k) = IF x[1] = k THEN Total(a, k) \o x[2] ELSE Total(a, k)
<1> DEFINE part(y) == IF y[1] = k THEN y[2] ELSE <<>>
           N == Len(a)
           parts == PartsOf(a, k)
           more == PartsOf(Append(a, x), k)
<1>1. /\ N \in Nat /\ Len(Append(a, x)) = N + 1 /\ Append(a, x)[N + 1] = x
      /\ \A n \in 1 .. N : Append(a, x)[n] = a[n]
      /\ \A n \in 1 .. N : a[n] \in Pairs
      /\ DOMAIN a = 1 .. N /\ DOMAIN Append(a, x) = 1 .. N + 1
  BY AppendIs DEF Stores
<1>2. \A y \in Pairs : part(y) \in Seq(Chars)
  BY PairIs
<1>3. parts = [n \in 1 .. N |-> part(a[n])] /\ more = [n \in 1 .. N + 1 |-> part(Append(a, x)[n])]
  BY <1>1 DEF PartsOf
<1>4. Total(a, k) = Joined(parts) /\ Total(Append(a, x), k) = Joined(more)
  BY DEF Total, PartsOf
<1>5. KeysOf(Append(a, x)) = KeysOf(a) \cup {x[1]}
  <2>1. PICK b : b = Append(a, x)
    OBVIOUS
  <2>2. /\ DOMAIN b = 1 .. N + 1 /\ DOMAIN a = 1 .. N /\ b[N + 1] = x
        /\ \A n \in 1 .. N : b[n] = a[n]
        /\ \A n \in 1 .. N + 1 : n \in 1 .. N \/ n = N + 1
        /\ N + 1 \in 1 .. N + 1 /\ \A n \in 1 .. N : n \in 1 .. N + 1
    BY <1>1, <2>1
  <2>3. ASSUME NEW l PROVE l \in KeysOf(b) <=> l \in KeysOf(a) \/ l = x[1]
    BY ONLY <2>2 DEF KeysOf
  <2> QED BY <2>1, <2>3
<1> HIDE DEF parts, more, part
<1>6. parts \in [1 .. N -> Seq(Chars)] /\ \A n \in 1 .. N : parts[n] = part(a[n])
  BY <1>1, <1>2, <1>3
<1>7. parts \in Seq(Seq(Chars)) /\ Len(parts) = N /\ part(x) \in Seq(Chars)
  BY <1>1, <1>2, <1>6, SeqFrom
<1>8. /\ Append(parts, part(x)) \in Seq(Seq(Chars)) /\ Len(Append(parts, part(x))) = N + 1
      /\ Append(parts, part(x))[N + 1] = part(x)
      /\ \A n \in 1 .. N : Append(parts, part(x))[n] = parts[n]
  BY <1>7, AppendIs
<1>9. \A n \in 1 .. N + 1 : more[n] = Append(parts, part(x))[n]
  <2> TAKE n \in 1 .. N + 1
  <2>1. n \in 1 .. N \/ n = N + 1
    BY <1>1
  <2>2. more[n] = part(Append(a, x)[n])
    BY <1>3
  <2> QED BY <1>1, <1>6, <1>8, <2>1, <2>2
<1>10. more \in Seq(Seq(Chars)) /\ Len(more) = N + 1
  <2>1. \A n \in 1 .. N + 1 : Append(parts, part(x))[n] \in Seq(Chars)
    BY <1>1, <1>8
  <2>2. N + 1 \in Nat /\ more \in [1 .. N + 1 -> Seq(Chars)]
    BY <1>1, <1>3, <1>9, <2>1
  <2> QED BY <2>2, SeqFrom
<1>11. more = Append(parts, part(x))
  BY <1>8, <1>9, <1>10, SeqEqual
<1>12. Joined(more) = Joined(parts) \o part(x) /\ Joined(parts) \in Seq(Chars)
  BY <1>7, <1>11, JoinedAppend, JoinedType
<1>13. x[1] # k => Joined(parts) \o part(x) = Joined(parts)
  BY <1>12, ConcatEmptySeq DEF part
<1> QED BY <1>4, <1>5, <1>12, <1>13 DEF part

(* The same keys with the same values. *)
SameStore(a, b) == KeysOf(a) = KeysOf(b) /\ \A k : Total(a, k) = Total(b, k)

LEMMA SameMore ==
  ASSUME NEW a \in Stores, NEW b \in Stores, SameStore(a, b), NEW x \in Pairs
  PROVE  SameStore(Append(a, x), Append(b, x))
<1>1. KeysOf(Append(a, x)) = KeysOf(a) \cup {x[1]} /\ KeysOf(Append(b, x)) = KeysOf(b) \cup {x[1]}
  BY TotalMore
<1>2. ASSUME NEW k PROVE Total(Append(a, x), k) = Total(Append(b, x), k)
  <2>1. /\ Total(Append(a, x), k) = IF x[1] = k THEN Total(a, k) \o x[2] ELSE Total(a, k)
        /\ Total(Append(b, x), k) = IF x[1] = k THEN Total(b, k) \o x[2] ELSE Total(b, k)
    BY TotalMore
  <2>2. Total(a, k) = Total(b, k)
    BY DEF SameStore
  <2> QED BY <2>1, <2>2
<1> QED BY <1>1, <1>2 DEF SameStore

LEMMA TextsAssociate ==
  \A x, y, z \in Seq(Chars) : (x \o y) \o z = x \o (y \o z)
BY Associative

LEMMA SameLonger ==
  ASSUME NEW a \in Stores, NEW b \in Stores,
         NEW k \in Seq(Chars), NEW u \in Seq(Chars), NEW w \in Seq(Chars),
         SameStore(a, Append(b, <<k, u>>))
  PROVE  SameStore(Append(a, <<k, w>>), Append(b, <<k, u \o w>>))
<1>1. PICK x, y, z : x = <<k, u>> /\ y = <<k, w>> /\ z = <<k, u \o w>>
  OBVIOUS
<1>2. x \in Pairs /\ y \in Pairs /\ z \in Pairs /\ x[1] = k /\ y[1] = k /\ z[1] = k
      /\ x[2] = u /\ y[2] = w /\ z[2] = u \o w
  <2>1. u \o w \in Seq(Chars)
    BY ConcatProperties
  <2> QED BY <1>1, <2>1, PairIs
<1>3. /\ KeysOf(Append(a, y)) = KeysOf(a) \cup {k} /\ KeysOf(Append(b, z)) = KeysOf(b) \cup {k}
      /\ KeysOf(Append(b, x)) = KeysOf(b) \cup {k}
  <2>1. KeysOf(Append(a, y)) = KeysOf(a) \cup {y[1]}
    BY ONLY <1>2, a \in Stores, TotalMore
  <2>2. KeysOf(Append(b, z)) = KeysOf(b) \cup {z[1]}
    BY ONLY <1>2, b \in Stores, TotalMore
  <2>3. KeysOf(Append(b, x)) = KeysOf(b) \cup {x[1]}
    BY ONLY <1>2, b \in Stores, TotalMore
  <2> QED BY ONLY <1>2, <2>1, <2>2, <2>3, Zenon
<1>4. KeysOf(a) = KeysOf(Append(b, x)) /\ \A i : Total(a, i) = Total(Append(b, x), i)
  BY <1>1 DEF SameStore
<1>5. ASSUME NEW i PROVE Total(Append(a, y), i) = Total(Append(b, z), i)
  <2>1. /\ Total(Append(a, y), i) = IF k = i THEN Total(a, i) \o w ELSE Total(a, i)
        /\ Total(Append(b, z), i) = IF k = i THEN Total(b, i) \o (u \o w) ELSE Total(b, i)
        /\ Total(Append(b, x), i) = IF k = i THEN Total(b, i) \o u ELSE Total(b, i)
        /\ Total(b, i) \in Seq(Chars)
    <3>1. Total(Append(a, y), i) = IF y[1] = i THEN Total(a, i) \o y[2] ELSE Total(a, i)
      BY ONLY <1>2, a \in Stores, TotalMore
    <3>2. Total(Append(b, z), i) = IF z[1] = i THEN Total(b, i) \o z[2] ELSE Total(b, i)
      BY ONLY <1>2, b \in Stores, TotalMore
    <3>3. Total(Append(b, x), i) = IF x[1] = i THEN Total(b, i) \o x[2] ELSE Total(b, i)
      BY ONLY <1>2, b \in Stores, TotalMore
    <3>4. Total(b, i) \in Seq(Chars)
      BY ONLY <1>2, b \in Stores, TotalMore
    <3>5. y[1] = k /\ z[1] = k /\ x[1] = k /\ y[2] = w /\ z[2] = u \o w /\ x[2] = u
      BY ONLY <1>2
    <3>6. Total(Append(a, y), i) = IF k = i THEN Total(a, i) \o w ELSE Total(a, i)
      BY ONLY <3>1, <3>5, Zenon
    <3>7. Total(Append(b, z), i) = IF k = i THEN Total(b, i) \o (u \o w) ELSE Total(b, i)
      BY ONLY <3>2, <3>5, Zenon
    <3>8. Total(Append(b, x), i) = IF k = i THEN Total(b, i) \o u ELSE Total(b, i)
      BY ONLY <3>3, <3>5, Zenon
    <3> QED BY ONLY <3>4, <3>6, <3>7, <3>8, Zenon
  <2>2. (Total(b, i) \o u) \o w = Total(b, i) \o (u \o w)
    <3>1. Total(b, i) \in Seq(Chars)
      BY ONLY <2>1
    <3> QED BY ONLY <3>1, u \in Seq(Chars), w \in Seq(Chars), TextsAssociate, Zenon
  <2> QED BY <1>4, <2>1, <2>2
<1>6. KeysOf(Append(a, y)) = KeysOf(Append(b, z))
  BY <1>3, <1>4
<1>7. SameStore(Append(a, y), Append(b, z))
  BY <1>5, <1>6 DEF SameStore
<1> QED BY <1>1, <1>7
-----------------------------------------------------------------------------
(* Where the pairs of a body are.                                          *)

(* The next pair begins behind the first i. *)
Start(spans, i) == IF i = 0 THEN 1 ELSE spans[i][3] + 1

SpanIs(s, begin, x) ==
  /\ x \in Nat \X Nat \X Nat /\ x[1] = begin
  /\ x[2] \in begin .. Len(s) /\ s[x[2]] = "="
  /\ \A j \in begin .. x[2] - 1 : s[j] # "="
  /\ x[3] \in x[2] + 1 .. Len(s) + 1 /\ (x[3] <= Len(s) => s[x[3]] = "&")
  /\ \A j \in x[2] + 1 .. x[3] - 1 : s[j] # "&"

SpansAre(s, t) == t \in Spans /\ \A i \in 1 .. Len(t) : SpanIs(s, Start(t, i - 1), t[i])

NoMore(s, t) == \A j \in Rest(t) .. Len(s) : s[j] # "="

LEMMA StartIs ==
  ASSUME NEW t \in Spans
  PROVE  Rest(t) = Start(t, Len(t))
<1>1. t = <<>> <=> Len(t) = 0
  BY DEF Spans
<1> QED BY <1>1 DEF Rest, Start

LEMMA SpanFound ==
  ASSUME NEW s, Len(s) \in Nat, NEW t, SpansAre(s, t), Rest(t) \in 1 .. Len(s) + 2
  PROVE  \/ OneMoreSpan(s, t) = t /\ NoMore(s, t)
         \/ /\ SpansAre(s, OneMoreSpan(s, t)) /\ Rest(OneMoreSpan(s, t)) \in Rest(t) + 1 .. Len(s) + 2
            /\ ~NoMore(s, t)
<1>0. PICK b, eq, amp : b = Rest(t) /\ eq = Next1(s, "=", b) /\ amp = Next1(s, "&", eq + 1)
  OBVIOUS
<1>1. b \in Nat /\ b \in 1 .. Len(s) + 2 /\ t \in Spans
  BY <1>0 DEF SpansAre
<1>2. CASE b = Len(s) + 2
  <2>1. \A j \in b .. Len(s) : FALSE
    BY <1>1, <1>2
  <2>2. eq = Len(s) + 1
    BY <1>0, <1>1, <2>1, FoundNowhere
  <2>3. OneMoreSpan(s, t) = t
    BY <1>0, <2>2 DEF OneMoreSpan
  <2> QED BY <1>0, <2>1, <2>3 DEF NoMore
<1>3. CASE b # Len(s) + 2
  <2>1. b <= Len(s) + 1
    BY <1>1, <1>3
  <2>2. /\ eq \in b .. Len(s) + 1 /\ (eq <= Len(s) => s[eq] = "=")
        /\ \A j \in b .. eq - 1 : s[j] # "="
    BY <1>0, <1>1, <2>1, FoundPlace
  <2>3. CASE eq > Len(s)
    <3>1. OneMoreSpan(s, t) = t
      BY <1>0, <2>3 DEF OneMoreSpan
    <3>2. eq - 1 = Len(s)
      BY <1>1, <2>2, <2>3
    <3> QED BY <1>0, <2>2, <3>1, <3>2 DEF NoMore
  <2>4. CASE ~(eq > Len(s))
    <3>1. eq \in Nat /\ eq + 1 \in Nat /\ eq + 1 <= Len(s) + 1 /\ eq \in b .. Len(s)
      BY <1>1, <2>2, <2>4
    <3>2. /\ amp \in eq + 1 .. Len(s) + 1 /\ (amp <= Len(s) => s[amp] = "&")
          /\ \A j \in eq + 1 .. amp - 1 : s[j] # "&"
      BY <1>0, <3>1, FoundPlace
    <3>3. PICK x : x = <<b, eq, amp>>
      OBVIOUS
    <3>4. OneMoreSpan(s, t) = Append(t, x)
      BY <1>0, <2>4, <3>3 DEF OneMoreSpan
    <3>5. s[eq] = "=" /\ ~NoMore(s, t)
      BY <1>0, <2>2, <3>1 DEF NoMore
    <3>6. x \in Nat \X Nat \X Nat /\ x[1] = b /\ x[2] = eq /\ x[3] = amp
      BY <1>1, <3>1, <3>2, <3>3
    <3>7. SpanIs(s, b, x)
      BY <2>2, <3>1, <3>2, <3>5, <3>6 DEF SpanIs
    <3>8. PICK u : u = Append(t, x)
      OBVIOUS
    <3>9. /\ u \in Spans /\ Len(u) = Len(t) + 1 /\ Len(t) \in Nat /\ u[Len(t) + 1] = x
          /\ \A i \in 1 .. Len(t) : u[i] = t[i]
      BY <1>1, <3>6, <3>8, AppendIs DEF Spans
    <3>10. \A i \in 0 .. Len(t) : Start(u, i) = Start(t, i)
      <4>1. \A i \in 0 .. Len(t) : i = 0 \/ i \in 1 .. Len(t)
        BY <3>9
      <4> QED BY <3>9, <4>1 DEF Start
    <3>11. Start(u, Len(t)) = b
      BY <1>0, <1>1, <3>9, <3>10, StartIs
    <3>12. ASSUME NEW i \in 1 .. Len(u) PROVE SpanIs(s, Start(u, i - 1), u[i])
      <4>1. i \in 1 .. Len(t) \/ i = Len(t) + 1
        BY <3>9
      <4>2. CASE i \in 1 .. Len(t)
        <5>1. i - 1 \in 0 .. Len(t)
          BY <3>9, <4>2
        <5> QED BY <3>9, <3>10, <4>2, <5>1 DEF SpansAre
      <4>3. CASE i = Len(t) + 1
        <5>1. i - 1 = Len(t)
          BY <3>9, <4>3
        <5> QED BY <3>7, <3>9, <3>11, <4>3, <5>1
      <4> QED BY <4>1, <4>2, <4>3
    <3>13. Rest(u) = amp + 1
      BY <1>1, <3>6, <3>8, RestOf
    <3>14. Rest(u) \in b + 1 .. Len(s) + 2
      BY <1>1, <3>1, <3>2, <3>13
    <3> QED BY <1>0, <3>4, <3>5, <3>8, <3>9, <3>12, <3>14 DEF SpansAre
  <2> QED BY <2>3, <2>4
<1> QED BY <1>2, <1>3

LEMMA SpansOfAre ==
  ASSUME NEW s, Len(s) \in Nat
  PROVE  SpansAre(s, SpansOf(s)) /\ NoMore(s, SpansOf(s)) /\ Rest(SpansOf(s)) \in 1 .. Len(s) + 2
<1>1. PICK N : N = Len(s)
  OBVIOUS
<1>2. PICK f \in [0 .. N -> SpansIn(N)] :
        /\ f[0] = <<>> /\ \A n \in 1 .. N : f[n] = OneMoreSpan(s, f[n - 1])
        /\ SpansOf(s) = f[N]
  BY <1>1, SpansBy
<1> DEFINE Good(n) == /\ SpansAre(s, f[n]) /\ Rest(f[n]) \in 1 .. N + 2
                      /\ NoMore(s, f[n]) \/ Rest(f[n]) > n
           T == {n \in 0 .. N : Good(n)}
<1>3. 0 \in T
  <2>1. <<>> \in Spans /\ Len(<<>>) = 0 /\ Rest(<<>>) = 1
    BY DEF Spans, Rest
  <2>2. SpansAre(s, <<>>)
    BY <2>1 DEF SpansAre
  <2>3. 1 \in 1 .. N + 2 /\ 1 > 0 /\ 0 \in 0 .. N
    BY <1>1
  <2> QED BY <1>2, <2>1, <2>2, <2>3
<1>4. ASSUME NEW n \in 1 .. N, n - 1 \in T PROVE n \in T
  <2>1. n \in 0 .. N /\ n - 1 \in 0 .. N /\ n \in Nat
    BY <1>1
  <2>2. PICK t, u : t = f[n - 1] /\ u = OneMoreSpan(s, t)
    OBVIOUS
  <2>3. /\ SpansAre(s, t) /\ Rest(t) \in 1 .. N + 2
        /\ (NoMore(s, t) \/ Rest(t) > n - 1)
        /\ f[n] = u
    BY <1>2, <1>4, <2>2
  <2>4. \/ u = t /\ NoMore(s, t)
        \/ SpansAre(s, u) /\ Rest(u) \in Rest(t) + 1 .. N + 2 /\ ~NoMore(s, t)
    BY <1>1, <2>2, <2>3, SpanFound
  <2>5. Good(n)
    BY <1>1, <2>1, <2>3, <2>4
  <2> QED BY <2>1, <2>5
<1> HIDE DEF T
<1>5. N \in T
  <2>1. \A n \in 0 .. N : n \in T
    BY <1>1, <1>3, <1>4, UpToN
  <2> QED BY <1>1, <2>1
<1>6. Good(N)
  BY <1>5 DEF T
<1>7. Rest(f[N]) > N => NoMore(s, f[N])
  BY <1>1, <1>6 DEF NoMore
<1> QED BY <1>1, <1>2, <1>6, <1>7

LEMMA SpansOk ==
  ASSUME NEW s \in Seq(STRING), NEW t, t = SpansOf(s)
  PROVE  SpansAre(s, t) /\ t \in Spans /\ Len(t) \in Nat /\ NoMore(s, t) /\ Len(s) \in Nat
<1>1. Len(s) \in Nat
  OBVIOUS
<1>2. SpansAre(s, t) /\ NoMore(s, t)
  BY <1>1, SpansOfAre
<1>3. t \in Spans
  BY <1>2 DEF SpansAre
<1>4. Len(t) \in Nat
  BY <1>3 DEF Spans
<1> QED BY <1>1, <1>2, <1>3, <1>4

-----------------------------------------------------------------------------
(* Its characters in buffers and commands.                                 *)

(* The first n cells hold the characters from a on. *)
Copied(b, n, s, a) == \A j \in 0 .. n - 1 : b[j] = s[a + j]

LEMMA TextIs ==
  ASSUME NEW s \in Seq(STRING), NEW a \in Nat \ {0}, NEW n \in Nat, a + n <= Len(s) + 1
  PROVE  /\ SubSeq(s, a, a + n - 1) \in Seq(Chars) /\ Len(SubSeq(s, a, a + n - 1)) = n
         /\ \A j \in 1 .. n : SubSeq(s, a, a + n - 1)[j] = s[a + j - 1]
<1>1. PICK E : E = STRING
  OBVIOUS
<1>2. s \in Seq(E) /\ E \subseteq Chars
  BY <1>1 DEF Chars
<1>3. PICK m : m = a + n - 1
  OBVIOUS
<1>4. m \in Int /\ a \in Int /\ m <= Len(s) /\ m - a + 1 = n /\ a <= m + 1
  BY <1>2, <1>3
<1>5. \A i \in a .. m : i \in 1 .. Len(s)
  BY <1>2, <1>4
<1>6. \A j \in 1 .. n : a + j - 1 \in a .. m /\ a + j - 1 \in 1 .. Len(s)
  BY <1>2, <1>4
<1>7. SubSeq(s, a, m) = [j \in 1 .. n |-> s[a + j - 1]]
  BY <1>2, <1>4
<1>8. \A j \in 1 .. n : s[a + j - 1] \in Chars
  BY <1>2, <1>6
<1>9. SubSeq(s, a, m) \in [1 .. n -> Chars]
  BY <1>7, <1>8
<1>10. SubSeq(s, a, m) \in Seq(Chars) /\ Len(SubSeq(s, a, m)) = n
  BY <1>9, SeqFrom
<1> QED BY <1>3, <1>7, <1>10

LEMMA TextTo ==
  ASSUME NEW s \in Seq(STRING), NEW a \in Nat \ {0}, NEW z \in Int, a <= z + 1, z <= Len(s)
  PROVE  /\ SubSeq(s, a, z) \in Seq(Chars) /\ Len(SubSeq(s, a, z)) = z - a + 1
         /\ \A j \in 1 .. z - a + 1 : SubSeq(s, a, z)[j] = s[a + j - 1]
<1>1. PICK n : n = z - a + 1
  OBVIOUS
<1>2. n \in Nat /\ a + n - 1 = z /\ a + n <= Len(s) + 1
  BY <1>1
<1>3. /\ SubSeq(s, a, a + n - 1) \in Seq(Chars) /\ Len(SubSeq(s, a, a + n - 1)) = n
      /\ \A j \in 1 .. n : SubSeq(s, a, a + n - 1)[j] = s[a + j - 1]
  BY <1>2, TextIs
<1> QED BY <1>1, <1>2, <1>3

LEMMA CopiedText ==
  ASSUME NEW s \in Seq(STRING), NEW a \in Nat \ {0}, NEW n \in Nat, a + n <= Len(s) + 1,
         NEW b, Copied(b, n, s, a)
  PROVE  Bytes(b, n) = SubSeq(s, a, a + n - 1)
<1>1. PICK t, u : t = SubSeq(s, a, a + n - 1) /\ u = Bytes(b, n)
  OBVIOUS
<1>2. t \in Seq(Chars) /\ Len(t) = n /\ \A j \in 1 .. n : t[j] = s[a + j - 1]
  BY <1>1, TextIs
<1>3. u = [j \in 1 .. n |-> b[j - 1]]
  BY <1>1 DEF Bytes
<1>4. ASSUME NEW j \in 1 .. n PROVE u[j] = t[j]
  <2>1. j - 1 \in 0 .. n - 1 /\ a + (j - 1) = a + j - 1
    OBVIOUS
  <2>2. b[j - 1] = s[a + (j - 1)]
    BY <2>1 DEF Copied
  <2> QED BY <1>2, <1>3, <2>1, <2>2
<1>5. u \in [1 .. n -> Chars]
  <2>1. \A j \in 1 .. n : t[j] \in Chars
    BY <1>2
  <2>2. \A j \in 1 .. n : u[j] \in Chars
    BY <1>4, <2>1
  <2> QED BY <1>3, <2>2
<1>6. u \in Seq(Chars) /\ Len(u) = n
  BY <1>5, SeqFrom
<1>7. u = t
  BY <1>2, <1>4, <1>6, SeqEqual
<1> QED BY <1>1, <1>7

LEMMA CopiedMore ==
  ASSUME NEW b \in Buffers, NEW n \in Nat, n <= KeySize, KeySize \in Nat, NEW s, NEW a \in Nat,
         Copied(b, n, s, a), NEW c
  PROVE  /\ Copied([b EXCEPT ![n] = c], n, s, a)
         /\ c = s[a + n] => Copied([b EXCEPT ![n] = c], n + 1, s, a)
<1>1. n \in 0 .. KeySize
  OBVIOUS
<1>2. [b EXCEPT ![n] = c][n] = c
  BY <1>1 DEF Buffers
<1>3. \A j \in 0 .. n - 1 : [b EXCEPT ![n] = c][j] = b[j]
  <2>1. \A j \in 0 .. n - 1 : j \in 0 .. KeySize /\ j # n
    OBVIOUS
  <2> QED BY <2>1 DEF Buffers
<1>4. \A j \in 0 .. (n + 1) - 1 : j \in 0 .. n - 1 \/ j = n
  OBVIOUS
<1> QED BY <1>2, <1>3, <1>4 DEF Copied

-----------------------------------------------------------------------------
(* The first i pairs, and the store after them. *)
FirstPairs(s, i) == SubSeq(PairsOf(s), 1, i)

PairAt(s, x) == <<SubSeq(s, x[1], x[2] - 1), SubSeq(s, x[2] + 1, x[3] - 1)>>

LEMMA PairTexts ==
  ASSUME NEW s \in Seq(STRING), NEW b \in Nat \ {0}, NEW x, SpanIs(s, b, x)
  PROVE  PairAt(s, x) \in Pairs
<1>1. x[1] = b /\ x[2] \in b .. Len(s) /\ x[3] \in x[2] + 1 .. Len(s) + 1 /\ Len(s) \in Nat
  BY DEF SpanIs
<1>2. PICK n, m, eq, amp : n = x[2] - b /\ m = x[3] - (x[2] + 1) /\ eq = x[2] /\ amp = x[3]
  OBVIOUS
<1>3. /\ n \in Nat /\ m \in Nat /\ eq - 1 = b + n - 1 /\ amp - 1 = (eq + 1) + m - 1
      /\ b + n <= Len(s) + 1 /\ (eq + 1) + m <= Len(s) + 1 /\ eq + 1 \in Nat \ {0}
  <2>1. /\ n = eq - b /\ m = amp - (eq + 1) /\ eq \in b .. Len(s) /\ amp \in eq + 1 .. Len(s) + 1
        /\ Len(s) \in Nat
    BY ONLY <1>1, <1>2
  <2> QED BY ONLY <2>1, b \in Nat \ {0}
<1>4. SubSeq(s, b, b + n - 1) \in Seq(Chars) /\ SubSeq(s, eq + 1, (eq + 1) + m - 1) \in Seq(Chars)
  BY <1>3, TextIs
<1>5. SubSeq(s, b, eq - 1) \in Seq(Chars) /\ SubSeq(s, eq + 1, amp - 1) \in Seq(Chars)
  BY <1>3, <1>4
<1> QED BY <1>1, <1>2, <1>5, PairIs DEF PairAt

LEMMA StartNat ==
  ASSUME NEW s, Len(s) \in Nat, NEW t, SpansAre(s, t), NEW i \in 0 .. Len(t)
  PROVE  Start(t, i) \in Nat \ {0}
<1>1. CASE i = 0
  BY <1>1 DEF Start
<1>2. CASE i # 0
  <2>1. i \in 1 .. Len(t)
    BY <1>2 DEF SpansAre, Spans
  <2>2. t[i][3] \in Nat
    BY <2>1 DEF SpansAre, Spans
  <2> QED BY <1>2, <2>2 DEF Start
<1> QED BY <1>1, <1>2

LEMMA FrontIs ==
  ASSUME NEW s \in Seq(STRING), NEW t, t = SpansOf(s)
  PROVE  /\ PairsOf(s) \in Stores /\ FirstPairs(s, Len(t)) = PairsOf(s) /\ FirstPairs(s, 0) = <<>>
         /\ Len(PairsOf(s)) = Len(t)
         /\ \A i \in 1 .. Len(t) : /\ FirstPairs(s, i - 1) \in Stores /\ PairAt(s, t[i]) \in Pairs
                                   /\ FirstPairs(s, i) = Append(FirstPairs(s, i - 1), PairAt(s, t[i]))
<1>1. SpansAre(s, t) /\ t \in Spans /\ Len(t) \in Nat
  BY ONLY s \in Seq(STRING), t = SpansOf(s), SpansOk
<1>2. PICK p : p = PairsOf(s)
  OBVIOUS
<1>3. p = [n \in 1 .. Len(t) |-> PairAt(s, t[n])]
  <2>1. DOMAIN t = 1 .. Len(t)
    BY <1>1 DEF Spans
  <2> QED BY <1>2, <2>1 DEF PairsOf, PairAt
<1>4. ASSUME NEW i \in 1 .. Len(t) PROVE PairAt(s, t[i]) \in Pairs
  <2>1. SpanIs(s, Start(t, i - 1), t[i])
    BY <1>1 DEF SpansAre
  <2>2. Start(t, i - 1) \in Nat \ {0}
    <3>1. i - 1 \in 0 .. Len(t)
      BY <1>1
    <3> QED BY <1>1, <3>1, StartNat
  <2> QED BY <2>1, <2>2, PairTexts
<1>5. p \in [1 .. Len(t) -> Pairs]
  BY <1>3, <1>4
<1>6. p \in Seq(Pairs) /\ Len(p) = Len(t)
  BY <1>1, <1>5, SeqFrom
<1>7. SubSeq(p, 1, Len(p)) = p /\ SubSeq(p, 1, 0) = <<>>
  BY <1>6, SubSeqFull, SubSeqEmpty
<1>8. ASSUME NEW i \in 1 .. Len(t)
      PROVE  /\ SubSeq(p, 1, i - 1) \in Seq(Pairs)
             /\ SubSeq(p, 1, i) = Append(SubSeq(p, 1, i - 1), PairAt(s, t[i]))
  BY <1>3, <1>6, Prefix
<1> QED BY <1>2, <1>4, <1>6, <1>7, <1>8 DEF FirstPairs, Stores

-----------------------------------------------------------------------------
(* How far the body is read and stored.                                    *)

(* The store has the first i pairs and the next one's value up to v - 1. *)
Held(s, t, sets_, i, v) ==
  SameStore(sets_, IF v = t[i + 1][2] + 1 THEN FirstPairs(s, i)
                   ELSE Append(FirstPairs(s, i), PairAt(s, <<t[i + 1][1], t[i + 1][2], v>>)))

(* m characters are read, n of them of a key behind i pairs. *)
AtKey(s, t, m, i, key, n, sets_) ==
  /\ i \in 0 .. Len(t) /\ Start(t, i) + n = m + 1 /\ (i < Len(t) => m < t[i + 1][2])
  /\ Copied(key, n, s, Start(t, i)) /\ SameStore(sets_, FirstPairs(s, i))

(* m characters are read, the last in the next pair's value. *)
AtValue(s, t, m, i, v, key, n, sets_) ==
  /\ i \in 0 .. Len(t) - 1 /\ t[i + 1][2] <= m /\ m < t[i + 1][3] /\ v \in t[i + 1][2] + 1 .. m + 1
  /\ Start(t, i) + n = t[i + 1][2] /\ Copied(key, n, s, Start(t, i))
  /\ Held(s, t, sets_, i, v)

Seps(t) == UNION {{span[2], span[3]} : span \in ToSet(t)}

(* These are the places of the next pair. *)
PairPlaces(s, t, i, b, eq, amp) ==
  /\ t[i + 1] = <<b, eq, amp>> /\ Start(t, i) = b /\ Start(t, i + 1) = amp + 1
  /\ b \in Nat \ {0} /\ eq \in b .. Len(s) /\ s[eq] = "=" /\ \A j \in b .. eq - 1 : s[j] # "="
  /\ amp \in eq + 1 .. Len(s) + 1 /\ (amp <= Len(s) => s[amp] = "&")
  /\ \A j \in eq + 1 .. amp - 1 : s[j] # "&"
  /\ eq \in Seps(t) /\ amp \in Seps(t)

LEMMA NextSpan ==
  ASSUME NEW s \in Seq(STRING), NEW t, t = SpansOf(s), NEW i \in 0 .. Len(t) - 1
  PROVE  \E b, eq, amp : PairPlaces(s, t, i, b, eq, amp)
<1>1. SpansAre(s, t) /\ t \in Spans /\ Len(t) \in Nat
  BY ONLY s \in Seq(STRING), t = SpansOf(s), SpansOk
<1>2. PICK x : x = t[i + 1]
  OBVIOUS
<1>3. i + 1 \in 1 .. Len(t) /\ (i + 1) - 1 = i /\ i \in 0 .. Len(t) /\ i + 1 # 0
  BY <1>1
<1>4. SpanIs(s, Start(t, i), x) /\ x \in Nat \X Nat \X Nat
  BY <1>1, <1>2, <1>3 DEF SpansAre, SpanIs
<1>5. Start(t, i) \in Nat \ {0}
  BY <1>1, <1>3, StartNat
<1>6. PICK b, eq, amp : b = Start(t, i) /\ eq = x[2] /\ amp = x[3]
  OBVIOUS
<1>7. x = <<b, eq, amp>>
  BY <1>4, <1>6 DEF SpanIs
<1>8. Start(t, i + 1) = amp + 1
  BY <1>2, <1>3, <1>6 DEF Start
<1>9. eq \in Seps(t) /\ amp \in Seps(t)
  <2>1. DOMAIN t = 1 .. Len(t)
    BY <1>1 DEF Spans
  <2>2. x \in ToSet(t)
    BY <1>2, <1>3, <2>1 DEF ToSet
  <2> QED BY <1>6, <2>2 DEF Seps
<1>10. /\ eq \in b .. Len(s) /\ s[eq] = "=" /\ \A j \in b .. eq - 1 : s[j] # "="
       /\ amp \in eq + 1 .. Len(s) + 1 /\ (amp <= Len(s) => s[amp] = "&")
       /\ \A j \in eq + 1 .. amp - 1 : s[j] # "&"
  BY ONLY <1>4, <1>6 DEF SpanIs
<1> QED BY <1>2, <1>5, <1>6, <1>7, <1>8, <1>9, <1>10 DEF PairPlaces

LEMMA KeyOn ==
  ASSUME NEW s \in Seq(STRING), NEW t, t = SpansOf(s), NEW m \in 0 .. Len(s) - 1, NEW i,
         NEW key \in Buffers, NEW n \in Nat, n <= KeySize, KeySize \in Nat, NEW sets_,
         AtKey(s, t, m, i, key, n, sets_), s[m + 1] # "="
  PROVE  AtKey(s, t, m + 1, i, [key EXCEPT ![n] = s[m + 1]], n + 1, sets_)
<1>1. /\ i \in 0 .. Len(t) /\ Start(t, i) + n = m + 1 /\ (i < Len(t) => m < t[i + 1][2])
      /\ Copied(key, n, s, Start(t, i)) /\ SameStore(sets_, FirstPairs(s, i))
  BY DEF AtKey
<1>2. SpansAre(s, t) /\ Len(t) \in Nat
  BY ONLY s \in Seq(STRING), t = SpansOf(s), SpansOk
<1>3. PICK b : b = Start(t, i)
  OBVIOUS
<1>4. b \in Nat /\ b + n = m + 1 /\ b + (n + 1) = (m + 1) + 1
  <2>1. b \in Nat \ {0}
    BY <1>1, <1>2, <1>3, StartNat
  <2> QED BY <1>1, <1>3, <2>1
<1>5. Copied([key EXCEPT ![n] = s[m + 1]], n + 1, s, b)
  BY <1>1, <1>3, <1>4, CopiedMore
<1>6. i < Len(t) => m + 1 < t[i + 1][2]
  <2> SUFFICES ASSUME i < Len(t) PROVE m + 1 < t[i + 1][2]
    OBVIOUS
  <2>1. PICK b1, eq, amp : PairPlaces(s, t, i, b1, eq, amp)
    BY <1>1, <1>2, NextSpan
  <2>2. eq = t[i + 1][2] /\ eq \in b1 .. Len(s) /\ s[eq] = "=" /\ b1 \in Nat
    BY <2>1 DEF PairPlaces
  <2>3. m < eq /\ eq # m + 1
    BY <1>1, <2>2
  <2> QED BY <2>2, <2>3
<1> QED BY <1>1, <1>3, <1>4, <1>5, <1>6 DEF AtKey

LEMMA KeyOver ==
  ASSUME NEW s \in Seq(STRING), NEW t, t = SpansOf(s), NEW m \in 0 .. Len(s) - 1, NEW i,
         NEW key, NEW n \in Nat, NEW sets_,
         AtKey(s, t, m, i, key, n, sets_), s[m + 1] = "=", NEW copy, Copied(copy, n, s, Start(t, i))
  PROVE  AtValue(s, t, m + 1, i, m + 2, copy, n, sets_) /\ m + 1 \in Seps(t)
<1>1. /\ i \in 0 .. Len(t) /\ Start(t, i) + n = m + 1 /\ (i < Len(t) => m < t[i + 1][2])
      /\ SameStore(sets_, FirstPairs(s, i))
  BY DEF AtKey
<1>2. SpansAre(s, t) /\ Len(t) \in Nat /\ NoMore(s, t) /\ t \in Spans
  BY ONLY s \in Seq(STRING), t = SpansOf(s), SpansOk
<1>3. PICK b : b = Start(t, i)
  OBVIOUS
<1>4. b \in Nat \ {0} /\ b + n = m + 1 /\ m + 1 \in b .. Len(s)
  <2>1. b \in Nat \ {0}
    BY <1>1, <1>2, <1>3, StartNat
  <2> QED BY <1>1, <1>3, <2>1
<1>5. i \in 0 .. Len(t) - 1
  <2>1. i = Len(t) => FALSE
    <3>1. i = Len(t) => b = Rest(t)
      BY <1>2, <1>3, StartIs
    <3> QED BY <1>2, <1>4, <3>1 DEF NoMore
  <2> QED BY <1>1, <1>2, <2>1
<1>6. PICK b1, eq, amp : PairPlaces(s, t, i, b1, eq, amp)
  BY <1>5, NextSpan
<1>7. /\ t[i + 1] = <<b1, eq, amp>> /\ b1 = b /\ eq \in b .. Len(s)
      /\ \A j \in b .. eq - 1 : s[j] # "="
      /\ amp \in eq + 1 .. Len(s) + 1 /\ eq \in Seps(t)
  BY <1>3, <1>6 DEF PairPlaces
<1>8. t[i + 1][2] = eq /\ t[i + 1][3] = amp
  BY <1>7
<1>9. m < eq
  BY <1>1, <1>5, <1>8
<1>10. eq = m + 1
  <2>1. ~(m + 1 \in b .. eq - 1)
    BY <1>7
  <2> QED BY <1>4, <1>7, <1>9, <2>1
<1>11. m + 2 = eq + 1 /\ m + 2 \in eq + 1 .. (m + 1) + 1 /\ m + 1 < amp
  BY <1>7, <1>10
<1>12. Held(s, t, sets_, i, m + 2)
  BY <1>1, <1>8, <1>11 DEF Held
<1>13. t[i + 1][2] <= m + 1 /\ m + 1 < t[i + 1][3] /\ m + 1 \in Seps(t)
  BY ONLY <1>7, <1>8, <1>10, <1>11
<1>14. m + 2 \in t[i + 1][2] + 1 .. (m + 1) + 1 /\ Start(t, i) + n = t[i + 1][2]
  BY ONLY <1>3, <1>4, <1>8, <1>10, <1>11
<1> QED BY ONLY <1>5, <1>12, <1>13, <1>14, Copied(copy, n, s, Start(t, i)) DEF AtValue

LEMMA ValueOn ==
  ASSUME NEW s \in Seq(STRING), NEW t, t = SpansOf(s), NEW m \in 0 .. Len(s) - 1, NEW i, NEW v,
         NEW key, NEW n, NEW sets_, AtValue(s, t, m, i, v, key, n, sets_), s[m + 1] # "&"
  PROVE  AtValue(s, t, m + 1, i, v, key, n, sets_)
<1>1. i \in 0 .. Len(t) - 1 /\ t[i + 1][2] <= m /\ m < t[i + 1][3] /\ v \in t[i + 1][2] + 1 .. m + 1
  BY DEF AtValue
<1>2. PICK b, eq, amp : PairPlaces(s, t, i, b, eq, amp)
  BY <1>1, NextSpan
<1>3. /\ t[i + 1] = <<b, eq, amp>> /\ eq \in b .. Len(s) /\ amp \in eq + 1 .. Len(s) + 1
      /\ (amp <= Len(s) => s[amp] = "&") /\ b \in Nat
  BY <1>2 DEF PairPlaces
<1>4. t[i + 1][2] = eq /\ t[i + 1][3] = amp
  BY <1>3
<1>5. eq \in Nat /\ amp \in Nat /\ Len(s) \in Nat /\ eq <= m /\ m < amp /\ m + 1 # amp
      /\ v \in eq + 1 .. m + 1
  BY <1>1, <1>3, <1>4
<1>6. eq <= m + 1 /\ m + 1 < amp /\ v \in eq + 1 .. (m + 1) + 1
  BY <1>5
<1> QED BY <1>4, <1>6 DEF AtValue

LEMMA TextsJoin ==
  ASSUME NEW s \in Seq(STRING), NEW a \in Nat \ {0}, NEW v \in Nat, a <= v,
         NEW m \in Nat, v <= m + 1, m <= Len(s)
  PROVE  /\ SubSeq(s, a, v - 1) \in Seq(Chars) /\ SubSeq(s, v, m) \in Seq(Chars)
         /\ SubSeq(s, a, m) \in Seq(Chars)
         /\ SubSeq(s, a, v - 1) \o SubSeq(s, v, m) = SubSeq(s, a, m)
<1>1. PICK n, l, L : n = v - a /\ l = m + 1 - v /\ L = Len(s)
  OBVIOUS
<1>2. /\ n \in Nat /\ l \in Nat /\ L \in Nat /\ v = a + n /\ a + n - 1 = v - 1 /\ v + l - 1 = m
      /\ n + l \in Nat /\ a + (n + l) - 1 = m
      /\ a + n <= L + 1 /\ v + l <= L + 1 /\ a + (n + l) <= L + 1 /\ v \in Nat \ {0}
  BY <1>1
<1>3. PICK p, q, r : p = SubSeq(s, a, v - 1) /\ q = SubSeq(s, v, m) /\ r = SubSeq(s, a, m)
  OBVIOUS
<1>4. p \in Seq(Chars) /\ Len(p) = n /\ \A j \in 1 .. n : p[j] = s[a + j - 1]
  <2>1. v - 1 \in Int /\ a <= (v - 1) + 1 /\ v - 1 <= Len(s) /\ n = (v - 1) - a + 1
    BY <1>1, <1>2
  <2> QED BY <1>3, <2>1, TextTo
<1>5. q \in Seq(Chars) /\ Len(q) = l /\ \A j \in 1 .. l : q[j] = s[v + j - 1]
  <2>1. m \in Int /\ v <= m + 1 /\ l = m - v + 1
    BY <1>1, <1>2
  <2> QED BY <1>2, <1>3, <2>1, TextTo
<1>6. r \in Seq(Chars) /\ Len(r) = n + l /\ \A j \in 1 .. n + l : r[j] = s[a + j - 1]
  <2>1. m \in Int /\ a <= m + 1 /\ n + l = m - a + 1
    BY <1>1, <1>2
  <2> QED BY <1>3, <2>1, TextTo
<1>7. /\ p \o q \in Seq(Chars) /\ Len(p \o q) = n + l
      /\ \A j \in 1 .. n : (p \o q)[j] = p[j]
      /\ \A j \in n + 1 .. n + l : (p \o q)[j] = q[j - n]
  <2>1. /\ p \o q \in Seq(Chars) /\ Len(p \o q) = n + l
        /\ \A j \in 1 .. n + l : (p \o q)[j] = IF j <= n THEN p[j] ELSE q[j - n]
    BY <1>4, <1>5, ConcatProperties
  <2>2. n \in Nat /\ l \in Nat
    BY <1>2
  <2>3. (\A j \in 1 .. n : j \in 1 .. n + l /\ j <= n) /\ (\A j \in n + 1 .. n + l : j \in 1 .. n + l /\ ~(j <= n))
    BY <1>2
  <2> QED BY <2>1, <2>2, <2>3
<1>8. ASSUME NEW j \in 1 .. n + l PROVE (p \o q)[j] = r[j]
  <2>1. CASE j \in 1 .. n
    BY <1>4, <1>6, <1>7, <2>1
  <2>2. CASE j \in n + 1 .. n + l
    <3>1. j - n \in 1 .. l /\ v + (j - n) - 1 = a + j - 1
      BY <1>2, <2>2
    <3> QED BY <1>5, <1>6, <1>7, <2>2, <3>1
  <2>3. j \in 1 .. n \/ j \in n + 1 .. n + l
    BY <1>2
  <2> QED BY <2>1, <2>2, <2>3
<1>9. p \o q = r
  BY <1>6, <1>7, <1>8, SeqEqual
<1> QED BY <1>3, <1>4, <1>5, <1>6, <1>9

(* Another part of the value is stored. *)
LEMMA PartSent ==
  ASSUME NEW s \in Seq(STRING), NEW t, t = SpansOf(s), NEW m \in 0 .. Len(s), NEW i, NEW v,
         NEW key, NEW n \in Nat, NEW sets_ \in Stores, AtValue(s, t, m, i, v, key, n, sets_),
         NEW sent, sent = <<Bytes(key, n), SubSeq(s, v, m)>>
  PROVE  /\ sent \in Pairs
         /\ SameStore(Append(sets_, sent),
                      Append(FirstPairs(s, i), PairAt(s, <<t[i + 1][1], t[i + 1][2], m + 1>>)))
<1>1. /\ i \in 0 .. Len(t) - 1 /\ t[i + 1][2] <= m /\ v \in t[i + 1][2] + 1 .. m + 1
      /\ Start(t, i) + n = t[i + 1][2] /\ Copied(key, n, s, Start(t, i))
      /\ Held(s, t, sets_, i, v)
  BY DEF AtValue
<1>2. PICK b, eq, amp : PairPlaces(s, t, i, b, eq, amp)
  BY <1>1, NextSpan
<1>3. /\ t[i + 1] = <<b, eq, amp>> /\ b \in Nat \ {0} /\ eq \in b .. Len(s) /\ Start(t, i) = b
  BY <1>2 DEF PairPlaces
<1>4. t[i + 1][1] = b /\ t[i + 1][2] = eq
  BY <1>3
<1>5. /\ eq \in Nat /\ m \in Nat /\ Len(s) \in Nat /\ m <= Len(s) /\ v \in Nat /\ eq + 1 <= v
      /\ v <= m + 1 /\ b + n = eq /\ b + n - 1 = eq - 1 /\ b + n <= Len(s) + 1
      /\ eq + 1 \in Nat \ {0} /\ (m + 1) - 1 = m
  BY <1>1, <1>3, <1>4
<1>6. PICK k, u, w, uw : /\ k = SubSeq(s, b, eq - 1) /\ u = SubSeq(s, eq + 1, v - 1)
                         /\ w = SubSeq(s, v, m) /\ uw = SubSeq(s, eq + 1, m)
  OBVIOUS
<1>7. k \in Seq(Chars) /\ Bytes(key, n) = k
  <2>1. SubSeq(s, b, b + n - 1) \in Seq(Chars)
    BY <1>3, <1>5, TextIs
  <2>2. Bytes(key, n) = SubSeq(s, b, b + n - 1)
    BY <1>1, <1>3, <1>5, CopiedText
  <2> QED BY <1>5, <1>6, <2>1, <2>2
<1>8. u \in Seq(Chars) /\ w \in Seq(Chars) /\ uw \in Seq(Chars) /\ u \o w = uw
  <2>1. PICK e : e = eq + 1
    OBVIOUS
  <2>2. e \in Nat \ {0} /\ e <= v
    BY <1>5, <2>1
  <2>3. u = SubSeq(s, e, v - 1) /\ uw = SubSeq(s, e, m)
    BY <1>6, <2>1
  <2>4. v \in Nat /\ m \in Nat /\ v <= m + 1 /\ m <= Len(s)
    BY <1>5
  <2>5. /\ SubSeq(s, e, v - 1) \in Seq(Chars) /\ SubSeq(s, v, m) \in Seq(Chars)
        /\ SubSeq(s, e, m) \in Seq(Chars)
        /\ SubSeq(s, e, v - 1) \o SubSeq(s, v, m) = SubSeq(s, e, m)
    BY ONLY <2>2, <2>4, s \in Seq(STRING), TextsJoin
  <2> QED BY ONLY <1>6, <2>3, <2>5, Zenon
<1>9. sent = <<k, w>> /\ sent \in Pairs
  BY <1>6, <1>7, <1>8, PairIs
<1>10. PairAt(s, <<b, eq, m + 1>>) = <<k, uw>> /\ PairAt(s, <<b, eq, v>>) = <<k, u>>
  BY <1>5, <1>6 DEF PairAt
<1>11. FirstPairs(s, i) \in Stores
  <2>1. Len(t) \in Nat
    BY ONLY s \in Seq(STRING), t = SpansOf(s), SpansOk
  <2>2. i + 1 \in 1 .. Len(t) /\ (i + 1) - 1 = i
    BY <1>1, <2>1
  <2>3. FirstPairs(s, (i + 1) - 1) \in Stores
    BY <2>2, FrontIs
  <2> QED BY <2>2, <2>3
<1>12. CASE v = eq + 1
  <2>1. SameStore(sets_, FirstPairs(s, i))
    BY <1>1, <1>4, <1>12 DEF Held
  <2>2. w = uw
    BY <1>6, <1>12
  <2>3. SameStore(Append(sets_, sent), Append(FirstPairs(s, i), sent))
    BY <1>9, <1>11, <2>1, SameMore
  <2> QED BY <1>4, <1>9, <1>10, <2>2, <2>3
<1>13. CASE v # eq + 1
  <2>1. SameStore(sets_, Append(FirstPairs(s, i), <<k, u>>))
    BY <1>1, <1>4, <1>10, <1>13 DEF Held
  <2>2. SameStore(Append(sets_, <<k, w>>), Append(FirstPairs(s, i), <<k, u \o w>>))
    BY <1>7, <1>8, <1>11, <2>1, SameLonger
  <2> QED BY <1>4, <1>8, <1>9, <1>10, <2>2
<1> QED BY <1>9, <1>12, <1>13

LEMMA ValueSent ==
  ASSUME NEW s \in Seq(STRING), NEW t, t = SpansOf(s), NEW m \in 0 .. Len(s), NEW i, NEW v,
         v <= m, NEW key, NEW n \in Nat, NEW sets_ \in Stores, AtValue(s, t, m, i, v, key, n, sets_),
         NEW sent, sent = <<Bytes(key, n), SubSeq(s, v, m)>>
  PROVE  AtValue(s, t, m, i, m + 1, key, n, Append(sets_, sent))
<1>1. /\ i \in 0 .. Len(t) - 1 /\ t[i + 1][2] <= m /\ v \in t[i + 1][2] + 1 .. m + 1
  BY DEF AtValue
<1>2. PICK b, eq, amp : PairPlaces(s, t, i, b, eq, amp)
  BY <1>1, NextSpan
<1>3. /\ t[i + 1] = <<b, eq, amp>> /\ eq \in b .. Len(s) /\ b \in Nat
  BY <1>2 DEF PairPlaces
<1>4. t[i + 1][2] = eq
  BY <1>3
<1>5. m + 1 # eq + 1 /\ m + 1 \in eq + 1 .. m + 1
  BY <1>1, <1>3, <1>4
<1>6. SameStore(Append(sets_, sent),
                Append(FirstPairs(s, i), PairAt(s, <<t[i + 1][1], t[i + 1][2], m + 1>>)))
  BY PartSent
<1>7. Held(s, t, Append(sets_, sent), i, m + 1)
  BY <1>4, <1>5, <1>6 DEF Held
<1> QED BY <1>4, <1>5, <1>7 DEF AtValue

LEMMA ValueOver ==
  ASSUME NEW s \in Seq(STRING), NEW t, t = SpansOf(s), NEW m \in 0 .. Len(s), NEW i, NEW v,
         NEW key, NEW n \in Nat, NEW sets_ \in Stores, AtValue(s, t, m, i, v, key, n, sets_),
         m = Len(s) \/ s[m + 1] = "&",
         NEW sent, sent = <<Bytes(key, n), SubSeq(s, v, m)>>, NEW any
  PROVE  /\ m + 1 \in Seps(t)
         /\ AtKey(s, t, m + 1, i + 1, any, 0, Append(sets_, sent))
<1>1. /\ i \in 0 .. Len(t) - 1 /\ t[i + 1][2] <= m /\ m < t[i + 1][3]
  BY DEF AtValue
<1>2. PICK b, eq, amp : PairPlaces(s, t, i, b, eq, amp)
  BY <1>1, NextSpan
<1>3. /\ t[i + 1] = <<b, eq, amp>> /\ eq \in b .. Len(s) /\ b \in Nat
      /\ amp \in eq + 1 .. Len(s) + 1 /\ Start(t, i + 1) = amp + 1
      /\ \A j \in eq + 1 .. amp - 1 : s[j] # "&"
      /\ amp \in Seps(t)
  BY <1>2 DEF PairPlaces
<1>4. t[i + 1][1] = b /\ t[i + 1][2] = eq /\ t[i + 1][3] = amp
  BY <1>3
<1>5. amp = m + 1
  <2>1. eq <= m /\ m < amp /\ eq \in Nat /\ amp \in Nat /\ Len(s) \in Nat
    BY <1>1, <1>3, <1>4
  <2>2. CASE m = Len(s)
    BY <1>3, <2>1, <2>2
  <2>3. CASE s[m + 1] = "&"
    <3>1. ~(m + 1 \in eq + 1 .. amp - 1)
      BY <1>3, <2>3
    <3> QED BY <2>1, <3>1
  <2> QED BY <2>2, <2>3
<1>6. SpansAre(s, t) /\ Len(t) \in Nat
  BY ONLY s \in Seq(STRING), t = SpansOf(s), SpansOk
<1>7. i + 1 \in 1 .. Len(t) /\ i + 1 \in 0 .. Len(t) /\ (i + 1) - 1 = i
  BY <1>1, <1>6
<1>8. SameStore(Append(sets_, sent), FirstPairs(s, i + 1))
  <2>1. SameStore(Append(sets_, sent), Append(FirstPairs(s, i), PairAt(s, t[i + 1])))
    BY <1>3, <1>4, <1>5, PartSent
  <2>2. FirstPairs(s, i + 1) = Append(FirstPairs(s, (i + 1) - 1), PairAt(s, t[i + 1]))
    BY <1>7, FrontIs
  <2> QED BY <1>7, <2>1, <2>2
<1>9. i + 1 < Len(t) => m + 1 < t[(i + 1) + 1][2]
  <2> SUFFICES ASSUME i + 1 < Len(t) PROVE m + 1 < t[(i + 1) + 1][2]
    OBVIOUS
  <2>1. PICK k : k = i + 1
    OBVIOUS
  <2>2. k \in 0 .. Len(t) - 1
    BY <1>6, <1>7, <2>1
  <2>3. PICK b1, eq1, amp1 : PairPlaces(s, t, k, b1, eq1, amp1)
    BY <2>2, NextSpan
  <2>4. t[k + 1] = <<b1, eq1, amp1>> /\ Start(t, k) = b1 /\ eq1 \in b1 .. Len(s) /\ b1 \in Nat
    BY <2>3 DEF PairPlaces
  <2>5. b1 = amp + 1 /\ t[k + 1][2] = eq1
    BY <1>3, <2>1, <2>4
  <2>6. m + 1 < eq1
    BY <1>5, <2>4, <2>5
  <2> QED BY <2>1, <2>5, <2>6
<1>10. \A j \in 0 .. 0 - 1 : FALSE
  OBVIOUS
<1>11. Start(t, i + 1) + 0 = (m + 1) + 1
  BY <1>3, <1>5
<1> QED BY <1>3, <1>5, <1>7, <1>8, <1>9, <1>10, <1>11 DEF AtKey, Copied

(* At the end of the body. *)
LEMMA LastSent ==
  ASSUME NEW s \in Seq(STRING), NEW t, t = SpansOf(s), NEW i, NEW v,
         NEW key, NEW n \in Nat, NEW sets_ \in Stores, AtValue(s, t, Len(s), i, v, key, n, sets_),
         NEW sent, sent = <<Bytes(key, n), SubSeq(s, v, Len(s))>>
  PROVE  SameStore(Append(sets_, sent), PairsOf(s))
<1>1. PICK m : m = Len(s)
  OBVIOUS
<1>2. m \in 0 .. Len(s)
  BY <1>1
<1>3. AtKey(s, t, m + 1, i + 1, key, 0, Append(sets_, sent))
  BY <1>1, <1>2, ValueOver
<1>4. /\ i + 1 \in 0 .. Len(t) /\ (i + 1 < Len(t) => m + 1 < t[(i + 1) + 1][2])
      /\ SameStore(Append(sets_, sent), FirstPairs(s, i + 1))
  BY <1>3 DEF AtKey
<1>5. i + 1 = Len(t)
  <2> SUFFICES ASSUME i + 1 # Len(t) PROVE FALSE
    OBVIOUS
  <2>1. PICK k : k = i + 1
    OBVIOUS
  <2>2. Len(t) \in Nat
    BY ONLY s \in Seq(STRING), t = SpansOf(s), SpansOk
  <2>3. k \in 0 .. Len(t) - 1 /\ k < Len(t)
    BY <1>4, <2>1, <2>2
  <2>4. PICK b1, eq1, amp1 : PairPlaces(s, t, k, b1, eq1, amp1)
    BY <2>3, NextSpan
  <2>5. t[k + 1] = <<b1, eq1, amp1>> /\ eq1 \in b1 .. Len(s)
    BY <2>4 DEF PairPlaces
  <2>6. t[k + 1][2] = eq1 /\ m + 1 < eq1
    BY <1>4, <2>1, <2>3, <2>5
  <2> QED BY <1>1, <2>4, <2>5, <2>6 DEF PairPlaces
<1> QED BY <1>4, <1>5, FrontIs

LEMMA KeyLast ==
  ASSUME NEW s \in Seq(STRING), NEW t, t = SpansOf(s), NEW i,
         NEW key, NEW n \in Nat, NEW sets_, AtKey(s, t, Len(s), i, key, n, sets_)
  PROVE  ~EndsInValue(s)
<1>1. /\ i \in 0 .. Len(t) /\ Start(t, i) + n = Len(s) + 1 /\ (i < Len(t) => Len(s) < t[i + 1][2])
  BY DEF AtKey
<1>2. SpansAre(s, t) /\ Len(t) \in Nat /\ t \in Spans
  BY ONLY s \in Seq(STRING), t = SpansOf(s), SpansOk
<1>3. i = Len(t)
  <2> SUFFICES ASSUME i # Len(t) PROVE FALSE
    OBVIOUS
  <2>1. i \in 0 .. Len(t) - 1 /\ i < Len(t)
    BY <1>1, <1>2
  <2>2. PICK b, eq, amp : PairPlaces(s, t, i, b, eq, amp)
    BY <2>1, NextSpan
  <2>3. t[i + 1] = <<b, eq, amp>> /\ eq \in b .. Len(s) /\ b \in Nat
    BY <2>2 DEF PairPlaces
  <2>4. t[i + 1][2] = eq /\ Len(s) < eq
    BY <1>1, <2>1, <2>3
  <2> QED BY <2>3, <2>4
<1> SUFFICES ASSUME t # <<>>, t[Len(t)][3] = Len(s) + 1 PROVE FALSE
  BY DEF EndsInValue
<1>4. Len(t) # 0
  BY <1>2 DEF Spans
<1>5. Start(t, i) = (Len(s) + 1) + 1
  BY <1>3, <1>4 DEF Start
<1> QED BY <1>1, <1>5
-----------------------------------------------------------------------------
(* The loop of read_cb, called with what comes up to the c-th character.   *)

(* It has taken m of them and goes on. *)
Running(s, t, c, m, p) ==
  /\ ~p.back /\ p.response = "none" /\ p.left = Len(s) - m /\ p.input = SubSeq(s, m + 1, c)
  /\ m <= c /\ (m < c \/ m = Len(s))
  /\ \/ p.state = 1 /\ \E i : AtKey(s, t, m, i, p.key, p.size, p.sets)
     \/ /\ p.state = 2
        /\ \E i, v : /\ AtValue(s, t, m, i, v, p.key, p.key_size, p.sets)
                     /\ Copied(p.value, p.size, s, v) /\ v + p.size = m + 1

(* What p_info holds between two calls. *)
Waits(s, t, m, state, key, key_size, sets_) ==
  \/ state = 1 /\ \E i : AtKey(s, t, m, i, key, key_size, sets_)
  \/ state = 2 /\ \E i : AtValue(s, t, m, i, m + 1, key, key_size, sets_)

Stopped(s, t, c, p) ==
  /\ p.back
  /\ \/ p.response = "404"
     \/ /\ p.response = "none" /\ c < Len(s) /\ p.length = Len(s) - c
        /\ Waits(s, t, c, p.state, p.key, p.key_size, p.sets)

(* No part of the body ends at a separator, nor with the header. *)
Inside(s, t, c) == c = Len(s) \/ c \notin Seps(t) \cup {0}

(* p with the character behind the m-th in its buffer is q. *)
Took(p, q, s, c, m) ==
  /\ q \in Callbacks /\ q.state = p.state /\ q.size = p.size /\ q.key_size = p.key_size
  /\ q.sets = p.sets /\ q.back = p.back /\ q.response = p.response
  /\ q.left = Len(s) - (m + 1) /\ q.input = SubSeq(s, m + 2, c)
  /\ q.key = IF p.state = 1 THEN [p.key EXCEPT ![p.size] = s[m + 1]] ELSE p.key
  /\ q.value = IF p.state = 2 THEN [p.value EXCEPT ![p.size] = s[m + 1]] ELSE p.value

LEMMA InputIs ==
  ASSUME NEW E, NEW s \in Seq(E), NEW c \in 0 .. Len(s), NEW m \in 0 .. c - 1
  PROVE  /\ SubSeq(s, m + 1, c) # <<>> /\ Head(SubSeq(s, m + 1, c)) = s[m + 1]
         /\ Tail(SubSeq(s, m + 1, c)) = SubSeq(s, m + 2, c)
         /\ SubSeq(s, m + 2, c) = <<>> <=> m + 1 = c
         /\ s[m + 1] \in E
<1>1. PICK p, q : p = SubSeq(s, m + 1, c) /\ q = SubSeq(s, m + 2, c)
  OBVIOUS
<1>2. PICK n : n = c - m
  OBVIOUS
<1>3. n \in Nat \ {0} /\ n = c - (m + 1) + 1 /\ n - 1 = c - (m + 2) + 1 /\ m + n = c
  BY <1>2
<1>4. p = [j \in 1 .. n |-> s[m + j]] /\ q = [j \in 1 .. n - 1 |-> s[m + 1 + j]]
  BY <1>1, <1>3
<1>5. \A j \in 1 .. n : s[m + j] \in E
  BY <1>3
<1>6. p \in Seq(E) /\ Len(p) = n /\ \A j \in 1 .. n : p[j] = s[m + j]
  <2>1. p \in [1 .. n -> E]
    BY <1>4, <1>5
  <2> QED BY <1>3, <1>4, <2>1, SeqFrom
<1>7. q \in Seq(E) /\ Len(q) = n - 1 /\ \A j \in 1 .. n - 1 : q[j] = s[m + 1 + j]
  <2>1. \A j \in 1 .. n - 1 : s[m + 1 + j] \in E
    BY <1>3
  <2>2. q \in [1 .. n - 1 -> E]
    BY <1>4, <2>1
  <2> QED BY <1>3, <1>4, <2>2, SeqFrom
<1>8. p # <<>> /\ Head(p) = s[m + 1] /\ s[m + 1] \in E
  BY <1>3, <1>5, <1>6
<1>9. Tail(p) \in Seq(E) /\ Len(Tail(p)) = n - 1 /\ \A j \in 1 .. n - 1 : Tail(p)[j] = p[j + 1]
  BY <1>3, <1>6, <1>8
<1>10. Tail(p) = q
  <2>1. ASSUME NEW j \in 1 .. n - 1 PROVE Tail(p)[j] = q[j]
    <3>1. j + 1 \in 1 .. n /\ m + (j + 1) = m + 1 + j
      BY <1>3
    <3> QED BY <1>6, <1>7, <1>9, <3>1
  <2> QED BY <1>7, <1>9, <2>1, SeqEqual
<1>11. q = <<>> <=> m + 1 = c
  <2>1. q = <<>> <=> Len(q) = 0
    <3>1. q \in Seq(E)
      BY <1>7
    <3> QED BY ONLY <3>1
  <2> QED BY <1>3, <1>7, <2>1
<1> QED BY <1>1, <1>8, <1>10, <1>11

LEMMA TurnTakes ==
  ASSUME NEW s \in Seq(STRING), NEW t, NEW c \in 0 .. Len(s), NEW m \in 0 .. Len(s) - 1,
         MaxBody \in Nat, KeySize \in Nat,
         NEW p \in Callbacks, NEW B \in Nat, B <= KeySize, Fits(p, B), Running(s, t, c, m, p)
  PROVE  /\ p.size \in 0 .. KeySize - 1 /\ p.key_size \in 0 .. KeySize /\ m < c
         /\ \E q : /\ Took(p, q, s, c, m)
                   /\ Turn(p) =
                        IF p.state = 1 /\ s[m + 1] = "=" THEN KeyEnded(q, p.size)
                        ELSE IF p.state = 2 /\ s[m + 1] = "&" THEN Stored(q, p.size, ValueEnded(q))
                        ELSE IF m + 1 = c /\ m + 1 < Len(s)
                        THEN IF p.state = 2 THEN Stored(Noted(q), p.size + 1, ValueStopped(q))
                                            ELSE KeyStopped(q, p.size + 1)
                        ELSE OneMore(q)
<1>1. PICK E : E = STRING
  OBVIOUS
<1>2. s \in Seq(E)
  BY <1>1
<1>3. /\ p.back = FALSE /\ p.response = "none" /\ p.left = Len(s) - m /\ p.input = SubSeq(s, m + 1, c)
      /\ m < c /\ p.state \in {1, 2} /\ p.size \in Nat /\ p.key_size \in Nat /\ p.left \in Nat /\ p.left > 0
      /\ m \in 0 .. c - 1 /\ Len(s) \in Nat /\ p.key \in Buffers /\ p.value \in Buffers
  <2>1. /\ p.back \in BOOLEAN /\ p.state \in {1, 2} /\ p.size \in Nat /\ p.key_size \in Nat
        /\ p.left \in 0 .. MaxBody /\ p.key \in Buffers /\ p.value \in Buffers
    BY ONLY p \in Callbacks DEF Callbacks
  <2>2. /\ ~p.back /\ p.response = "none" /\ p.left = Len(s) - m /\ p.input = SubSeq(s, m + 1, c)
        /\ m <= c /\ (m < c \/ m = Len(s))
    BY ONLY Running(s, t, c, m, p) DEF Running
  <2>3. Len(s) \in Nat
    BY ONLY <1>2
  <2>4. m < c /\ m \in 0 .. c - 1 /\ p.left \in Nat /\ p.left > 0
    BY ONLY <2>2, <2>3, m \in 0 .. Len(s) - 1, c \in 0 .. Len(s)
  <2> QED BY ONLY <2>1, <2>2, <2>3, <2>4
<1>4. p.size + p.left <= B /\ p.key_size <= B
  BY <1>3 DEF Fits
<1>5. p.size \in 0 .. KeySize - 1 /\ p.key_size \in 0 .. KeySize
  BY ONLY <1>3, <1>4, B \in Nat, B <= KeySize, KeySize \in Nat
<1>6. PICK ch, input : ch = s[m + 1] /\ input = SubSeq(s, m + 2, c)
  OBVIOUS
<1>7. /\ p.input # <<>> /\ Head(p.input) = ch /\ Tail(p.input) = input /\ (input = <<>> <=> m + 1 = c)
      /\ ch \in E
  <2>1. /\ SubSeq(s, m + 1, c) # <<>> /\ Head(SubSeq(s, m + 1, c)) = s[m + 1]
        /\ Tail(SubSeq(s, m + 1, c)) = SubSeq(s, m + 2, c)
        /\ (SubSeq(s, m + 2, c) = <<>> <=> m + 1 = c)
        /\ s[m + 1] \in E
    <3>1. m \in 0 .. c - 1
      BY <1>3
    <3> QED BY ONLY <1>2, <3>1, c \in 0 .. Len(s), InputIs
  <2> QED BY ONLY <1>3, <1>6, <2>1, Zenon
<1>8. input \in Seq(STRING)
  <2>1. p.input \in Seq(STRING)
    BY DEF Callbacks
  <2>2. PICK r : r = p.input
    OBVIOUS
  <2>3. r \in Seq(STRING) /\ r # <<>> /\ input = Tail(r)
    BY <1>7, <2>1, <2>2
  <2> QED BY ONLY <2>3
<1>9. PICK key, value : /\ key = IF p.state = 1 THEN Removed(p, p.key) ELSE p.key
                        /\ value = IF p.state = 2 THEN Removed(p, p.value) ELSE p.value
  OBVIOUS
<1>10. key \in Buffers /\ value \in Buffers
  BY <1>3, <1>9, RemovedIs
<1>11. /\ key = IF p.state = 1 THEN [p.key EXCEPT ![p.size] = ch] ELSE p.key
       /\ value = IF p.state = 2 THEN [p.value EXCEPT ![p.size] = ch] ELSE p.value
  BY <1>7, <1>9 DEF Removed
<1>12. PICK q : q = Shorter(p, key, value, input)
  OBVIOUS
<1>13. /\ q \in Callbacks /\ q.key = key /\ q.value = value /\ q.state = p.state
       /\ q.size = p.size /\ q.key_size = p.key_size /\ q.length = p.length
       /\ q.left = p.left - 1 /\ q.back = p.back /\ q.response = p.response
       /\ q.input = input /\ q.sets = p.sets
  BY <1>3, <1>8, <1>10, <1>12, ShorterIs
<1>14. q.left = Len(s) - (m + 1) /\ (q.left > 0 <=> m + 1 < Len(s))
  BY <1>3, <1>13
<1>15. Took(p, q, s, c, m)
  BY <1>6, <1>11, <1>13, <1>14, Zenon DEF Took
<1>16. q = Shorter(p, IF p.state = 1 THEN Removed(p, p.key) ELSE p.key,
                      IF p.state = 2 THEN Removed(p, p.value) ELSE p.value,
                      IF p.input = <<>> THEN <<>> ELSE Tail(p.input))
  BY <1>7, <1>9, <1>12, Zenon
<1>17. Turn(p) = IF p.state = 1 /\ q.key[p.size] = "=" THEN KeyEnded(q, p.size)
                 ELSE IF p.state = 2 /\ q.value[p.size] = "&" THEN Stored(q, p.size, ValueEnded(q))
                 ELSE IF q.input = <<>> /\ q.left > 0
                 THEN IF p.state = 2 THEN Stored(Noted(q), Taken(p), ValueStopped(q))
                                     ELSE KeyStopped(q, Taken(p))
                 ELSE OneMore(q)
  <2>1. p.state \in {1, 2} /\ ~p.back /\ p.left > 0
    BY <1>3
  <2> QED BY ONLY <1>16, <2>1, TurnIs
<1>18. p.state = 1 => q.key[p.size] = ch
  BY <1>3, <1>5, <1>11, <1>13 DEF Buffers
<1>19. p.state = 2 => q.value[p.size] = ch
  BY <1>3, <1>5, <1>11, <1>13 DEF Buffers
<1>20. Taken(p) = p.size + 1
  BY DEF Taken
<1>21. Turn(p) = IF p.state = 1 /\ ch = "=" THEN KeyEnded(q, p.size)
                 ELSE IF p.state = 2 /\ ch = "&" THEN Stored(q, p.size, ValueEnded(q))
                 ELSE IF m + 1 = c /\ m + 1 < Len(s)
                 THEN IF p.state = 2 THEN Stored(Noted(q), p.size + 1, ValueStopped(q))
                                     ELSE KeyStopped(q, p.size + 1)
                 ELSE OneMore(q)
  BY ONLY <1>7, <1>13, <1>14, <1>17, <1>18, <1>19, <1>20, Zenon
<1> QED BY <1>3, <1>5, <1>6, <1>15, <1>21, Zenon

KeptKey(q, n, r) ==
  /\ r.key_size = n /\ r.state = q.state /\ r.length = q.left /\ r.back
  /\ r.response = q.response /\ r.sets = q.sets /\ r.key = q.key

LEMMA KeyKept ==
  ASSUME NEW q \in Callbacks, NEW n \in Nat, NEW r, r = KeyStopped(q, n)
  PROVE  KeptKey(q, n, r)
BY KeyStoppedIs DEF KeptKey

LEMMA KeyTurn ==
  ASSUME NEW s \in Seq(STRING), NEW t, t = SpansOf(s), NEW c \in 0 .. Len(s),
         NEW m \in 0 .. Len(s) - 1, m < c, Inside(s, t, c), KeySize \in Nat,
         NEW p \in Callbacks, p.size \in 0 .. KeySize - 1, p.state = 1,
         ~p.back, p.response = "none", NEW i, AtKey(s, t, m, i, p.key, p.size, p.sets),
         NEW q, Took(p, q, s, c, m),
         NEW r, r = IF s[m + 1] = "=" THEN KeyEnded(q, p.size)
                    ELSE IF m + 1 = c /\ m + 1 < Len(s) THEN KeyStopped(q, p.size + 1)
                    ELSE OneMore(q)
  PROVE  Running(s, t, c, m + 1, r) \/ Stopped(s, t, c, r)
<1>1. PICK n, ch : n = p.size /\ ch = s[m + 1]
  OBVIOUS
<1>2. /\ n \in Nat /\ n <= KeySize /\ n \in 0 .. KeySize /\ n + 1 \in Nat /\ p.key \in Buffers
      /\ Len(s) \in Nat /\ m + 1 \in Nat /\ m + 1 <= c /\ m + 1 <= Len(s) /\ (m + 1) + 1 = m + 2
  BY <1>1 DEF Callbacks
<1>3. /\ q \in Callbacks /\ q.state = 1 /\ q.size = n /\ q.key_size = p.key_size
      /\ q.sets = p.sets /\ ~q.back /\ q.response = "none"
      /\ q.left = Len(s) - (m + 1) /\ q.input = SubSeq(s, (m + 1) + 1, c)
      /\ q.key = [p.key EXCEPT ![n] = ch]
  BY <1>1, <1>2 DEF Took
<1>4. AtKey(s, t, m, i, p.key, n, p.sets)
  BY <1>1
<1>5. CASE ch = "="
  <2>1. PICK copy : copy = [q.key EXCEPT ![n] = NoChar]
    OBVIOUS
  <2>2. Copied(copy, n, s, Start(t, i))
    <3>1. PICK b : b = Start(t, i)
      OBVIOUS
    <3>2. b \in Nat
      <4>1. Len(s) \in Nat /\ SpansAre(s, t)
        BY <1>2, SpansOfAre
      <4>2. i \in 0 .. Len(t)
        BY DEF AtKey
      <4>3. b \in Nat \ {0}
        BY ONLY <3>1, <4>1, <4>2, StartNat
      <4> QED BY <4>3
    <3>3. Copied(p.key, n, s, b)
      BY <1>4, <3>1 DEF AtKey
    <3>4. Copied(q.key, n, s, b)
      <4>1. Copied([p.key EXCEPT ![n] = ch], n, s, b)
        BY ONLY <1>2, <3>2, <3>3, KeySize \in Nat, CopiedMore
      <4> QED BY ONLY <1>3, <4>1, Zenon
    <3>5. q.key \in Buffers
      BY <1>3 DEF Callbacks
    <3>6. Copied(copy, n, s, b)
      <4>1. Copied([q.key EXCEPT ![n] = NoChar], n, s, b)
        BY ONLY <1>2, <3>2, <3>4, <3>5, KeySize \in Nat, CopiedMore
      <4> QED BY ONLY <2>1, <4>1, Zenon
    <3> QED BY <3>1, <3>6
  <2>3. AtValue(s, t, m + 1, i, m + 2, copy, n, p.sets) /\ m + 1 \in Seps(t)
    BY ONLY <1>1, <1>2, <1>4, <1>5, <2>2, s \in Seq(STRING), t = SpansOf(s), m \in 0 .. Len(s) - 1,
            KeyOver
  <2>4. r = KeyEnded(q, n)
    BY <1>1, <1>5
  <2>5. /\ r.key_size = n /\ r.size = 0 /\ r.state = 2 /\ r.left = q.left /\ r.back = q.back
        /\ r.response = q.response /\ r.input = q.input /\ r.sets = q.sets
    BY ONLY <1>2, <1>3, <2>4, KeySize \in Nat, KeyEndedIs
  <2>6. r.key = copy
    <3>1. q \in Callbacks
      BY <1>3
    <3>2. r.key = [q.key EXCEPT ![n] = NoChar]
      BY ONLY <2>4, <3>1, KeyEndedKeeps
    <3> QED BY ONLY <2>1, <3>2, Zenon
  <2>7. m + 1 < c \/ m + 1 = Len(s)
    BY <1>2, <2>3 DEF Inside
  <2>8. AtValue(s, t, m + 1, i, m + 2, r.key, r.key_size, r.sets)
    BY <1>3, <2>3, <2>5, <2>6
  <2>9. Copied(r.value, r.size, s, m + 2) /\ m + 2 + r.size = (m + 1) + 1
    <3>1. \A j \in 0 .. 0 - 1 : FALSE
      OBVIOUS
    <3> QED BY <1>2, <2>5, <3>1 DEF Copied
  <2> QED BY <1>3, <2>5, <2>7, <2>8, <2>9 DEF Running
<1>6. CASE ch # "="
  <2>1. AtKey(s, t, m + 1, i, q.key, n + 1, q.sets)
    <3>1. AtKey(s, t, m + 1, i, [p.key EXCEPT ![n] = s[m + 1]], n + 1, p.sets)
      BY ONLY <1>1, <1>2, <1>4, <1>6, s \in Seq(STRING), t = SpansOf(s), m \in 0 .. Len(s) - 1,
              KeySize \in Nat, KeyOn
    <3> QED BY <1>1, <1>3, <3>1
  <2>2. CASE m + 1 = c /\ m + 1 < Len(s)
    <3>1. r = KeyStopped(q, n + 1)
      BY <1>1, <1>6, <2>2
    <3>2. /\ r.key_size = n + 1 /\ r.state = q.state /\ r.length = q.left /\ r.back
          /\ r.response = q.response /\ r.sets = q.sets /\ r.key = q.key
      <4>1. PICK l : l = n + 1
        OBVIOUS
      <4>2. q \in Callbacks /\ l \in Nat /\ r = KeyStopped(q, l)
        BY <1>2, <1>3, <3>1, <4>1
      <4>3. KeptKey(q, l, r)
        BY ONLY <4>2, KeyKept
      <4> QED BY ONLY <4>1, <4>3, Zenon DEF KeptKey
    <3>3. Waits(s, t, c, r.state, r.key, r.key_size, r.sets)
      BY <1>3, <2>1, <2>2, <3>2 DEF Waits
    <3> QED BY <1>3, <2>2, <3>2, <3>3 DEF Stopped
  <2>3. CASE ~(m + 1 = c /\ m + 1 < Len(s))
    <3>1. r = OneMore(q)
      BY <1>1, <1>6, <2>3
    <3>2. /\ r.size = q.size + 1 /\ r.state = q.state /\ r.left = q.left /\ r.back = q.back
          /\ r.response = q.response /\ r.key = q.key /\ r.input = q.input /\ r.sets = q.sets
      BY <1>3, <3>1, OneMoreIs
    <3>3. m + 1 < c \/ m + 1 = Len(s)
      BY <1>2, <2>3
    <3>4. AtKey(s, t, m + 1, i, r.key, r.size, r.sets)
      BY <1>3, <2>1, <3>2
    <3> QED BY <1>3, <3>2, <3>3, <3>4 DEF Running
  <2> QED BY <2>2, <2>3
<1> QED BY <1>5, <1>6

(* n bytes of the value are stored, or the client hears 404. *)
PutOr404(q, n, then, r) ==
  \/ r.back /\ r.response = "404"
  \/ /\ r.state = then.state /\ r.size = then.size /\ r.key_size = then.key_size
     /\ r.length = then.length /\ r.left = then.left /\ r.back = then.back
     /\ r.response = then.response /\ r.key = then.key /\ r.input = then.input
     /\ r.sets = Append(q.sets, <<Bytes(q.key, q.key_size), Bytes(q.value, n)>>)

LEMMA StoredOr ==
  ASSUME NEW q \in Callbacks, NEW n \in Nat, n <= KeySize + 1, q.key_size <= KeySize + 1,
         KeySize \in Nat, NEW then \in Callbacks, then.sets = q.sets,
         NEW r, r = Stored(q, n, then)
  PROVE  PutOr404(q, n, then, r)
<1>1. PICK x : x = Broken(q)
  OBVIOUS
<1>2. x.back /\ x.response = "404"
  BY <1>1, BrokenIs
<1>3. \/ r = x
      \/ /\ r.state = then.state /\ r.size = then.size /\ r.key_size = then.key_size
         /\ r.length = then.length /\ r.left = then.left /\ r.back = then.back
         /\ r.response = then.response /\ r.key = then.key /\ r.input = then.input
         /\ r.sets = Append(q.sets, <<Bytes(q.key, q.key_size), Bytes(q.value, n)>>)
  BY <1>1, StoredIs
<1> QED BY <1>2, <1>3 DEF PutOr404

(* What a turn in the value leaves of the variables. *)
PartClosed(q, r) ==
  /\ r \in Callbacks /\ r.key_size = 0 /\ r.size = 0 /\ r.state = 1 /\ r.left = q.left
  /\ r.back = q.back /\ r.response = q.response /\ r.sets = q.sets /\ r.input = q.input
KeptValue(q, r) ==
  /\ r \in Callbacks /\ r.key_size = q.key_size /\ r.state = q.state /\ r.length = q.left
  /\ r.back /\ r.response = q.response /\ r.sets = q.sets /\ r.key = q.key
OneLonger(q, r) ==
  /\ r.key_size = q.key_size /\ r.size = q.size + 1 /\ r.state = q.state /\ r.left = q.left
  /\ r.back = q.back /\ r.response = q.response /\ r.key = q.key /\ r.value = q.value
  /\ r.input = q.input /\ r.sets = q.sets

LEMMA ValueKept ==
  ASSUME NEW q \in Callbacks
  PROVE  /\ PartClosed(q, ValueEnded(q)) /\ KeptValue(q, ValueStopped(q)) /\ OneLonger(q, OneMore(q))
<1>1. PICK a, b, c : a = ValueEnded(q) /\ b = ValueStopped(q) /\ c = OneMore(q)
  OBVIOUS
<1>2. PartClosed(q, a)
  BY <1>1, ValueEndedIs DEF PartClosed
<1>3. KeptValue(q, b)
  BY <1>1, ValueStoppedIs DEF KeptValue
<1>4. OneLonger(q, c)
  BY <1>1, OneMoreIs DEF OneLonger
<1> QED BY <1>1, <1>2, <1>3, <1>4

LEMMA ValueTurn ==
  ASSUME NEW s \in Seq(STRING), NEW t, t = SpansOf(s), NEW c \in 0 .. Len(s),
         NEW m \in 0 .. Len(s) - 1, m < c, Inside(s, t, c), KeySize \in Nat,
         NEW p \in Callbacks, p.size \in 0 .. KeySize - 1, p.key_size \in 0 .. KeySize,
         p.state = 2, ~p.back, p.response = "none", NEW i, NEW v,
         AtValue(s, t, m, i, v, p.key, p.key_size, p.sets),
         Copied(p.value, p.size, s, v), v + p.size = m + 1,
         NEW q, Took(p, q, s, c, m),
         NEW r, r = IF s[m + 1] = "&" THEN Stored(q, p.size, ValueEnded(q))
                    ELSE IF m + 1 = c /\ m + 1 < Len(s) THEN Stored(Noted(q), p.size + 1, ValueStopped(q))
                    ELSE OneMore(q)
  PROVE  Running(s, t, c, m + 1, r) \/ Stopped(s, t, c, r)
<1>1. PICK n, ch, k, l, ks : /\ n = p.size /\ ch = s[m + 1] /\ k = p.key_size /\ l = n + 1
                             /\ ks = p.sets
  OBVIOUS
<1>2. /\ n \in Nat /\ n <= KeySize /\ n + 1 \in Nat /\ p.value \in Buffers /\ ks \in Stores
      /\ k \in Nat /\ k <= KeySize + 1 /\ n <= KeySize + 1 /\ l \in Nat /\ l <= KeySize + 1
      /\ Len(s) \in Nat /\ m + 1 \in Nat /\ m + 1 <= c /\ m + 1 <= Len(s) /\ (m + 1) + 1 = m + 2
      /\ m + 1 \in 0 .. Len(s) /\ m \in 0 .. Len(s)
  <2>1. p.value \in Buffers /\ p.sets \in Stores
    BY ONLY p \in Callbacks DEF Callbacks
  <2>2. Len(s) \in Nat
    BY ONLY s \in Seq(STRING), t = SpansOf(s), SpansOk
  <2>3. n \in 0 .. KeySize - 1 /\ k \in 0 .. KeySize /\ l = n + 1
    BY ONLY <1>1, p.size \in 0 .. KeySize - 1, p.key_size \in 0 .. KeySize
  <2>4. /\ n \in Nat /\ n <= KeySize /\ n + 1 \in Nat /\ k \in Nat /\ k <= KeySize + 1
        /\ n <= KeySize + 1 /\ l \in Nat /\ l <= KeySize + 1
    BY ONLY <2>3, KeySize \in Nat
  <2>5. /\ m + 1 \in Nat /\ m + 1 <= c /\ m + 1 <= Len(s) /\ (m + 1) + 1 = m + 2
        /\ m + 1 \in 0 .. Len(s) /\ m \in 0 .. Len(s)
    BY ONLY <2>2, c \in 0 .. Len(s), m \in 0 .. Len(s) - 1, m < c
  <2> QED BY ONLY <1>1, <2>1, <2>2, <2>4, <2>5
<1>3. /\ q \in Callbacks /\ q.state = 2 /\ q.size = n /\ q.key_size = k
      /\ q.sets = ks /\ ~q.back /\ q.response = "none"
      /\ q.left = Len(s) - (m + 1) /\ q.input = SubSeq(s, (m + 1) + 1, c)
      /\ q.key = p.key
  <2>1. /\ q \in Callbacks /\ q.state = p.state /\ q.size = p.size /\ q.key_size = p.key_size
        /\ q.sets = p.sets /\ q.back = p.back /\ q.response = p.response
        /\ q.left = Len(s) - (m + 1) /\ q.input = SubSeq(s, m + 2, c)
        /\ q.key = IF p.state = 1 THEN [p.key EXCEPT ![p.size] = s[m + 1]] ELSE p.key
    BY ONLY Took(p, q, s, c, m), Zenon DEF Took
  <2>2. p.state # 1
    OBVIOUS
  <2> QED BY ONLY <1>1, <1>2, <2>1, <2>2, p.state = 2, ~p.back, p.response = "none", Zenon
<1>4. q.value = [p.value EXCEPT ![n] = ch]
  BY <1>1 DEF Took
<1>5. /\ AtValue(s, t, m, i, v, q.key, k, ks) /\ Copied(p.value, n, s, v) /\ v + n = m + 1
  BY <1>1, <1>3
<1>6. v \in Nat \ {0} /\ v <= m + 1
  <2>1. i \in 0 .. Len(t) - 1 /\ v \in t[i + 1][2] + 1 .. m + 1
    BY <1>5 DEF AtValue
  <2>2. PICK b, eq, amp : PairPlaces(s, t, i, b, eq, amp)
    BY <2>1, NextSpan
  <2>3. t[i + 1] = <<b, eq, amp>> /\ eq \in b .. Len(s) /\ b \in Nat
    BY <2>2 DEF PairPlaces
  <2> QED BY <2>1, <2>3
<1>7. v + n <= Len(s) + 1 /\ v + n - 1 = m
  BY <1>2, <1>5, <1>6
<1>8. Copied(q.value, n, s, v)
  <2>1. Copied([p.value EXCEPT ![n] = ch], n, s, v)
    BY ONLY <1>2, <1>5, <1>6, KeySize \in Nat, CopiedMore
  <2> QED BY ONLY <1>4, <2>1, Zenon
<1>9. Copied(q.value, l, s, v)
  <2>1. ch = s[v + n]
    BY <1>1, <1>5
  <2>2. Copied([p.value EXCEPT ![n] = ch], n + 1, s, v)
    BY ONLY <1>2, <1>5, <1>6, <2>1, KeySize \in Nat, CopiedMore
  <2> QED BY ONLY <1>1, <1>4, <2>2, Zenon
<1>10. CASE ch = "&"
  <2>1. PICK then : then = ValueEnded(q)
    OBVIOUS
  <2>2. PartClosed(q, then)
    BY ONLY <1>3, <2>1, ValueKept
  <2>3. r = Stored(q, n, then)
    BY <1>1, <1>10, <2>1
  <2>4. PutOr404(q, n, then, r)
    <3>1. then \in Callbacks /\ then.sets = q.sets
      BY <2>2 DEF PartClosed
    <3> QED BY ONLY <1>2, <1>3, <2>3, <3>1, KeySize \in Nat, StoredOr
  <2>5. Bytes(q.value, n) = SubSeq(s, v, m)
    <3>1. Bytes(q.value, n) = SubSeq(s, v, v + n - 1)
      BY ONLY <1>2, <1>6, <1>7, <1>8, s \in Seq(STRING), CopiedText
    <3> QED BY ONLY <1>7, <3>1, Zenon
  <2>6. PICK sent : sent = <<Bytes(q.key, k), SubSeq(s, v, m)>>
    OBVIOUS
  <2>7. m + 1 \in Seps(t) /\ AtKey(s, t, m + 1, i + 1, r.key, 0, Append(ks, sent))
    BY ONLY <1>1, <1>2, <1>5, <1>10, <2>6, s \in Seq(STRING), t = SpansOf(s), ValueOver
  <2>8. CASE r.back /\ r.response = "404"
    BY <2>8 DEF Stopped
  <2>9. CASE ~(r.back /\ r.response = "404")
    <3>1. /\ r.state = 1 /\ r.size = 0 /\ r.left = q.left /\ r.back = q.back
          /\ r.response = q.response /\ r.input = q.input
      BY ONLY <2>2, <2>4, <2>9, Zenon DEF PutOr404, PartClosed
    <3>2. r.sets = Append(ks, sent)
      BY ONLY <1>3, <2>4, <2>5, <2>6, <2>9, Zenon DEF PutOr404
    <3>3. AtKey(s, t, m + 1, i + 1, r.key, r.size, r.sets)
      BY ONLY <2>7, <3>1, <3>2, Zenon
    <3>4. m + 1 < c \/ m + 1 = Len(s)
      BY <1>2, <2>7 DEF Inside
    <3> QED BY <1>3, <3>1, <3>3, <3>4 DEF Running
  <2> QED BY <2>8, <2>9
<1>11. CASE ch # "&"
  <2>1. AtValue(s, t, m + 1, i, v, q.key, k, ks)
    BY ONLY <1>1, <1>5, <1>11, s \in Seq(STRING), t = SpansOf(s), m \in 0 .. Len(s) - 1, ValueOn
  <2>2. CASE m + 1 = c /\ m + 1 < Len(s)
    <3>1. PICK then : then = ValueStopped(q)
      OBVIOUS
    <3>2. KeptValue(q, then)
      BY ONLY <1>3, <3>1, ValueKept
    <3>3. r = Stored(Noted(q), l, then)
      BY <1>1, <1>11, <2>2, <3>1
    <3>4. PutOr404(q, l, then, r)
      <4>1. PICK o : o = Noted(q)
        OBVIOUS
      <4>2. /\ o \in Callbacks /\ o.key_size = q.key_size /\ o.key = q.key
            /\ o.value = q.value /\ o.sets = q.sets
        BY ONLY <1>3, <4>1, NotedIs
      <4>3. then \in Callbacks /\ then.sets = o.sets
        BY <3>2, <4>2 DEF KeptValue
      <4>4. PutOr404(o, l, then, r)
        <5>1. o.key_size <= KeySize + 1 /\ r = Stored(o, l, then)
          BY <1>2, <1>3, <3>3, <4>1, <4>2
        <5> QED BY ONLY <1>2, <4>2, <4>3, <5>1, KeySize \in Nat, StoredOr
      <4> QED BY ONLY <4>2, <4>4, Zenon DEF PutOr404
    <3>5. PICK mm : mm = m + 1
      OBVIOUS
    <3>6. mm \in 0 .. Len(s) /\ v <= mm /\ v + l <= Len(s) + 1 /\ v + l - 1 = mm /\ mm = c
      BY <1>1, <1>2, <1>5, <1>6, <2>2, <3>5
    <3>7. Bytes(q.value, l) = SubSeq(s, v, mm)
      <4>1. Bytes(q.value, l) = SubSeq(s, v, v + l - 1)
        BY ONLY <1>2, <1>6, <1>9, <3>6, s \in Seq(STRING), CopiedText
      <4> QED BY ONLY <3>6, <4>1, Zenon
    <3>8. PICK sent : sent = <<Bytes(q.key, k), SubSeq(s, v, mm)>>
      OBVIOUS
    <3>9. AtValue(s, t, mm, i, mm + 1, q.key, k, Append(ks, sent))
      BY ONLY <1>2, <2>1, <3>5, <3>6, <3>8, s \in Seq(STRING), t = SpansOf(s), ValueSent
    <3>10. CASE r.back /\ r.response = "404"
      BY <3>10 DEF Stopped
    <3>11. CASE ~(r.back /\ r.response = "404")
      <4>1. /\ r.state = q.state /\ r.key_size = q.key_size /\ r.length = q.left
            /\ r.response = q.response /\ r.key = q.key
        BY ONLY <3>2, <3>4, <3>11, Zenon DEF PutOr404, KeptValue
      <4>2. r.back
        BY ONLY <3>2, <3>4, Zenon DEF PutOr404, KeptValue
      <4>3. r.sets = Append(ks, sent)
        BY ONLY <1>3, <3>4, <3>7, <3>8, <3>11, Zenon DEF PutOr404
      <4>4. AtValue(s, t, c, i, c + 1, r.key, r.key_size, r.sets)
        BY ONLY <1>3, <3>6, <3>9, <4>1, <4>3, Zenon
      <4>5. r.state = 2 /\ r.length = Len(s) - c /\ r.response = "none" /\ c < Len(s)
        BY <1>3, <2>2, <4>1
      <4> QED BY <4>2, <4>4, <4>5 DEF Stopped, Waits
    <3> QED BY <3>10, <3>11
  <2>3. CASE ~(m + 1 = c /\ m + 1 < Len(s))
    <3>1. OneLonger(q, r)
      <4>1. r = OneMore(q)
        BY <1>1, <1>11, <2>3
      <4> QED BY ONLY <1>3, <4>1, ValueKept
    <3>2. m + 1 < c \/ m + 1 = Len(s)
      BY <1>2, <2>3
    <3>3. AtValue(s, t, m + 1, i, v, r.key, r.key_size, r.sets)
      BY ONLY <1>3, <2>1, <3>1, Zenon DEF OneLonger
    <3>4. r.size = l
      BY ONLY <1>1, <1>3, <3>1 DEF OneLonger
    <3>5. Copied(r.value, r.size, s, v)
      BY ONLY <1>9, <3>1, <3>4, Zenon DEF OneLonger
    <3>6. v + r.size = (m + 1) + 1
      <4>1. l = n + 1 /\ v + n = m + 1
        BY <1>1, <1>5
      <4> QED BY ONLY <1>2, <1>6, <3>4, <4>1
    <3>7. /\ ~r.back /\ r.response = "none" /\ r.left = Len(s) - (m + 1) /\ r.state = 2
          /\ r.input = SubSeq(s, (m + 1) + 1, c)
      BY ONLY <1>3, <3>1, Zenon DEF OneLonger
    <3> QED BY <3>2, <3>3, <3>5, <3>6, <3>7 DEF Running
  <2> QED BY <2>2, <2>3
<1> QED BY <1>10, <1>11

LEMMA TurnRuns ==
  ASSUME NEW s \in Seq(STRING), NEW t, t = SpansOf(s), NEW c \in 0 .. Len(s), Inside(s, t, c),
         NEW m \in 0 .. Len(s) - 1, MaxBody \in Nat, KeySize \in Nat,
         NEW p \in Callbacks, NEW B \in Nat, B <= KeySize, Fits(p, B), Running(s, t, c, m, p)
  PROVE  Running(s, t, c, m + 1, Turn(p)) \/ Stopped(s, t, c, Turn(p))
<1>1. p.size \in 0 .. KeySize - 1 /\ p.key_size \in 0 .. KeySize /\ m < c
  BY TurnTakes
<1>2. PICK q : /\ Took(p, q, s, c, m)
               /\ Turn(p) =
                    IF p.state = 1 /\ s[m + 1] = "=" THEN KeyEnded(q, p.size)
                    ELSE IF p.state = 2 /\ s[m + 1] = "&" THEN Stored(q, p.size, ValueEnded(q))
                    ELSE IF m + 1 = c /\ m + 1 < Len(s)
                    THEN IF p.state = 2 THEN Stored(Noted(q), p.size + 1, ValueStopped(q))
                                        ELSE KeyStopped(q, p.size + 1)
                    ELSE OneMore(q)
  BY TurnTakes
<1>3. PICK r : r = Turn(p)
  OBVIOUS
<1>4. ~p.back /\ p.response = "none"
  BY DEF Running
<1>5. CASE p.state = 1
  <2>1. PICK i : AtKey(s, t, m, i, p.key, p.size, p.sets)
    BY <1>5 DEF Running
  <2>2. r = IF s[m + 1] = "=" THEN KeyEnded(q, p.size)
            ELSE IF m + 1 = c /\ m + 1 < Len(s) THEN KeyStopped(q, p.size + 1)
            ELSE OneMore(q)
    BY <1>2, <1>3, <1>5
  <2>3. Running(s, t, c, m + 1, r) \/ Stopped(s, t, c, r)
    BY <1>1, <1>2, <1>4, <1>5, <2>1, <2>2, KeyTurn
  <2> QED BY <1>3, <2>3
<1>6. CASE p.state = 2
  <2>1. PICK i, v : /\ AtValue(s, t, m, i, v, p.key, p.key_size, p.sets)
                    /\ Copied(p.value, p.size, s, v) /\ v + p.size = m + 1
    BY <1>6 DEF Running
  <2>2. r = IF s[m + 1] = "&" THEN Stored(q, p.size, ValueEnded(q))
            ELSE IF m + 1 = c /\ m + 1 < Len(s) THEN Stored(Noted(q), p.size + 1, ValueStopped(q))
            ELSE OneMore(q)
    BY <1>2, <1>3, <1>6
  <2>3. Running(s, t, c, m + 1, r) \/ Stopped(s, t, c, r)
    BY <1>1, <1>2, <1>4, <1>6, <2>1, <2>2, ValueTurn
  <2> QED BY <1>3, <2>3
<1> QED BY <1>5, <1>6 DEF Running

(* What the loop has come to when it was called with the M-th character    *)
(* still to come, or the last one was taken.                               *)
LEMMA LoopRuns ==
  ASSUME NEW s \in Seq(STRING), NEW t, t = SpansOf(s), NEW M \in 0 .. Len(s),
         NEW c \in M .. Len(s), M < c \/ M = Len(s), Inside(s, t, c),
         MaxBody \in Nat, KeySize \in Nat, NEW B \in Nat, B <= KeySize,
         NEW N, N = Len(s) - M, NEW f \in [0 .. N -> {p \in Callbacks : Fits(p, B)}],
         Running(s, t, c, M, f[0]), \A n \in 1 .. N : f[n] = Turn(f[n - 1])
  PROVE  Running(s, t, c, Len(s), f[N]) \/ Stopped(s, t, c, f[N])
<1> DEFINE T == {n \in 0 .. N : Running(s, t, c, M + n, f[n]) \/ Stopped(s, t, c, f[n])}
<1>1. N \in Nat /\ M \in Nat /\ Len(s) \in Nat /\ c \in 0 .. Len(s) /\ M + N = Len(s) /\ M + 0 = M
  OBVIOUS
<1>2. 0 \in T
  BY <1>1
<1>3. ASSUME NEW n \in 1 .. N, n - 1 \in T PROVE n \in T
  <2>1. PICK p, m : p = f[n - 1] /\ m = M + (n - 1)
    OBVIOUS
  <2>2. n \in 0 .. N /\ n - 1 \in 0 .. N /\ m + 1 = M + n /\ m \in 0 .. Len(s) - 1
    BY <1>1, <2>1
  <2>3. p \in Callbacks /\ Fits(p, B)
    BY <2>1, <2>2
  <2>4. f[n] = Turn(p)
    BY <2>1
  <2>5. Running(s, t, c, m, p) \/ Stopped(s, t, c, p)
    BY <1>3, <2>1
  <2>6. CASE Running(s, t, c, m, p)
    <3>1. Running(s, t, c, m + 1, Turn(p)) \/ Stopped(s, t, c, Turn(p))
      BY ONLY <1>1, <2>2, <2>3, <2>6, s \in Seq(STRING), t = SpansOf(s), Inside(s, t, c),
              MaxBody \in Nat, KeySize \in Nat, B \in Nat, B <= KeySize, TurnRuns
    <3> QED BY <2>2, <2>4, <3>1
  <2>7. CASE Stopped(s, t, c, p)
    <3>1. p.back
      BY <2>7 DEF Stopped
    <3>2. Turn(p) = p
      BY <3>1 DEF Turn
    <3> QED BY <2>2, <2>4, <2>7, <3>2
  <2> QED BY <2>5, <2>6, <2>7
<1> HIDE DEF T
<1>4. N \in T
  <2>1. \A n \in 0 .. N : n \in T
    BY <1>1, <1>2, <1>3, UpToN
  <2> QED BY <1>1, <2>1
<1> QED BY <1>1, <1>4 DEF T

(* What a call of read_cb leaves that has come to the c-th character. *)
Answered(s, t, c, k) ==
  \/ k.response = "404"
  \/ /\ k.response = "none" /\ c < Len(s) /\ k.length = Len(s) - c
     /\ Waits(s, t, c, k.state, k.key, k.key_size, k.sets)
  \/ k.response = "none" /\ c = Len(s) /\ ~EndsInValue(s)
  \/ k.response = "ok" /\ c = Len(s) /\ SameStore(k.sets, PairsOf(s))

LEMMA EndRuns ==
  ASSUME NEW s \in Seq(STRING), NEW t, t = SpansOf(s), NEW c \in 0 .. Len(s),
         MaxBody \in Nat, KeySize \in Nat,
         NEW p \in Callbacks, NEW B \in Nat, B <= KeySize, Fits(p, B),
         Running(s, t, c, Len(s), p) \/ Stopped(s, t, c, p), NEW k, k = BodyEnd(p)
  PROVE  Answered(s, t, c, k)
<1>1. CASE Stopped(s, t, c, p)
  <2>1. k = p
    BY <1>1 DEF Stopped, BodyEnd
  <2> QED BY <1>1, <2>1 DEF Stopped, Answered
<1>2. CASE Running(s, t, c, Len(s), p)
  <2>1. /\ ~p.back /\ p.response = "none" /\ Len(s) <= c /\ Len(s) \in Nat
    BY <1>2 DEF Running
  <2>2. c = Len(s)
    BY <2>1
  <2>3. CASE p.state = 1
    <3>1. k = p
      BY <2>3 DEF BodyEnd
    <3>2. PICK i : AtKey(s, t, Len(s), i, p.key, p.size, p.sets)
      BY <1>2, <2>3 DEF Running
    <3>3. p.size \in Nat
      BY DEF Callbacks
    <3>4. ~EndsInValue(s)
      BY <3>2, <3>3, KeyLast
    <3> QED BY <2>1, <2>2, <3>1, <3>4 DEF Answered
  <2>4. CASE p.state = 2
    <3>1. PICK i, v : /\ AtValue(s, t, Len(s), i, v, p.key, p.key_size, p.sets)
                      /\ Copied(p.value, p.size, s, v) /\ v + p.size = Len(s) + 1
      BY <1>2, <2>4 DEF Running
    <3>2. PICK then : then = [p EXCEPT !.state = 1, !.length = 0, !.key_size = 0, !.response = "ok"]
      OBVIOUS
    <3>3. k = Stored(p, p.size, then)
      BY <2>1, <2>4, <3>2 DEF BodyEnd
    <3>4. then \in Callbacks /\ then.sets = p.sets /\ then.response = "ok"
      <4>1. 0 \in 0 .. MaxBody
        OBVIOUS
      <4> QED BY ONLY <3>2, <4>1, p \in Callbacks DEF Callbacks
    <3>5. p.size \in Nat /\ p.key_size \in Nat /\ p.left \in Nat /\ p.sets \in Stores
      BY DEF Callbacks
    <3>6. p.size <= KeySize + 1 /\ p.key_size <= KeySize + 1
      BY <2>1, <3>5 DEF Fits
    <3>7. PutOr404(p, p.size, then, k)
      BY <3>3, <3>4, <3>5, <3>6, StoredOr
    <3>8. v \in Nat \ {0}
      <4>1. i \in 0 .. Len(t) - 1 /\ v \in t[i + 1][2] + 1 .. Len(s) + 1
        BY <3>1 DEF AtValue
      <4>2. PICK b, eq, amp : PairPlaces(s, t, i, b, eq, amp)
        BY <4>1, NextSpan
      <4>3. t[i + 1] = <<b, eq, amp>> /\ eq \in b .. Len(s) /\ b \in Nat
        BY <4>2 DEF PairPlaces
      <4> QED BY <4>1, <4>3
    <3>9. Bytes(p.value, p.size) = SubSeq(s, v, Len(s))
      <4>1. v + p.size <= Len(s) + 1 /\ v + p.size - 1 = Len(s)
        BY <2>1, <3>1, <3>5, <3>8
      <4>2. Bytes(p.value, p.size) = SubSeq(s, v, v + p.size - 1)
        BY <3>1, <3>5, <3>8, <4>1, CopiedText
      <4> QED BY ONLY <4>1, <4>2, Zenon
    <3>10. PICK sent : sent = <<Bytes(p.key, p.key_size), SubSeq(s, v, Len(s))>>
      OBVIOUS
    <3>11. SameStore(Append(p.sets, sent), PairsOf(s))
      BY <3>1, <3>5, <3>10, LastSent
    <3>12. CASE k.response = "404"
      BY <3>12 DEF Answered
    <3>13. CASE k.response # "404"
      <4>1. k.response = "ok" /\ k.sets = Append(p.sets, sent)
        BY ONLY <3>4, <3>7, <3>9, <3>10, <3>13, Zenon DEF PutOr404
      <4>2. SameStore(k.sets, PairsOf(s))
        BY ONLY <3>11, <4>1, Zenon
      <4> QED BY <2>2, <4>1, <4>2 DEF Answered
    <3> QED BY <3>12, <3>13
  <2> QED BY <1>2, <2>3, <2>4 DEF Running
<1> QED BY <1>1, <1>2

(* The loop of this call, turn by turn. *)
LoopOf(th, B, input, refused, k) ==
  \E f \in [0 .. th.length -> {p \in Callbacks : Fits(p, B)}] :
    /\ f[0] = Entered(th, input, refused)
    /\ \A n \in 1 .. th.length : f[n] = Turn(f[n - 1])
    /\ k = BodyEnd(f[th.length])

Inputs == Seq(STRING)

LEMMA CalledLoop ==
  ASSUME NEW th \in Threads, th.state \in {1, 2}, NEW B \in Nat, B <= KeySize, KeySize \in Nat,
         MaxBody \in Nat, MaxBody <= B, th.key_size + th.length <= B, sets \in Stores,
         NEW input \in Inputs, NEW refused \in Int, NEW k, k = Called(th, input, refused)
  PROVE  LoopOf(th, B, input, refused, k)
<1>1. input \in Seq(STRING)
  BY DEF Inputs
<1> QED BY <1>1, CalledBy DEF LoopOf

(* One call of read_cb, wherever the body was cut before. *)
LEMMA CallRuns ==
  ASSUME NEW s \in Seq(STRING), NEW t, t = SpansOf(s), NEW M \in 0 .. Len(s),
         NEW c \in M .. Len(s), M < c \/ M = Len(s), Inside(s, t, c),
         NEW th \in Threads, th.state \in {1, 2}, th.length = Len(s) - M,
         Waits(s, t, M, th.state, th.key, th.key_size, sets),
         NEW B \in Nat, B <= KeySize, KeySize \in Nat, MaxBody \in Nat, MaxBody <= B,
         th.key_size + th.length <= B, sets \in Stores,
         NEW input, input = SubSeq(s, M + 1, c), input \in Seq(STRING),
         NEW refused \in Int, NEW k, k = Called(th, input, refused)
  PROVE  Answered(s, t, c, k)
<1>1. PICK N : N = th.length
  OBVIOUS
<1>2. PICK f \in [0 .. N -> {p \in Callbacks : Fits(p, B)}] :
        /\ f[0] = Entered(th, input, refused)
        /\ \A n \in 1 .. N : f[n] = Turn(f[n - 1])
        /\ k = BodyEnd(f[N])
  <2>1. LoopOf(th, B, input, refused, k)
    <3>1. input \in Inputs
      BY DEF Inputs
    <3> QED BY ONLY <3>1, th \in Threads, th.state \in {1, 2}, B \in Nat, B <= KeySize,
            KeySize \in Nat, MaxBody \in Nat, MaxBody <= B, th.key_size + th.length <= B,
            sets \in Stores, refused \in Int, k = Called(th, input, refused), CalledLoop
  <2> QED BY ONLY <1>1, <2>1, Zenon DEF LoopOf
<1>3. PICK p : p = Entered(th, input, refused)
  OBVIOUS
<1>4. /\ ~p.back /\ p.response = "none" /\ p.left = Len(s) - M /\ p.input = SubSeq(s, M + 1, c)
      /\ p.state = th.state /\ p.key = th.key /\ p.key_size = th.key_size /\ p.sets = sets
      /\ p.size = IF th.state = 1 THEN th.key_size ELSE 0
  BY <1>3 DEF Entered
<1>5. Running(s, t, c, M, p)
  <2>1. CASE th.state = 1
    <3>1. PICK i : AtKey(s, t, M, i, th.key, th.key_size, sets)
      BY <2>1 DEF Waits
    <3>2. p.size = th.key_size
      BY <1>4, <2>1
    <3>3. AtKey(s, t, M, i, p.key, p.size, p.sets)
      BY ONLY <1>4, <3>1, <3>2, Zenon
    <3> QED BY <1>4, <2>1, <3>3 DEF Running
  <2>2. CASE th.state = 2
    <3>1. PICK i : AtValue(s, t, M, i, M + 1, th.key, th.key_size, sets)
      BY <2>2 DEF Waits
    <3>2. p.size = 0
      BY <1>4, <2>2
    <3>3. AtValue(s, t, M, i, M + 1, p.key, p.key_size, p.sets)
      BY ONLY <1>4, <3>1, Zenon
    <3>4. Copied(p.value, p.size, s, M + 1) /\ (M + 1) + p.size = M + 1
      BY <3>2 DEF Copied
    <3> QED BY <1>4, <2>2, <3>3, <3>4 DEF Running
  <2> QED BY <2>1, <2>2
<1>6. Running(s, t, c, M, f[0]) /\ N = Len(s) - M
  BY <1>1, <1>2, <1>3, <1>5
<1>7. Running(s, t, c, Len(s), f[N]) \/ Stopped(s, t, c, f[N])
  BY <1>2, <1>6, LoopRuns
<1>8. PICK r : r = f[N]
  OBVIOUS
<1>9. r \in Callbacks /\ Fits(r, B) /\ k = BodyEnd(r)
  <2>1. N \in 0 .. N
    BY <1>1 DEF Threads
  <2> QED BY <1>2, <1>8, <2>1
<1>10. c \in 0 .. Len(s)
  OBVIOUS
<1> QED BY <1>7, <1>8, <1>9, <1>10, EndRuns

LEMMA AnsweredSame ==
  ASSUME NEW s, NEW t, NEW c, NEW k, Answered(s, t, c, k), NEW l,
         l.response = k.response, l.length = k.length, l.state = k.state, l.key = k.key,
         l.key_size = k.key_size, l.sets = k.sets
  PROVE  Answered(s, t, c, l)
BY DEF Answered

(* What the thread and the store hold of the request. *)
KeptNow == [response |-> response, length |-> thread.length, state |-> thread.state,
            key |-> thread.key, key_size |-> thread.key_size, sets |-> sets]

(* The request is one that StoredAsSent speaks of. *)
Proper == clean /\ cutInside /\ Meant(head).length = Len(body)

(* What p_info holds between two calls is what the rest of the body needs. *)
StoreInv ==
  /\ BodyInv
  /\ thread.working = 0 => came = 0 /\ sets = <<>> /\ response # "ok"
  /\ clean /\ thread.working = 0 /\ response = "none" => thread.key_size = 0
  /\ Proper /\ thread.working = 1 => Answered(body, SpansOf(body), came, KeptNow)

LEMMA PostLength ==
  ASSUME NEW L, NEW lines \in Seq(L), NEW V, 0 \in V, NEW length \in V, LengthsIn(lines, V),
         EventHead(lines, length).verdict.does = "post"
  PROVE  EventHead(lines, length).length = Meant(lines).length
<1>1. PICK v, m, e : /\ e = EventHead(lines, length) /\ v = e.verdict /\ m = Meant(lines)
  OBVIOUS
<1>2. v = [m EXCEPT !.encode = FALSE]
  BY <1>1, HeadRight, Zenon
<1>3. v.length = m.length
  <2>1. m = Refused \/ m = Crashed \/ (\E t : m = Gets(t)) \/ (\E n, d : m = Posts(n, d))
    BY <1>1 DEF Meant
  <2>2. PICK a, b, c, d : m = [does |-> a, length |-> b, encode |-> c, target |-> d]
    BY <2>1 DEF Refused, Crashed, Gets, Posts
  <2> QED BY <1>2, <2>2
<1>4. v.does = "post"
  BY <1>1
<1>5. PICK h : h = Lines(lines, [NothingRead EXCEPT !.length = length])
  OBVIOUS
<1>6. PICK verdict : verdict = IF h.crashed THEN Crashed
                 ELSE IF ~h.host THEN Refused
                 ELSE CASE lines[1][1] = "POST" /\ ~NoContent(h) -> Posts(h.length, FALSE)
                        [] lines[1][1] = "GET" -> Gets(lines[1][2])
                        [] OTHER -> Refused
  OBVIOUS
<1>7. e = IF lines = <<>> \/ ~FirstLine(lines[1]) THEN [verdict |-> Refused, length |-> length]
          ELSE [verdict |-> verdict, length |-> h.length]
  BY <1>1, <1>5, <1>6 DEF EventHead
<1>8. Refused.does = "404" /\ Crashed.does = "crash" /\ \A t : Gets(t).does = "get"
      /\ \A n : Posts(n, FALSE).length = n
  BY DEF Refused, Crashed, Gets, Posts
<1>9. e.verdict = verdict /\ e.length = h.length
  BY <1>1, <1>4, <1>7, <1>8
<1>10. verdict = Posts(h.length, FALSE)
  BY <1>1, <1>4, <1>6, <1>8, <1>9
<1> QED BY <1>1, <1>3, <1>8, <1>9, <1>10

LEMMA PartTyped ==
  ASSUME NEW S, NEW s \in Seq(S), NEW a \in Nat \ {0}, NEW z \in Int, z <= Len(s)
  PROVE  SubSeq(s, a, z) \in Seq(S)
<1>1. \A i \in a .. z : i \in 1 .. Len(s)
  OBVIOUS
<1> QED BY <1>1, SubSeqProperties

LEMMA BodyIsStored ==
  ASSUME BodyInv, NEW o \in Threads, o.state \in {1, 2},
         o.key_size + o.length <= request * MaxBody, NEW n \in Nat, came + n <= Len(body),
         ReadBody(o, n),
         Proper => /\ came = 0 \/ n > 0
                   /\ o.length = Len(body) - came
                   /\ Waits(body, SpansOf(body), came, o.state, o.key, o.key_size, sets)
  PROVE  StoreInv'
<1>1. /\ request \in 1 .. MaxRequests /\ body \in Seq(STRING) /\ Len(body) \in Nat
      /\ came \in 0 .. Len(body) /\ sets \in Stores
  BY PlanIs DEF BodyInv, body
<1>2. PICK B : B = request * MaxBody
  OBVIOUS
<1>3. /\ B \in Nat /\ B <= KeySize /\ KeySize \in Nat /\ MaxBody \in Nat /\ MaxBody <= B
  BY <1>1, <1>2, Room
<1>4. PICK input : input = SubSeq(body, came + 1, came + n)
  OBVIOUS
<1>5. input \in Seq(STRING)
  <2>1. came + 1 \in Nat \ {0} /\ came + n <= Len(body) /\ came + n \in Int
    BY <1>1
  <2> QED BY ONLY <1>1, <1>4, <2>1, PartTyped
<1>6. PICK refused \in {-1} \cup (Len(sets) .. Len(sets) + 1) :
        LET p == Called(o, input, refused)
        IN  /\ sets' = p.sets /\ response' = p.response
            /\ thread' = [working |-> 1, state |-> p.state, length |-> p.length,
                          key |-> p.key, key_size |-> p.key_size]
  BY <1>4 DEF ReadBody
<1>7. refused \in Int
  <2>1. Len(sets) \in Nat
    BY <1>1 DEF Stores
  <2> QED BY <2>1
<1>8. PICK k : k = Called(o, input, refused)
  OBVIOUS
<1>9. /\ sets' = k.sets /\ response' = k.response
      /\ thread' = [working |-> 1, state |-> k.state, length |-> k.length,
                    key |-> k.key, key_size |-> k.key_size]
  BY <1>6, <1>8
<1>10. BodyInv'
  BY BodyIsRead
<1>11. /\ plan' = plan /\ request' = request /\ clean' = clean /\ came' = came + n
       /\ cutInside' = (cutInside /\ (came' = Len(body) \/ came' \notin Separators \cup {0}))
  BY DEF ReadBody
<1>12. body' = body /\ head' = head
  BY <1>11 DEF body, head
<1>13. thread'.working = 1
  BY <1>9
<1>14. PICK t, s, M, c : t = SpansOf(body) /\ s = body /\ M = came /\ c = came + n
  OBVIOUS
<1>15. ASSUME Proper' PROVE Answered(body, SpansOf(body), came', KeptNow')
  <2>1. Proper /\ (came' = Len(body) \/ came' \notin Separators \cup {0})
    BY <1>11, <1>12, <1>15 DEF Proper
  <2>2. Inside(s, t, c)
    BY <1>11, <1>14, <2>1 DEF Inside, Seps, Separators
  <2>3. /\ came = 0 \/ n > 0
        /\ o.length = Len(s) - M
        /\ Waits(s, t, M, o.state, o.key, o.key_size, sets)
    BY <1>14, <2>1
  <2>4. M < c \/ M = Len(s)
    <3>1. CASE n > 0
      BY <1>1, <1>14, <3>1
    <3>2. CASE n = 0 /\ came = 0
      <4>1. c = 0 /\ M = 0
        BY <1>14, <3>2
      <4> QED BY <2>2, <4>1 DEF Inside
    <3> QED BY <2>3, <3>1, <3>2
  <2>5. /\ s \in Seq(STRING) /\ M \in 0 .. Len(s) /\ c \in M .. Len(s) /\ input = SubSeq(s, M + 1, c)
        /\ t = SpansOf(s)
    BY <1>1, <1>4, <1>14
  <2>6. Answered(s, t, c, k)
    BY ONLY <1>1, <1>2, <1>3, <1>5, <1>7, <1>8, <2>2, <2>3, <2>4, <2>5, o \in Threads,
            o.state \in {1, 2}, o.key_size + o.length <= request * MaxBody, CallRuns
  <2>7. PICK l : l = KeptNow'
    OBVIOUS
  <2>8. /\ l.response = k.response /\ l.length = k.length /\ l.state = k.state /\ l.key = k.key
        /\ l.key_size = k.key_size /\ l.sets = k.sets
    BY <1>9, <2>7 DEF KeptNow
  <2>9. Answered(s, t, c, l)
    BY <2>6, <2>8, AnsweredSame
  <2> QED BY <1>11, <1>14, <2>7, <2>9
<1>16. Proper' => Answered(body, SpansOf(body), came, KeptNow)'
  BY <1>12, <1>15
<1> QED BY <1>10, <1>13, <1>16 DEF StoreInv

(* Nothing is read yet. *)
LEMMA StoreBegins ==
  ASSUME NEW s \in Seq(STRING), NEW key
  PROVE  Waits(s, SpansOf(s), 0, 1, key, 0, <<>>)
<1>1. PICK t : t = SpansOf(s)
  OBVIOUS
<1>2. Len(t) \in Nat
  BY <1>1, SpansOfAre DEF SpansAre, Spans
<1>3. 0 \in 0 .. Len(t) /\ Start(t, 0) + 0 = 0 + 1
  BY <1>2 DEF Start
<1>4. 0 < Len(t) => 0 < t[0 + 1][2]
  <2> SUFFICES ASSUME 0 < Len(t) PROVE 0 < t[0 + 1][2]
    OBVIOUS
  <2>1. 0 \in 0 .. Len(t) - 1
    BY <1>2
  <2>2. PICK b, eq, amp : PairPlaces(s, t, 0, b, eq, amp)
    BY <1>1, <2>1, NextSpan
  <2>3. t[0 + 1] = <<b, eq, amp>> /\ eq \in b .. Len(s) /\ b \in Nat \ {0}
    BY <2>2 DEF PairPlaces
  <2> QED BY <2>3
<1>5. Copied(key, 0, s, Start(t, 0))
  BY DEF Copied
<1>6. FirstPairs(s, 0) = <<>>
  BY FrontIs
<1>7. SameStore(<<>>, FirstPairs(s, 0))
  BY <1>6 DEF SameStore
<1>8. AtKey(s, t, 0, 0, key, 0, <<>>)
  BY <1>3, <1>4, <1>5, <1>7 DEF AtKey
<1> QED BY <1>1, <1>8 DEF Waits

LEMMA NothingEnds == ~EndsInValue(<<>>)
<1>1. PICK s, t : s = <<>> /\ t = SpansOf(s)
  OBVIOUS
<1>2. s \in Seq(STRING) /\ Len(s) = 0
  BY <1>1
<1>3. SpansAre(s, t) /\ t \in Spans
  BY <1>1, <1>2, SpansOfAre DEF SpansAre
<1> SUFFICES ASSUME t # <<>> PROVE FALSE
  BY <1>1 DEF EndsInValue
<1>4. Len(t) \in Nat /\ Len(t) # 0
  BY <1>3 DEF Spans
<1>5. 0 \in 0 .. Len(t) - 1
  BY <1>4
<1>6. PICK b, eq, amp : PairPlaces(s, t, 0, b, eq, amp)
  BY <1>1, <1>2, <1>5, NextSpan
<1> QED BY <1>2, <1>6 DEF PairPlaces

LEMMA StoreInvHolds == BodySpec => []StoreInv
<1>1. BodyInit /\ BodyInv => StoreInv
  BY DEF BodyInit, StoreInv
<1>2. BodyInv /\ BodyInv' /\ StoreInv /\ [BodyNext]_bodyVars => StoreInv'
  <2> SUFFICES ASSUME BodyInv, BodyInv', StoreInv, [BodyNext]_bodyVars PROVE StoreInv'
    OBVIOUS
  <2>1. /\ plan \in Plans /\ request \in 1 .. Len(plan) /\ came \in 0 .. Len(body)
        /\ sets \in Stores /\ thread \in Threads /\ request \in 1 .. MaxRequests
        /\ Len(body) \in Nat /\ body \in Seq(STRING)
    BY PlanIs DEF BodyInv, body
  <2>2. /\ MaxBody \in Nat /\ request * MaxBody \in Nat /\ (request - 1) * MaxBody \in Nat
        /\ (request - 1) * MaxBody + MaxBody = request * MaxBody
    BY <2>1, Room
  <2>3. CASE NextRequest
    <3>1. /\ came' = 0 /\ sets' = <<>> /\ response' = "none"
          /\ clean' = (response = "ok" \/ thread.key_size = 0)
          /\ thread' = [thread EXCEPT !.working = 0]
      BY <2>3 DEF NextRequest
    <3>2. thread'.working = 0 /\ thread'.key_size = thread.key_size
      BY <2>1, <3>1 DEF Threads
    <3>3. response = "ok" => thread.key_size = 0
      BY DEF BodyInv
    <3>4. clean' => thread'.key_size = 0
      BY ONLY <3>1, <3>2, <3>3, Zenon
    <3>5. thread'.working # 1 /\ response' # "ok" /\ came' = 0 /\ sets' = <<>>
      BY <3>1, <3>2
    <3> QED BY <3>4, <3>5 DEF StoreInv
  <2>4. ASSUME NEW n \in 0 .. MaxBody, ReadHead(n) PROVE StoreInv'
    <3>1. PICK read, th : /\ read = EventHead(head, thread.length)
                          /\ th = [thread EXCEPT !.length = read.length]
      OBVIOUS
    <3>2. head \in Seq(ToSet(head)) /\ LengthsIn(head, 0 .. MaxBody)
      BY <2>1, PlanIs DEF head
    <3>3. thread.length \in 0 .. MaxBody /\ 0 \in 0 .. MaxBody
      BY <2>1, <2>2 DEF Threads
    <3>4. read.length \in 0 .. MaxBody
      BY <3>1, <3>2, <3>3, HeadRight
    <3>5. /\ th \in Threads /\ th.working = thread.working /\ th.length = read.length
          /\ th.key_size = thread.key_size /\ th.state = thread.state
      BY <2>1, <3>1, <3>4 DEF Threads
    <3>6. /\ response = "none" /\ thread.working = 0 /\ came + n <= Len(body)
          /\ IF read.verdict.does = "post" THEN ReadBody(Opened(th), n)
             ELSE /\ response' = read.verdict.does /\ thread' = th
                  /\ UNCHANGED <<plan, request, came, sets, cutInside, clean>>
      BY <2>4, <3>1 DEF ReadHead
    <3>7. came = 0 /\ sets = <<>> /\ (clean => thread.key_size = 0)
      BY <3>6 DEF StoreInv
    <3>8. CASE read.verdict.does = "post"
      <4>1. PICK o : o = Opened(th)
        OBVIOUS
      <4>2. o \in Threads /\ o.state = 1 /\ o.key_size = thread.key_size /\ o.length = read.length
        BY <3>5, <4>1 DEF Opened, Threads
      <4>3. o.key_size + o.length <= request * MaxBody
        <5>1. thread.key_size \in Nat /\ thread.key_size <= (request - 1) * MaxBody
          BY <2>1, <3>6 DEF BodyInv, Threads
        <5> QED BY <2>2, <3>4, <4>2, <5>1
      <4>4. read.length = Meant(head).length
        BY <3>1, <3>2, <3>3, <3>8, PostLength
      <4>5. ASSUME Proper
            PROVE  /\ came = 0 \/ n > 0
                   /\ o.length = Len(body) - came
                   /\ Waits(body, SpansOf(body), came, o.state, o.key, o.key_size, sets)
        <5>1. o.key_size = 0 /\ o.length = Len(body)
          BY <3>7, <4>2, <4>4, <4>5 DEF Proper
        <5>2. Waits(body, SpansOf(body), 0, 1, o.key, 0, <<>>)
          BY <2>1, StoreBegins
        <5>3. Waits(body, SpansOf(body), came, o.state, o.key, o.key_size, sets)
          BY ONLY <3>7, <4>2, <5>1, <5>2, Zenon
        <5> QED BY <2>1, <3>7, <5>1, <5>3
      <4>6. n \in Nat /\ ReadBody(o, n) /\ o.state \in {1, 2}
        BY <2>2, <3>6, <3>8, <4>1, <4>2
      <4> QED BY ONLY BodyInv, <3>6, <4>2, <4>3, <4>5, <4>6, BodyIsStored
    <3>9. CASE read.verdict.does # "post"
      <4>1. /\ response' = read.verdict.does /\ thread' = th
            /\ UNCHANGED <<plan, request, came, sets, clean>>
        BY <3>6, <3>9
      <4>2. read.verdict.does \in {"404", "crash", "get"}
        <5>1. read.verdict.does \in {"404", "crash", "get", "post"}
          BY <3>1, <3>2, <3>3, VerdictDoes
        <5> QED BY <3>9, <5>1
      <4>3. thread'.working = 0 /\ came' = 0 /\ sets' = <<>> /\ response' \notin {"none", "ok"}
        BY <3>5, <3>6, <3>7, <4>1, <4>2
      <4> QED BY <4>3 DEF StoreInv
    <3> QED BY <3>8, <3>9
  <2>5. ASSUME NEW n \in 0 .. MaxBody, ReadOn(n) PROVE StoreInv'
    <3>1. /\ response = "none" /\ thread.working = 1 /\ n > 0 /\ came + n <= Len(body)
          /\ ReadBody(thread, n)
      BY <2>5 DEF ReadOn
    <3>2. thread.state \in {1, 2} /\ thread.key_size + thread.length <= request * MaxBody
      BY <3>1 DEF BodyInv
    <3>3. n \in Nat /\ came < Len(body)
      BY <2>1, <2>2, <3>1
    <3>4. ASSUME Proper
          PROVE  /\ came = 0 \/ n > 0
                 /\ thread.length = Len(body) - came
                 /\ Waits(body, SpansOf(body), came, thread.state, thread.key, thread.key_size, sets)
      <4>1. PICK k : k = KeptNow
        OBVIOUS
      <4>2. Answered(body, SpansOf(body), came, k)
        BY <3>1, <3>4, <4>1 DEF StoreInv
      <4>3. /\ k.response = response /\ k.length = thread.length /\ k.state = thread.state
            /\ k.key = thread.key /\ k.key_size = thread.key_size /\ k.sets = sets
        BY <4>1 DEF KeptNow
      <4>4. k.response = "none" /\ came # Len(body)
        BY <2>1, <3>1, <3>3, <4>3
      <4>5. k.length = Len(body) - came
            /\ Waits(body, SpansOf(body), came, k.state, k.key, k.key_size, k.sets)
        BY <4>2, <4>4 DEF Answered
      <4>6. Waits(body, SpansOf(body), came, thread.state, thread.key, thread.key_size, sets)
        BY ONLY <4>3, <4>5, Zenon
      <4> QED BY <3>1, <4>3, <4>5, <4>6
    <3>5. thread \in Threads
      BY <2>1
    <3> QED BY ONLY BodyInv, <3>1, <3>2, <3>3, <3>4, <3>5, BodyIsStored
  <2>6. CASE UNCHANGED bodyVars
    <3>1. UNCHANGED <<body, head, came, clean, cutInside, thread, response, sets>>
      BY <2>6 DEF bodyVars, body, head
    <3>2. KeptNow' = KeptNow /\ Proper' = Proper
      BY <3>1 DEF KeptNow, Proper
    <3> QED BY <3>1, <3>2 DEF StoreInv
  <2> QED BY <2>3, <2>4, <2>5, <2>6 DEF BodyNext
<1>3. BodySpec => []BodyInv
  BY BodyInvHolds
<1> QED BY <1>1, <1>2, <1>3, PTL DEF BodySpec

(* Whatever bodies a thread of the event-driven server is sent, and        *)
(* however each is cut into parts: unless a part ends right behind a       *)
(* separator or the header, or an earlier request has left a piece of its  *)
(* key in p_info, the client hears OK when a body that ends in a value is  *)
(* through, and then Redis holds every value of it whole and under its key *)
(* and nothing else of it (webserver1.c:292-532).                          *)
THEOREM ValuesStored == BodySpec => []StoredAsSent
<1>1. StoreInv => StoredAsSent
  <2> SUFFICES ASSUME StoreInv, Proper, response # "404"
               PROVE  /\ came = Len(body) /\ EndsInValue(body) => response = "ok"
                      /\ response = "ok" =>
                           /\ came = Len(body)
                           /\ KeysOf(sets) = KeysOf(PairsOf(body))
                           /\ \A k \in KeysOf(sets) : Total(sets, k) = Total(PairsOf(body), k)
    BY DEF StoredAsSent, Proper
  <2>1. /\ request \in 1 .. Len(plan) /\ came \in 0 .. Len(body) /\ thread \in Threads
        /\ Len(body) \in Nat /\ body \in Seq(STRING)
    BY PlanIs DEF StoreInv, BodyInv, body
  <2>2. CASE thread.working = 0
    <3>1. came = 0 /\ response # "ok"
      BY <2>2 DEF StoreInv
    <3>2. came = Len(body) => body = <<>>
      BY <2>1, <3>1
    <3> QED BY <3>1, <3>2, NothingEnds
  <2>3. CASE thread.working = 1
    <3>1. PICK k : k = KeptNow
      OBVIOUS
    <3>2. k.response = response /\ k.sets = sets
      BY <3>1 DEF KeptNow
    <3>3. Answered(body, SpansOf(body), came, k)
      BY <2>3, <3>1 DEF StoreInv
    <3>4. \/ response = "none" /\ came # Len(body)
          \/ response = "none" /\ ~EndsInValue(body)
          \/ response = "ok" /\ came = Len(body) /\ SameStore(sets, PairsOf(body))
      BY <2>1, <3>2, <3>3 DEF Answered
    <3> QED BY <3>4 DEF SameStore
  <2> QED BY <2>1, <2>2, <2>3 DEF Threads
<1> QED BY <1>1, StoreInvHolds, PTL
=============================================================================

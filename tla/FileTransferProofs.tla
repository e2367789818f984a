------------------------- MODULE FileTransferProofs -------------------------
(***************************************************************************)
(* For any number of clients, files of any length, any sequence numbers    *)
(* and process ids used again and again: what the server publishes under a *)
(* name is the whole file of a client that asked for that name, and it is  *)
(* never written again.                                                    *)
(***************************************************************************)
EXTENDS FileTransfer, SequenceTheorems, TLAPS

Unit == ({"header"} \X Nat \X Nat \X Nat) \cup ({"piece"} \X Piece)

-----------------------------------------------------------------------------
(* The stream of a client behind its hello. *)

(* Pieces in the block that begins behind piece o. *)
InBlock(c, o) == IF Length[c] - o < 2 THEN Length[c] - o ELSE 2

BlockAt(u, p, c, o, n) ==
  /\ u[p] = Header(3, n % SeqMod, InBlock(c, o))
  /\ \A i \in 1 .. InBlock(c, o) : u[p + i] = <<"piece", File(c)[o + i]>>

NameAt(u, p, c, n) ==
  /\ u[p] = Header(4, n % SeqMod, 2)
  /\ \A i \in 1 .. 2 : u[p + i] = <<"piece", FullName(c)[i]>>

(* u is the m blocks with the pieces behind o up to n, numbered from s on, *)
(* and behind them the name if the client is done.                         *)
Ordered(c, u, o, n, done, s, m) ==
  /\ o <= n /\ n <= Length[c]
  /\ n - o = 2 * m \/ (n - o = 2 * m - 1 /\ n = Length[c])
  /\ Len(u) = m + (n - o) + (IF done THEN 3 ELSE 0)
  /\ \A j \in 0 .. m - 1 : BlockAt(u, 3 * j + 1, c, o + 2 * j, s + j)
  /\ done => n = Length[c] /\ NameAt(u, m + (n - o) + 1, c, s + m)

(* The stream of a client that stands at label a, with number q and reply  *)
(* r: pieces up to o are written and up to n sent, s numbers the first     *)
(* message and the client's own number is that of the last one.            *)
Whole(c, u, o, n, a, q, r, s) ==
  \E m \in 0 .. Len(u) :
    /\ Ordered(c, u, o, n, a = "done", s, m)
    /\ a = "sending" => q = s + m - 1
    /\ a = "greeting" => m = 0 /\ n = 0 /\ r = q + 1 /\ s = r + 1

Opened(c) == pc[c] \in {"header", "payload", "store"}

(* What the child has still to handle, with the header in its hands. *)
Stream(c) == IF pc[c] = "header" THEN toServer[c] ELSE <<header[c]>> \o toServer[c]
First(c) == IF pc[c] = "header" THEN seq[c] + 1 ELSE seq[c]

WholeNow(c) ==
  Whole(c, Stream(c), offset[c], sent[c], at[c], conn_seq[c], reply[c], First(c))

(* Behind a read that came back short, what is left of the payload stands  *)
(* where a header should be; otherwise the stream is whole.                *)
FlowOf(c) ==
  /\ at[c] = "new" => pc[c] = "none"
  /\ pc[c] = "none" <=> c \notin accepted
  /\ at[c] = "failed" => ~Running(c) /\ ~up
  /\ pc[c] \in {"none", "hello"} =>
       /\ reply[c] = -1 /\ sent[c] = 0 /\ offset[c] = 0 /\ c \notin torn
       /\ at[c] \in {"new", "greeting", "left", "failed"}
       /\ toServer[c] = IF at[c] = "new" THEN <<>> ELSE <<Header(1, conn_seq[c], 0)>>
  /\ Opened(c) => reply[c] # -1
  /\ Opened(c) /\ c \in torn =>
       pc[c] = "header" /\ toServer[c] # <<>> /\ toServer[c][1][1] = "piece"
  /\ Opened(c) /\ c \notin torn => WholeNow(c)
  /\ pc[c] = "payload" => header[c][2] = 3
  /\ pc[c] = "store" => header[c][2] = 4
  /\ at[c] = "greeting" /\ reply[c] # -1 => reply[c] = conn_seq[c] + 1 /\ sent[c] = 0
  /\ at[c] \in {"sending", "done"} => reply[c] # -1

FlowTypes ==
  /\ at \in [Client -> {"new", "greeting", "sending", "done", "failed", "left"}]
  /\ pc \in [Client -> {"none", "hello", "header", "payload", "store", "ended", "gone"}]
  /\ pid \in [Client -> Pid]
  /\ data \in [Client -> [1 .. Block -> Piece]]
  /\ toServer \in [Client -> Seq(Unit)]
  /\ reply \in [Client -> Nat \cup {-1}]
  /\ conn_seq \in [Client -> Nat] /\ seq \in [Client -> Nat]
  /\ sent \in [Client -> Nat] /\ offset \in [Client -> Nat]
  /\ \A c \in Client : sent[c] <= Length[c] /\ offset[c] <= Length[c]
  /\ header \in [Client -> {"header"} \X Nat \X Nat \X Nat]
  /\ accepted \subseteq Client /\ torn \subseteq Client /\ up \in BOOLEAN

FlowInv == FlowTypes /\ \A c \in Client : FlowOf(c)

-----------------------------------------------------------------------------
(* The disk. *)

DiskTypes ==
  /\ ino \in [Client -> Client]
  /\ \A n \in DOMAIN dir : dir[n] \in Client
  /\ content \in [Client -> Seq(Piece)]

Alive(c) == pc[c] \notin {"none", "gone"}

(* A process id belongs to one process; its file is its own.               *)
Separate ==
  /\ \A c, d \in Client : Alive(c) /\ Alive(d) /\ pid[c] = pid[d] => c = d
  /\ \A c \in Client : Opened(c) => pid[c] \in DOMAIN dir /\ dir[pid[c]] = ino[c]
  /\ \A n1, n2 \in DOMAIN dir : dir[n1] = dir[n2] => n1 = n2
  /\ \A n \in DOMAIN dir : pc[dir[n]] \notin {"none", "hello"}
  /\ \A c \in Client : pc[c] \in {"none", "hello"} => ino[c] = c /\ content[c] = <<>>

(* What is written so far is the beginning of the file. *)
Growing(c) ==
  /\ offset[c] <= Len(content[ino[c]])
  /\ \A i \in 1 .. offset[c] : content[ino[c]][i] = File(c)[i]

AllGrowing == \A c \in Client : Opened(c) /\ c \notin torn => Growing(c)

(* No connection has ended without its file being renamed: then no work    *)
(* file is without its process, and no file is longer than what was        *)
(* written.                                                                *)
Clean == \A c \in Client : pc[c] \in {"ended", "gone"} =>
           at[c] # "left" /\ c \notin torn /\ c \notin Multi

NothingLeftOver ==
  Clean =>
    /\ \A p \in DOMAIN dir \cap Pid : \E c \in Client : Opened(c) /\ pid[c] = p
    /\ \A c \in Client : Opened(c) /\ c \notin torn => Len(content[ino[c]]) = offset[c]

DiskInv ==
  DiskTypes /\ Separate /\ AllGrowing /\ StoredWhole /\ NothingLeftOver /\ ExactUnlessLeftOver

-----------------------------------------------------------------------------
(* Facts about the constants and about streams. *)

LEMMA PieceFacts ==
  ASSUME NEW c \in Client
  PROVE  /\ Length[c] \in Nat
         /\ File(c) \in Seq(Piece) /\ Len(File(c)) = Length[c]
         /\ FullName(c) \in [1 .. 2 -> Piece]
         /\ \A x \in Piece : <<"piece", x>> \in Unit
         /\ \A x \in Unit : x[1] = "piece" => x[2] \in Piece
         /\ \A x \in Unit : x[1] = "header" => x \in {"header"} \X Nat \X Nat \X Nat
<1>1. Length[c] \in Nat
  BY NamesAssumption
<1>2. \A i \in 1 .. Length[c] : (IF c \in Multi THEN Junk ELSE <<c, i>>) \in Piece
  BY <1>1 DEF Piece
<1>4. File(c) \in Seq(Piece) /\ Len(File(c)) = Length[c]
  <2> DEFINE E(i) == IF c \in Multi THEN Junk ELSE <<c, i>>
  <2>1. \A i \in 1 .. Length[c] : E(i) \in Piece
    BY <1>2
  <2>2. File(c) = [i \in 1 .. Length[c] |-> E(i)]
    BY DEF File
  <2> HIDE DEF E
  <2>3. [i \in 1 .. Length[c] |-> E(i)] \in Seq(Piece)
    BY <1>1, <2>1, IsASeq
  <2> QED BY <1>1, <2>2, <2>3
<1>5. FullName(c) \in [1 .. 2 -> Piece]
  BY DEF FullName, Piece, Block
<1>6. \A x \in Piece : <<"piece", x>> \in Unit
  BY DEF Unit
<1>7. \A x \in Unit : /\ x[1] = "piece" => x[2] \in Piece
                      /\ x[1] = "header" => x \in {"header"} \X Nat \X Nat \X Nat
  BY DEF Unit
<1> QED BY <1>1, <1>4, <1>5, <1>6, <1>7

LEMMA InBlockFacts ==
  ASSUME NEW c \in Client, NEW o \in Nat, o < Length[c]
  PROVE  InBlock(c, o) \in 1 .. 2 /\ o + InBlock(c, o) <= Length[c]
BY PieceFacts DEF InBlock

(* A header and its payload, as one message. *)
LEMMA MessageFacts ==
  ASSUME NEW h \in {"header"} \X Nat \X Nat \X Nat, NEW k \in Nat, NEW w \in [1 .. k -> Piece]
  PROVE  LET x == <<h>> \o Payload(w)
         IN  /\ x \in Seq(Unit) /\ Len(x) = k + 1 /\ x[1] = h
             /\ \A i \in 1 .. k : x[1 + i] = <<"piece", w[i]>>
<1>1. Payload(w) = [i \in 1 .. k |-> <<"piece", w[i]>>]
  BY DEF Payload
<1>2. \A i \in 1 .. k : <<"piece", w[i]>> \in Unit
  BY DEF Unit
<1>3. Payload(w) \in Seq(Unit) /\ Len(Payload(w)) = k
  BY <1>1, <1>2, IsASeq
<1>4. <<h>> \in Seq(Unit) /\ Len(<<h>>) = 1
  BY DEF Unit
<1> QED BY <1>1, <1>3, <1>4

(* Concatenation, by its elements. *)
LEMMA Joined ==
  ASSUME NEW S, NEW u \in Seq(S), NEW x \in Seq(S)
  PROVE  /\ u \o x \in Seq(S) /\ Len(u \o x) = Len(u) + Len(x)
         /\ Len(u) \in Nat /\ Len(x) \in Nat
         /\ \A i \in 1 .. Len(u) : (u \o x)[i] = u[i]
         /\ \A i \in 1 .. Len(x) : (u \o x)[Len(u) + i] = x[i]
OBVIOUS

(* The end of a sequence, by its elements. *)
LEMMA Cut ==
  ASSUME NEW S, NEW u \in Seq(S), NEW k \in Nat, k <= Len(u)
  PROVE  LET v == SubSeq(u, k + 1, Len(u))
         IN  /\ v \in Seq(S) /\ Len(v) = Len(u) - k /\ Len(v) \in Nat
             /\ \A i \in 1 .. Len(v) : v[i] = u[k + i]
OBVIOUS

LEMMA Middle ==
  ASSUME NEW S, NEW u \in Seq(S), NEW n \in Nat, NEW k \in Nat, n + k <= Len(u)
  PROVE  /\ SubSeq(u, n + 1, n + k) \in [1 .. k -> S]
         /\ \A i \in 1 .. k : SubSeq(u, n + 1, n + k)[i] = u[n + i]
<1>1. SubSeq(u, n + 1, n + k) = [i \in 1 .. (n + k) - (n + 1) + 1 |-> u[i + (n + 1) - 1]]
  OBVIOUS
<1>2. (n + k) - (n + 1) + 1 = k
  OBVIOUS
<1>3. SubSeq(u, n + 1, n + k) = [i \in 1 .. k |-> u[n + i]]
  <2>1. \A i \in 1 .. k : i + (n + 1) - 1 = n + i
    OBVIOUS
  <2> QED BY <1>1, <1>2, <2>1
<1>4. \A i \in 1 .. k : u[n + i] \in S
  BY ElementOfSeq
<1> QED BY <1>3, <1>4

(* A block found at p in u stands at q in v, if the units there agree. *)
LEMMA Moved ==
  ASSUME NEW c \in Client, NEW u, NEW v, NEW p \in Nat, NEW q \in Nat, NEW o \in Nat, NEW n \in Nat,
         v[q] = u[p], \A i \in 1 .. InBlock(c, o) : v[q + i] = u[p + i],
         BlockAt(u, p, c, o, n)
  PROVE  BlockAt(v, q, c, o, n)
BY DEF BlockAt

LEMMA MovedName ==
  ASSUME NEW c \in Client, NEW u, NEW v, NEW p \in Nat, NEW q \in Nat, NEW n \in Nat,
         v[q] = u[p], \A i \in 1 .. 2 : v[q + i] = u[p + i],
         NameAt(u, p, c, n)
  PROVE  NameAt(v, q, c, n)
BY DEF NameAt

(* The lengths in Ordered. *)
Sizes(l, o, n, done, k, m) ==
  /\ o <= n /\ n <= l
  /\ n - o = 2 * m \/ (n - o = 2 * m - 1 /\ n = l)
  /\ k = m + (n - o) + (IF done THEN 3 ELSE 0)
  /\ done => n = l

LEMMA OrderedSizes ==
  ASSUME NEW c, NEW u, NEW o, NEW n, NEW done, NEW s, NEW m
  PROVE  Ordered(c, u, o, n, done, s, m) <=>
           /\ Sizes(Length[c], o, n, done, Len(u), m)
           /\ \A j \in 0 .. m - 1 : BlockAt(u, 3 * j + 1, c, o + 2 * j, s + j)
           /\ done => NameAt(u, m + (n - o) + 1, c, s + m)
BY DEF Ordered, Sizes

LEMMA AppendBlock ==
  ASSUME NEW c \in Client, NEW u \in Seq(Unit), NEW o \in Nat, NEW n \in Nat, NEW s \in Nat,
         NEW m \in Nat, Ordered(c, u, o, n, FALSE, s, m), n < Length[c],
         NEW x \in Seq(Unit), Len(x) = InBlock(c, n) + 1, BlockAt(x, 1, c, n, s + m)
  PROVE  Ordered(c, u \o x, o, n + InBlock(c, n), FALSE, s, m + 1)
<1> DEFINE k == InBlock(c, n)
           v == u \o x
           l == Length[c]
           z == Len(u)
<1>0. /\ Sizes(l, o, n, FALSE, z, m)
      /\ \A j \in 0 .. m - 1 : BlockAt(u, 3 * j + 1, c, o + 2 * j, s + j)
  BY OrderedSizes
<1>1. l \in Nat /\ k \in 1 .. 2 /\ n + k <= l /\ (k = 2 \/ n + k = l)
  BY PieceFacts, InBlockFacts DEF InBlock
<1>2. /\ v \in Seq(Unit) /\ Len(v) = z + (k + 1) /\ z \in Nat
      /\ \A i \in 1 .. z : v[i] = u[i]
      /\ \A i \in 1 .. k + 1 : v[z + i] = x[i]
  <2>1. /\ v \in Seq(Unit) /\ Len(v) = z + Len(x) /\ z \in Nat
        /\ \A i \in 1 .. z : v[i] = u[i]
        /\ \A i \in 1 .. Len(x) : v[z + i] = x[i]
    BY Joined
  <2> HIDE DEF v, z
  <2> QED BY <2>1
<1>3. \A j \in 0 .. m - 1 : o + 2 * j \in Nat /\ o + 2 * j < l => InBlock(c, o + 2 * j) \in 1 .. 2
  BY InBlockFacts
<1>4. \A j \in 0 .. m - 1, p \in Nat, q \in Nat :
         /\ v[q] = u[p] /\ \A i \in 1 .. InBlock(c, o + 2 * j) : v[q + i] = u[p + i]
         /\ BlockAt(u, p, c, o + 2 * j, s + j)
         => BlockAt(v, q, c, o + 2 * j, s + j)
  <2> HIDE DEF v
  <2> SUFFICES ASSUME NEW j \in 0 .. m - 1, NEW p \in Nat, NEW q \in Nat,
                      v[q] = u[p], \A i \in 1 .. InBlock(c, o + 2 * j) : v[q + i] = u[p + i],
                      BlockAt(u, p, c, o + 2 * j, s + j)
               PROVE  BlockAt(v, q, c, o + 2 * j, s + j)
    OBVIOUS
  <2>1. o + 2 * j \in Nat /\ s + j \in Nat
    OBVIOUS
  <2> QED BY <2>1, Moved
<1> HIDE DEF k, v, l, z
<1>5. n - o = 2 * m /\ z = 3 * m
  BY <1>0, <1>1 DEF Sizes
<1>6. Sizes(l, o, n + k, FALSE, z + (k + 1), m + 1)
  BY <1>0, <1>1, <1>5 DEF Sizes
<1>7. ASSUME NEW j \in 0 .. m - 1 PROVE BlockAt(v, 3 * j + 1, c, o + 2 * j, s + j)
  <2> DEFINE e == InBlock(c, o + 2 * j)
             p == 3 * j + 1
  <2>1. BlockAt(u, p, c, o + 2 * j, s + j)
    BY <1>0
  <2>2. o + 2 * j \in Nat /\ o + 2 * j < l /\ p \in Nat
    BY <1>1, <1>5
  <2>3. e \in 1 .. 2
    BY <1>3, <2>2
  <2> HIDE DEF e
  <2>4. p \in 1 .. z /\ \A i \in 1 .. e : p + i \in 1 .. z
    BY <1>5, <2>3
  <2> HIDE DEF p
  <2>5. v[p] = u[p] /\ \A i \in 1 .. e : v[p + i] = u[p + i]
    BY <1>2, <2>4
  <2>6. BlockAt(v, p, c, o + 2 * j, s + j)
    BY <1>4, <2>1, <2>2, <2>5 DEF e
  <2> QED BY <2>6 DEF p
<1>8. BlockAt(v, 3 * m + 1, c, o + 2 * m, s + m)
  <2>1. o + 2 * m = n
    BY <1>5
  <2>2. v[z + 1] = x[1] /\ \A i \in 1 .. k : v[z + 1 + i] = x[1 + i]
    <3>1. \A i \in 1 .. k : 1 + i \in 1 .. k + 1 /\ z + (1 + i) = z + 1 + i
      BY <1>1, <1>2
    <3>2. 1 \in 1 .. k + 1
      BY <1>1
    <3>3. ASSUME NEW i \in 1 .. k PROVE v[z + 1 + i] = x[1 + i]
      <4>1. v[z + (1 + i)] = x[1 + i]
        BY <1>2, <3>1
      <4> QED BY <3>1, <4>1
    <3> QED BY <1>2, <3>2, <3>3
  <2>3. BlockAt(v, z + 1, c, n, s + m)
    <3> HIDE DEF z, v
    <3>1. z + 1 \in Nat /\ s + m \in Nat
      BY <1>2
    <3>2. \A i \in 1 .. InBlock(c, n) : v[z + 1 + i] = x[1 + i]
      BY <2>2 DEF k
    <3> QED BY <2>2, <3>1, <3>2, Moved
  <2> QED BY <1>5, <2>1, <2>3
<1>9. \A j \in 0 .. (m + 1) - 1 : BlockAt(v, 3 * j + 1, c, o + 2 * j, s + j)
  <2> SUFFICES ASSUME NEW j \in 0 .. (m + 1) - 1
               PROVE  BlockAt(v, 3 * j + 1, c, o + 2 * j, s + j)
    OBVIOUS
  <2>1. j \in 0 .. m - 1 \/ j = m
    OBVIOUS
  <2> QED BY <1>7, <1>8, <2>1
<1>10. Sizes(Length[c], o, n + k, FALSE, Len(v), m + 1)
  BY <1>2, <1>6 DEF l
<1>11. Ordered(c, v, o, n + k, FALSE, s, m + 1)
  BY <1>9, <1>10, OrderedSizes
<1> QED BY <1>11 DEF v, k

LEMMA AppendName ==
  ASSUME NEW c \in Client, NEW u \in Seq(Unit), NEW o \in Nat, NEW s \in Nat,
         NEW m \in Nat, Ordered(c, u, o, Length[c], FALSE, s, m),
         NEW x \in Seq(Unit), Len(x) = 3, NameAt(x, 1, c, s + m)
  PROVE  Ordered(c, u \o x, o, Length[c], TRUE, s, m)
<1> DEFINE v == u \o x
           l == Length[c]
           z == Len(u)
<1>0. /\ Sizes(l, o, l, FALSE, z, m)
      /\ \A j \in 0 .. m - 1 : BlockAt(u, 3 * j + 1, c, o + 2 * j, s + j)
  BY OrderedSizes
<1>1. l \in Nat
  BY PieceFacts
<1>2. /\ v \in Seq(Unit) /\ Len(v) = z + 3 /\ z \in Nat
      /\ \A i \in 1 .. z : v[i] = u[i]
      /\ \A i \in 1 .. 3 : v[z + i] = x[i]
  <2>1. \A y \in Seq(Unit) : /\ u \o y \in Seq(Unit) /\ Len(u \o y) = Len(u) + Len(y)
                             /\ Len(u) \in Nat
                             /\ \A i \in 1 .. Len(u) : (u \o y)[i] = u[i]
                             /\ \A i \in 1 .. Len(y) : (u \o y)[Len(u) + i] = y[i]
    BY Joined
  <2>2. /\ v \in Seq(Unit) /\ Len(v) = z + Len(x) /\ z \in Nat
        /\ \A i \in 1 .. z : v[i] = u[i]
        /\ \A i \in 1 .. Len(x) : v[z + i] = x[i]
    BY <2>1, Zenon
  <2> HIDE DEF v, z
  <2> QED BY <2>2
<1>3. \A j \in 0 .. m - 1 : o + 2 * j \in Nat /\ o + 2 * j < l
         => InBlock(c, o + 2 * j) \in 1 .. 2 /\ o + 2 * j + InBlock(c, o + 2 * j) <= l
  BY InBlockFacts
<1>4. \A j \in 0 .. m - 1, p \in Nat :
         /\ v[p] = u[p] /\ \A i \in 1 .. InBlock(c, o + 2 * j) : v[p + i] = u[p + i]
         /\ BlockAt(u, p, c, o + 2 * j, s + j)
         => BlockAt(v, p, c, o + 2 * j, s + j)
  <2> HIDE DEF v
  <2> SUFFICES ASSUME NEW j \in 0 .. m - 1, NEW p \in Nat,
                      v[p] = u[p], \A i \in 1 .. InBlock(c, o + 2 * j) : v[p + i] = u[p + i],
                      BlockAt(u, p, c, o + 2 * j, s + j)
               PROVE  BlockAt(v, p, c, o + 2 * j, s + j)
    OBVIOUS
  <2>1. o + 2 * j \in Nat /\ s + j \in Nat
    OBVIOUS
  <2> QED BY <2>1, Moved
<1>5. \A p \in Nat : /\ v[p] = x[1] /\ \A i \in 1 .. 2 : v[p + i] = x[1 + i]
                     => NameAt(v, p, c, s + m)
  <2> HIDE DEF v
  <2> SUFFICES ASSUME NEW p \in Nat, v[p] = x[1], \A i \in 1 .. 2 : v[p + i] = x[1 + i]
               PROVE  NameAt(v, p, c, s + m)
    OBVIOUS
  <2>1. s + m \in Nat
    OBVIOUS
  <2> QED BY <2>1, MovedName
<1> HIDE DEF v, l, z
<1>6. /\ l - o = 2 * m \/ l - o = 2 * m - 1
      /\ z = m + (l - o)
  BY <1>0, <1>1 DEF Sizes
<1>7. Sizes(l, o, l, TRUE, z + 3, m)
  BY <1>0, <1>1, <1>6 DEF Sizes
<1>8. ASSUME NEW j \in 0 .. m - 1 PROVE BlockAt(v, 3 * j + 1, c, o + 2 * j, s + j)
  <2> DEFINE e == InBlock(c, o + 2 * j)
             p == 3 * j + 1
  <2>1. BlockAt(u, p, c, o + 2 * j, s + j)
    BY <1>0
  <2>2. o + 2 * j \in Nat /\ o + 2 * j < l /\ p \in Nat
    BY <1>1, <1>6
  <2>3. e \in 1 .. 2 /\ o + 2 * j + e <= l
    BY <1>3, <2>2
  <2> HIDE DEF e
  <2>4. p \in 1 .. z /\ \A i \in 1 .. e : p + i \in 1 .. z
    BY <1>1, <1>6, <2>3
  <2> HIDE DEF p
  <2>5. v[p] = u[p] /\ \A i \in 1 .. e : v[p + i] = u[p + i]
    BY <1>2, <2>4
  <2>6. BlockAt(v, p, c, o + 2 * j, s + j)
    BY <1>4, <2>1, <2>2, <2>5 DEF e
  <2> QED BY <2>6 DEF p
<1>9. NameAt(v, z + 1, c, s + m)
  <2>1. z + 1 \in Nat /\ \A i \in 1 .. 2 : z + 1 + i = z + (1 + i) /\ 1 + i \in 1 .. 3
    BY <1>2
  <2>2. v[z + 1] = x[1] /\ \A i \in 1 .. 2 : v[z + (1 + i)] = x[1 + i]
    BY <1>2, <2>1
  <2>3. \A i \in 1 .. 2 : v[z + 1 + i] = x[1 + i]
    BY <2>1, <2>2
  <2> QED BY <1>5, <2>1, <2>2, <2>3
<1>10. Sizes(Length[c], o, Length[c], TRUE, Len(v), m)
  BY <1>2, <1>7 DEF l
<1>11. NameAt(v, m + (Length[c] - o) + 1, c, s + m)
  BY <1>6, <1>9 DEF l
<1>12. Ordered(c, v, o, Length[c], TRUE, s, m)
  BY <1>8, <1>10, <1>11, OrderedSizes
<1> QED BY <1>12 DEF v

(* What stands at the front of a stream. *)
LEMMA Front ==
  ASSUME NEW c \in Client, NEW u \in Seq(Unit), NEW o \in Nat, NEW n \in Nat, NEW s \in Nat,
         NEW done \in BOOLEAN, NEW m \in Nat, Ordered(c, u, o, n, done, s, m), u # <<>>
  PROVE  \/ /\ m > 0 /\ o < n /\ n <= Length[c]
            /\ o + InBlock(c, o) <= n /\ InBlock(c, o) \in 1 .. 2
            /\ Len(u) >= InBlock(c, o) + 1
            /\ BlockAt(u, 1, c, o, s)
         \/ /\ m = 0 /\ done /\ o = n /\ n = Length[c] /\ Len(u) = 3
            /\ NameAt(u, 1, c, s)
<1> DEFINE l == Length[c]
           z == Len(u)
           k == InBlock(c, o)
<1>0. /\ Sizes(l, o, n, done, z, m)
      /\ \A j \in 0 .. m - 1 : BlockAt(u, 3 * j + 1, c, o + 2 * j, s + j)
      /\ done => NameAt(u, m + (n - o) + 1, c, s + m)
  BY OrderedSizes
<1>1. l \in Nat /\ z \in Nat \ {0}
  BY PieceFacts
<1>2. o < l => k \in 1 .. 2 /\ o + k <= l /\ (k = 2 \/ o + k = l)
  BY InBlockFacts, PieceFacts DEF InBlock
<1> HIDE DEF l, z, k
<1>3. CASE m > 0
  <2>1. o < n /\ n <= l /\ o + k <= n /\ k \in 1 .. 2 /\ z >= k + 1
    BY <1>0, <1>1, <1>2, <1>3 DEF Sizes
  <2>2. 0 \in 0 .. m - 1
    BY <1>3
  <2>3. BlockAt(u, 3 * 0 + 1, c, o + 2 * 0, s + 0)
    BY <1>0, <2>2
  <2>4. 3 * 0 + 1 = 1 /\ o + 2 * 0 = o /\ s + 0 = s
    OBVIOUS
  <2>5. BlockAt(u, 1, c, o, s)
    BY <2>3, <2>4
  <2> QED BY <1>3, <2>1, <2>5 DEF l, z, k
<1>4. CASE m = 0
  <2>1. o = n /\ done /\ n = l /\ z = 3
    BY <1>0, <1>1, <1>4 DEF Sizes
  <2>2. m + (n - o) + 1 = 1 /\ s + m = s
    BY <1>4, <2>1
  <2>3. NameAt(u, 1, c, s)
    BY <1>0, <2>1, <2>2
  <2> QED BY <1>4, <2>1, <2>3 DEF l, z
<1> QED BY <1>3, <1>4

LEMMA DropBlock ==
  ASSUME NEW c \in Client, NEW u \in Seq(Unit), NEW o \in Nat, NEW n \in Nat, NEW s \in Nat,
         NEW done \in BOOLEAN, NEW m \in Nat, m > 0, Ordered(c, u, o, n, done, s, m)
  PROVE  Ordered(c, SubSeq(u, InBlock(c, o) + 2, Len(u)), o + InBlock(c, o), n, done, s + 1, m - 1)
<1> DEFINE l == Length[c]
           z == Len(u)
           k == InBlock(c, o)
           v == SubSeq(u, k + 2, z)
<1>0. /\ Sizes(l, o, n, done, z, m)
      /\ \A j \in 0 .. m - 1 : BlockAt(u, 3 * j + 1, c, o + 2 * j, s + j)
      /\ done => NameAt(u, m + (n - o) + 1, c, s + m)
  BY OrderedSizes
<1>1. l \in Nat /\ z \in Nat
  BY PieceFacts
<1>2. o < l => k \in 1 .. 2 /\ o + k <= l /\ (k = 2 \/ o + k = l)
  BY InBlockFacts, PieceFacts DEF InBlock
<1>3. \A j \in 0 .. m - 1 : o + 2 * j \in Nat /\ o + 2 * j < l
         => InBlock(c, o + 2 * j) \in 1 .. 2 /\ o + 2 * j + InBlock(c, o + 2 * j) <= l
  BY InBlockFacts
<1>4. k \in 1 .. 2 /\ o + k <= n /\ n <= l /\ k + 1 <= z
  <2> HIDE DEF l, z, k
  <2> QED BY <1>0, <1>1, <1>2 DEF Sizes
<1>5. /\ v \in Seq(Unit) /\ Len(v) = z - (k + 1)
      /\ \A i \in 1 .. Len(v) : v[i] = u[k + 1 + i]
  <2>1. k + 1 \in Nat /\ k + 1 + 1 = k + 2
    BY <1>4
  <2> HIDE DEF k
  <2>2. v = SubSeq(u, (k + 1) + 1, Len(u))
    BY <2>1
  <2> QED BY <1>4, <2>1, <2>2, Cut
<1> HIDE DEF l, z, k, v
<1>6. k = 2 \/ (k = 1 /\ m = 1)
  BY <1>0, <1>1, <1>2, <1>4 DEF Sizes
<1>7. Sizes(l, o + k, n, done, z - (k + 1), m - 1)
  BY <1>0, <1>1, <1>2, <1>4, <1>6 DEF Sizes
<1>8. ASSUME NEW j \in 0 .. (m - 1) - 1
      PROVE  BlockAt(v, 3 * j + 1, c, o + k + 2 * j, s + 1 + j)
  <2> DEFINE e == InBlock(c, o + 2 * (j + 1))
             p == 3 * j + 1
  <2>1. k = 2 /\ j + 1 \in 0 .. m - 1
    BY <1>6
  <2>2. BlockAt(u, 3 * (j + 1) + 1, c, o + 2 * (j + 1), s + (j + 1))
    BY <1>0, <2>1
  <2>3. /\ 3 * (j + 1) + 1 = p + 3 /\ o + 2 * (j + 1) = o + k + 2 * j
        /\ s + (j + 1) = s + 1 + j /\ p \in Nat
    BY <2>1
  <2>4. o + 2 * (j + 1) \in Nat /\ o + 2 * (j + 1) < n
    BY <1>0, <1>1, <2>1 DEF Sizes
  <2>5. e \in 1 .. 2 /\ o + 2 * (j + 1) + e <= l
    <3>1. o + 2 * (j + 1) < l
      BY <1>1, <1>4, <2>4
    <3> QED BY <1>3, <2>1, <2>4, <3>1
  <2> HIDE DEF e
  <2>6. p + e <= z - 3
    BY <1>0, <1>1, <2>1, <2>5 DEF Sizes
  <2>7. v[p] = u[p + 3] /\ \A i \in 1 .. e : v[p + i] = u[p + 3 + i]
    <3> HIDE DEF p
    <3>1. p \in 1 .. z - 3 /\ k + 1 + p = p + 3
      BY <1>1, <2>1, <2>3, <2>5, <2>6 DEF p
    <3>2. \A i \in 1 .. e : p + i \in 1 .. z - 3 /\ k + 1 + (p + i) = p + 3 + i
      BY <1>1, <2>1, <2>3, <2>5, <2>6
    <3>3. \A i \in 1 .. z - 3 : v[i] = u[k + 1 + i]
      BY <1>5, <2>1
    <3>4. v[p] = u[p + 3]
      BY <3>1, <3>3
    <3>5. ASSUME NEW i \in 1 .. e PROVE v[p + i] = u[p + 3 + i]
      <4>1. v[p + i] = u[k + 1 + (p + i)]
        BY <3>2, <3>3
      <4> QED BY <3>2, <4>1
    <3> QED BY <3>4, <3>5
  <2>8. BlockAt(v, p, c, o + 2 * (j + 1), s + (j + 1))
    <3> HIDE DEF p
    <3>1. BlockAt(u, p + 3, c, o + 2 * (j + 1), s + (j + 1))
      BY <2>2, <2>3
    <3>2. p + 3 \in Nat /\ s + (j + 1) \in Nat
      BY <2>3
    <3>3. \A i \in 1 .. InBlock(c, o + 2 * (j + 1)) : v[p + i] = u[p + 3 + i]
      BY <2>7 DEF e
    <3> QED BY <2>3, <2>4, <2>7, <3>1, <3>2, <3>3, Moved
  <2> QED BY <2>3, <2>8
<1>9. ASSUME done PROVE NameAt(v, (m - 1) + (n - (o + k)) + 1, c, s + 1 + (m - 1))
  <2> DEFINE p == (m - 1) + (n - (o + k)) + 1
  <2>1. NameAt(u, m + (n - o) + 1, c, s + m)
    BY <1>0, <1>9
  <2>2. p \in Nat /\ m + (n - o) + 1 = p + (k + 1) /\ s + 1 + (m - 1) = s + m
    BY <1>1, <1>4
  <2>3. p \in 1 .. z - (k + 1) /\ p + 2 \in 1 .. z - (k + 1)
    BY <1>0, <1>1, <1>4, <1>9 DEF Sizes
  <2> HIDE DEF p
  <2>4. v[p] = u[p + (k + 1)] /\ \A i \in 1 .. 2 : v[p + i] = u[p + (k + 1) + i]
    <3>1. \A i \in 1 .. z - (k + 1) : v[i] = u[k + 1 + i]
      BY <1>5
    <3>2. \A i \in 1 .. 2 : p + i \in 1 .. z - (k + 1) /\ k + 1 + (p + i) = p + (k + 1) + i
      BY <1>1, <1>4, <2>2, <2>3
    <3>3. k + 1 + p = p + (k + 1)
      BY <1>4, <2>2
    <3>4. ASSUME NEW i \in 1 .. 2 PROVE v[p + i] = u[p + (k + 1) + i]
      <4>1. v[p + i] = u[k + 1 + (p + i)]
        BY <3>1, <3>2
      <4> QED BY <3>2, <4>1
    <3> QED BY <2>3, <3>1, <3>3, <3>4
  <2>5. NameAt(v, p, c, s + m)
    <3>1. NameAt(u, p + (k + 1), c, s + m)
      BY <2>1, <2>2
    <3>2. p + (k + 1) \in Nat /\ s + m \in Nat
      BY <1>4, <2>2
    <3> QED BY <2>2, <2>4, <3>1, <3>2, MovedName
  <2> QED BY <2>2, <2>5 DEF p
<1>10. Sizes(Length[c], o + k, n, done, Len(v), m - 1)
  BY <1>5, <1>7 DEF l
<1>11. Ordered(c, v, o + k, n, done, s + 1, m - 1)
  BY <1>8, <1>9, <1>10, OrderedSizes
<1> QED BY <1>11 DEF v, k, z

-----------------------------------------------------------------------------
(* A whole stream from one step to the next. *)

LEMMA WholeStart ==
  ASSUME NEW c \in Client, NEW q \in Nat, NEW a \in {"greeting", "left"}
  PROVE  Whole(c, <<>>, 0, 0, a, q, q + 1, q + 2)
<1>1. Length[c] \in Nat /\ Len(<<>>) = 0
  BY PieceFacts
<1>2. Sizes(Length[c], 0, 0, FALSE, 0, 0)
  BY <1>1 DEF Sizes
<1>3. Ordered(c, <<>>, 0, 0, FALSE, q + 2, 0)
  BY <1>1, <1>2 DEF Ordered, Sizes
<1>4. q + 2 = q + 1 + 1 /\ 0 \in 0 .. 0
  OBVIOUS
<1>5. Whole(c, <<>>, 0, 0, "greeting", q, q + 1, q + 2)
  BY <1>1, <1>3, <1>4 DEF Whole
<1>6. Whole(c, <<>>, 0, 0, "left", q, q + 1, q + 2)
  BY <1>1, <1>3, <1>4 DEF Whole
<1> QED BY <1>5, <1>6

LEMMA WholeHello ==
  ASSUME NEW c \in Client, NEW u \in Seq(Unit), NEW o \in Nat, NEW n \in Nat,
         NEW q \in Nat, NEW r \in Nat, NEW s \in Nat,
         Whole(c, u, o, n, "greeting", q, r, s)
  PROVE  Whole(c, u, o, n, "sending", q + 1, r, s)
<1>1. PICK m \in 0 .. Len(u) : /\ Ordered(c, u, o, n, FALSE, s, m)
                               /\ m = 0 /\ r = q + 1 /\ s = r + 1
  BY DEF Whole
<1>2. q + 1 = s + m - 1
  BY <1>1
<1> QED BY <1>1, <1>2 DEF Whole

LEMMA WholeLeft ==
  ASSUME NEW c \in Client, NEW u, NEW o, NEW n, NEW a \in {"greeting", "sending"},
         NEW q, NEW r, NEW s, Whole(c, u, o, n, a, q, r, s)
  PROVE  Whole(c, u, o, n, "left", q, r, s)
BY DEF Whole

LEMMA WholeBlock ==
  ASSUME NEW c \in Client, NEW u \in Seq(Unit), NEW o \in Nat, NEW n \in Nat, n < Length[c],
         NEW q \in Nat, NEW r, NEW s \in Nat, Whole(c, u, o, n, "sending", q, r, s),
         NEW x \in Seq(Unit), Len(x) = InBlock(c, n) + 1, BlockAt(x, 1, c, n, q + 1)
  PROVE  Whole(c, u \o x, o, n + InBlock(c, n), "sending", q + 1, r, s)
<1>1. PICK m \in 0 .. Len(u) : Ordered(c, u, o, n, FALSE, s, m) /\ q = s + m - 1
  BY DEF Whole
<1>2. m \in Nat /\ q + 1 = s + m /\ q + 1 = s + (m + 1) - 1
  BY <1>1
<1>3. Ordered(c, u \o x, o, n + InBlock(c, n), FALSE, s, m + 1)
  BY <1>1, <1>2, AppendBlock
<1>4. m + 1 \in 0 .. Len(u \o x)
  <2>1. Len(u \o x) = Len(u) + Len(x) /\ Len(u) \in Nat
    BY Joined
  <2>2. InBlock(c, n) \in 1 .. 2
    BY InBlockFacts
  <2> QED BY <1>1, <2>1, <2>2
<1> QED BY <1>2, <1>3, <1>4 DEF Whole

LEMMA WholeName ==
  ASSUME NEW c \in Client, NEW u \in Seq(Unit), NEW o \in Nat,
         NEW q \in Nat, NEW r, NEW s \in Nat, Whole(c, u, o, Length[c], "sending", q, r, s),
         NEW x \in Seq(Unit), Len(x) = 3, NameAt(x, 1, c, q + 1)
  PROVE  Whole(c, u \o x, o, Length[c], "done", q + 1, r, s)
<1>1. PICK m \in 0 .. Len(u) : Ordered(c, u, o, Length[c], FALSE, s, m) /\ q = s + m - 1
  BY DEF Whole
<1>2. m \in Nat /\ q + 1 = s + m
  BY <1>1
<1>3. Ordered(c, u \o x, o, Length[c], TRUE, s, m)
  BY <1>1, <1>2, AppendName
<1>4. m \in 0 .. Len(u \o x)
  <2>1. Len(u \o x) = Len(u) + Len(x) /\ Len(u) \in Nat
    BY Joined
  <2> QED BY <1>1, <2>1
<1> QED BY <1>3, <1>4 DEF Whole

(* The front of a whole stream: a block, or the name behind all of them. *)
LEMMA WholeFront ==
  ASSUME NEW c \in Client, NEW u \in Seq(Unit), NEW o \in Nat, NEW n \in Nat, NEW a, NEW q,
         NEW r, NEW s \in Nat, Whole(c, u, o, n, a, q, r, s), u # <<>>
  PROVE  /\ u[1][1] = "header" /\ u[1][3] = s % SeqMod
         /\ \/ /\ u[1][2] = 3 /\ u[1][4] = InBlock(c, o) /\ InBlock(c, o) \in 1 .. 2
               /\ o + InBlock(c, o) <= n /\ n <= Length[c]
               /\ Len(u) >= InBlock(c, o) + 1
               /\ \A i \in 1 .. InBlock(c, o) : u[1 + i] = <<"piece", File(c)[o + i]>>
            \/ /\ u[1][2] = 4 /\ u[1][4] = 2 /\ o = Length[c] /\ Len(u) = 3
               /\ \A i \in 1 .. 2 : u[1 + i] = <<"piece", FullName(c)[i]>>
<1>1. PICK m \in 0 .. Len(u) : Ordered(c, u, o, n, a = "done", s, m)
  BY DEF Whole
<1>2. m \in Nat
  BY <1>1
<1>5. PICK done \in BOOLEAN : Ordered(c, u, o, n, done, s, m)
  BY <1>1, Zenon
<1>3. CASE /\ m > 0 /\ o < n /\ n <= Length[c]
           /\ o + InBlock(c, o) <= n /\ InBlock(c, o) \in 1 .. 2
           /\ Len(u) >= InBlock(c, o) + 1
           /\ BlockAt(u, 1, c, o, s)
  BY <1>3 DEF BlockAt, Header
<1>4. CASE /\ m = 0 /\ o = n /\ n = Length[c] /\ Len(u) = 3
           /\ NameAt(u, 1, c, s)
  BY <1>4 DEF NameAt, Header
<1>6. \/ /\ m > 0 /\ o < n /\ n <= Length[c]
         /\ o + InBlock(c, o) <= n /\ InBlock(c, o) \in 1 .. 2
         /\ Len(u) >= InBlock(c, o) + 1
         /\ BlockAt(u, 1, c, o, s)
      \/ /\ m = 0 /\ o = n /\ n = Length[c] /\ Len(u) = 3
         /\ NameAt(u, 1, c, s)
  BY <1>2, <1>5, Front
<1> QED BY <1>3, <1>4, <1>6

(* A block is taken from the front. *)
LEMMA WholeDrop ==
  ASSUME NEW c \in Client, NEW u \in Seq(Unit), NEW o \in Nat, NEW n \in Nat, NEW a,
         NEW q \in Nat, NEW r, NEW s \in Nat,
         Whole(c, u, o, n, a, q, r, s), u # <<>>, u[1][2] = 3
  PROVE  Whole(c, SubSeq(u, InBlock(c, o) + 2, Len(u)), o + InBlock(c, o), n, a, q, r, s + 1)
<1> DEFINE v == SubSeq(u, InBlock(c, o) + 2, Len(u))
<1>1. PICK m \in 0 .. Len(u) : /\ Ordered(c, u, o, n, a = "done", s, m)
                               /\ a = "sending" => q = s + m - 1
                               /\ a = "greeting" => m = 0 /\ n = 0 /\ r = q + 1 /\ s = r + 1
  BY DEF Whole
<1>2. m \in Nat
  BY <1>1
<1>0. PICK done \in BOOLEAN : done = (a = "done") /\ Ordered(c, u, o, n, done, s, m)
  BY <1>1, Zenon
<1>7. Ordered(c, u, o, n, done, s, m)
  BY <1>0
<1>8. InBlock(c, o) \in 1 .. 2 /\ o + InBlock(c, o) <= n
  BY WholeFront
<1>3. m > 0
  <2>1. n - o = 2 * m \/ n - o = 2 * m - 1
    BY <1>1 DEF Ordered
  <2> QED BY <1>2, <1>8, <2>1
<1>4. Ordered(c, v, o + InBlock(c, o), n, a = "done", s + 1, m - 1)
  <2>1. Ordered(c, v, o + InBlock(c, o), n, done, s + 1, m - 1)
    BY <1>0, <1>2, <1>3, DropBlock
  <2> QED BY <1>0, <2>1, Zenon
<1>5. m - 1 \in 0 .. Len(v)
  <2>1. Sizes(Length[c], o + InBlock(c, o), n, a = "done", Len(v), m - 1)
    BY <1>4, OrderedSizes
  <2>2. Length[c] \in Nat /\ InBlock(c, o) \in Nat
    BY PieceFacts, <1>3, <1>8
  <2> DEFINE z == Len(v)
             k == InBlock(c, o)
             l == Length[c]
  <2> HIDE DEF z, k, l, v
  <2>3. m - 1 <= z
    BY <1>2, <1>3, <2>1, <2>2 DEF Sizes, z, k, l
  <2>4. z \in Int
    BY <1>2, <2>1, <2>2 DEF Sizes, z, k, l
  <2> QED BY <1>2, <1>3, <2>3, <2>4 DEF z
<1>6. /\ a = "sending" => q = s + 1 + (m - 1) - 1
      /\ a # "greeting"
  BY <1>1, <1>2, <1>3
<1> QED BY <1>4, <1>5, <1>6 DEF Whole

(* A stream that nothing more will come behind does not run dry. *)
LEMMA WholeEnd ==
  ASSUME NEW c \in Client, NEW o \in Nat, NEW n \in Nat, NEW q, NEW r, NEW s \in Nat
  PROVE  ~Whole(c, <<>>, o, n, "done", q, r, s)
<1> SUFFICES ASSUME NEW m \in 0 .. 0, Ordered(c, <<>>, o, n, TRUE, s, m) PROVE FALSE
  BY DEF Whole
<1>1. Sizes(Length[c], o, n, TRUE, Len(<<>>), m)
  BY OrderedSizes
<1> QED BY <1>1, PieceFacts DEF Sizes

(* The messages of a client. *)
LEMMA BlockMessage ==
  ASSUME NEW c \in Client, NEW n \in Nat, n < Length[c], NEW q \in Nat
  PROVE  LET k == InBlock(c, n)
             x == <<Header(3, (q + 1) % SeqMod, k)>> \o Payload(SubSeq(File(c), n + 1, n + k))
         IN  x \in Seq(Unit) /\ Len(x) = k + 1 /\ BlockAt(x, 1, c, n, q + 1)
<1> DEFINE k == InBlock(c, n)
           w == SubSeq(File(c), n + 1, n + k)
           h == Header(3, (q + 1) % SeqMod, k)
           x == <<h>> \o Payload(w)
<1>1. k \in 1 .. 2 /\ n + k <= Length[c] /\ Length[c] \in Nat
  BY InBlockFacts, PieceFacts
<1>2. (q + 1) % SeqMod \in Nat
  BY FileTransferAssumption
<1>3. h \in {"header"} \X Nat \X Nat \X Nat
  BY <1>1, <1>2 DEF Header
<1>4. w \in [1 .. k -> Piece] /\ \A i \in 1 .. k : w[i] = File(c)[n + i]
  <2> DEFINE F == File(c)
  <2>1. F \in Seq(Piece) /\ Len(F) = Length[c]
    BY PieceFacts
  <2> HIDE DEF F, k
  <2>2. k \in Nat /\ n + k <= Len(F)
    BY <1>1, <2>1
  <2>3. /\ SubSeq(F, n + 1, n + k) \in [1 .. k -> Piece]
        /\ \A i \in 1 .. k : SubSeq(F, n + 1, n + k)[i] = F[n + i]
    <3>1. \A f \in Seq(Piece), m \in Nat, j \in Nat : m + j <= Len(f) =>
            /\ SubSeq(f, m + 1, m + j) \in [1 .. j -> Piece]
            /\ \A i \in 1 .. j : SubSeq(f, m + 1, m + j)[i] = f[m + i]
      BY Middle
    <3> QED BY <2>1, <2>2, <3>1
  <2> QED BY <2>3 DEF F
<1> HIDE DEF w, h
<1>5. x \in Seq(Unit) /\ Len(x) = k + 1 /\ x[1] = h /\ \A i \in 1 .. k : x[1 + i] = <<"piece", w[i]>>
  <2> HIDE DEF k
  <2> QED BY <1>1, <1>3, <1>4, MessageFacts
<1>6. BlockAt(x, 1, c, n, q + 1)
  BY <1>4, <1>5 DEF BlockAt, h
<1> QED BY <1>5, <1>6 DEF h, w

LEMMA NameMessage ==
  ASSUME NEW c \in Client, NEW q \in Nat
  PROVE  LET x == <<Header(4, (q + 1) % SeqMod, Block)>> \o Payload(FullName(c))
         IN  x \in Seq(Unit) /\ Len(x) = 3 /\ NameAt(x, 1, c, q + 1)
<1> DEFINE h == Header(4, (q + 1) % SeqMod, Block)
           w == FullName(c)
           x == <<h>> \o Payload(w)
<1>1. (q + 1) % SeqMod \in Nat
  BY FileTransferAssumption
<1>2. h \in {"header"} \X Nat \X Nat \X Nat
  BY <1>1 DEF Header, Block
<1>3. w \in [1 .. 2 -> Piece]
  BY PieceFacts
<1> HIDE DEF w, h
<1>4. x \in Seq(Unit) /\ Len(x) = 3 /\ x[1] = h /\ \A i \in 1 .. 2 : x[1 + i] = <<"piece", w[i]>>
  <2>1. PICK k \in Nat : k = 2
    OBVIOUS
  <2>2. w \in [1 .. k -> Piece]
    BY <1>3, <2>1
  <2>3. x \in Seq(Unit) /\ Len(x) = k + 1 /\ x[1] = h
        /\ \A i \in 1 .. k : x[1 + i] = <<"piece", w[i]>>
    <3> USE <1>2
    <3> QED BY <2>2, MessageFacts
  <2> HIDE DEF x
  <2> QED BY <2>1, <2>3
<1>5. NameAt(x, 1, c, q + 1)
  BY <1>4 DEF NameAt, h, w, Block
<1> QED BY <1>4, <1>5 DEF h, w

LEMMA StreamTypes ==
  ASSUME FlowTypes, NEW c \in Client
  PROVE  Stream(c) \in Seq(Unit) /\ First(c) \in Nat
<1>1. header[c] \in Unit
  BY DEF FlowTypes, Unit
<1>2. <<header[c]>> \in Seq(Unit) /\ toServer[c] \in Seq(Unit)
  BY <1>1 DEF FlowTypes
<1>3. <<header[c]>> \o toServer[c] \in Seq(Unit)
  BY <1>2
<1>4. seq[c] \in Nat
  BY DEF FlowTypes
<1> QED BY <1>2, <1>3, <1>4 DEF Stream, First

(* What a client sends comes behind what is under way. *)
LEMMA StreamGrows ==
  ASSUME FlowTypes, NEW c \in Client, NEW x \in Seq(Unit), toServer'[c] = toServer[c] \o x,
         UNCHANGED <<pc, header, seq>>
  PROVE  Stream(c)' = Stream(c) \o x /\ First(c)' = First(c)
<1> DEFINE h == <<header[c]>>
           t == toServer[c]
<1>1. header[c] \in Unit /\ t \in Seq(Unit)
  BY DEF FlowTypes, Unit
<1>2. h \in Seq(Unit)
  BY <1>1
<1>3. h \o (t \o x) = (h \o t) \o x
  <2>1. \A a, b, d \in Seq(Unit) : (a \o b) \o d = a \o (b \o d)
    BY ConcatAssociative
  <2> HIDE DEF h, t
  <2> QED BY <1>1, <1>2, <2>1
<1> QED BY <1>3 DEF Stream, First

-----------------------------------------------------------------------------
(* Every step keeps the streams. *)

LEMMA FlowInit == Init => FlowInv
<1> SUFFICES ASSUME Init PROVE FlowInv
  OBVIOUS
<1>1. (CHOOSE p \in Pid : TRUE) \in Pid
  BY NamesAssumption
<1>2. <<Junk, Junk>> \in [1 .. Block -> Piece]
  BY DEF Block, Piece
<1>3. Header(0, 0, 0) \in {"header"} \X Nat \X Nat \X Nat
  BY DEF Header
<1>4. FlowTypes
  <2>1. conn_seq \in [Client -> Nat]
    <3>1. Start \subseteq Nat
      BY FileTransferAssumption
    <3> QED BY <3>1 DEF Init
  <2>2. data \in [Client -> [1 .. Block -> Piece]]
    BY <1>2 DEF Init
  <2>3. pid \in [Client -> Pid]
    BY <1>1 DEF Init
  <2>4. \A c \in Client : sent[c] <= Length[c] /\ offset[c] <= Length[c]
    BY PieceFacts DEF Init
  <2>5. header \in [Client -> {"header"} \X Nat \X Nat \X Nat]
    BY <1>3 DEF Init
  <2>6. toServer \in [Client -> Seq(Unit)]
    BY EmptySeq DEF Init
  <2> QED BY <2>1, <2>2, <2>3, <2>4, <2>5, <2>6 DEF Init, FlowTypes
<1>5. ASSUME NEW c \in Client PROVE FlowOf(c)
  BY DEF Init, FlowOf, Opened
<1> QED BY <1>4, <1>5 DEF FlowInv

(* Nothing of client d changes. *)
LEMMA FlowKept ==
  ASSUME NEW d \in Client, FlowOf(d), up' => up, d \in accepted' <=> d \in accepted,
         d \in torn' <=> d \in torn,
         pc'[d] = pc[d] \/ (pc[d] = "ended" /\ pc'[d] = "gone"),
         at'[d] = at[d], reply'[d] = reply[d], sent'[d] = sent[d], offset'[d] = offset[d],
         toServer'[d] = toServer[d], conn_seq'[d] = conn_seq[d], seq'[d] = seq[d],
         header'[d] = header[d]
  PROVE  FlowOf(d)'
<1>1. CASE pc'[d] = pc[d]
  <2>1. WholeNow(d)' <=> WholeNow(d)
    BY <1>1 DEF WholeNow, Stream, First
  <2>2. (Opened(d)' <=> Opened(d)) /\ (Running(d)' <=> Running(d))
    BY <1>1 DEF Opened, Running
  <2> QED BY <1>1, <2>1, <2>2 DEF FlowOf
<1>2. CASE pc[d] = "ended" /\ pc'[d] = "gone"
  BY <1>2 DEF FlowOf, Opened, Running
<1> QED BY <1>1, <1>2

(* A step of the client or the child of c leaves the other connections.    *)
OthersKept(c) ==
  /\ up' => up
  /\ \A d \in Client \ {c} :
       /\ d \in accepted' <=> d \in accepted
       /\ d \in torn' <=> d \in torn
       /\ pc'[d] = pc[d] /\ at'[d] = at[d] /\ reply'[d] = reply[d] /\ sent'[d] = sent[d]
       /\ offset'[d] = offset[d] /\ toServer'[d] = toServer[d]
       /\ conn_seq'[d] = conn_seq[d] /\ seq'[d] = seq[d] /\ header'[d] = header[d]

LEMMA OneStep ==
  ASSUME FlowInv, NEW c \in Client, OthersKept(c), FlowTypes', FlowOf(c)'
  PROVE  FlowInv'
<1>1. ASSUME NEW d \in Client, d # c PROVE FlowOf(d)'
  <2>1. FlowOf(d) /\ d \in Client \ {c}
    BY <1>1 DEF FlowInv
  <2> QED BY <2>1, FlowKept DEF OthersKept
<1> QED BY <1>1 DEF FlowInv

LEMMA ConnectFlow ==
  ASSUME FlowInv, NEW c \in Client, Connect(c)
  PROVE  FlowInv'
<1> USE DEF Connect, Send, ClientGo, serverVars, parentVars, diskVars
<1>1. FlowTypes /\ FlowOf(c)
  BY DEF FlowInv
<1>2. OthersKept(c)
  BY <1>1 DEF OthersKept, FlowTypes
<1>3. pc[c] = "none" /\ toServer[c] = <<>>
  BY <1>1 DEF FlowOf
<1>4. toServer'[c] = <<Header(1, conn_seq[c], 0)>>
  BY <1>1, <1>3 DEF FlowTypes
<1>5. FlowTypes'
  <2>1. <<Header(1, conn_seq[c], 0)>> \in Seq(Unit)
    BY <1>1 DEF FlowTypes, Unit, Header
  <2>2. toServer' \in [Client -> Seq(Unit)]
    BY <1>1, <1>4, <2>1 DEF FlowTypes
  <2> QED BY <1>1, <2>2 DEF FlowTypes
<1>6. FlowOf(c)'
  <2>1. at'[c] = "greeting" /\ pc'[c] = "none"
    BY <1>1, <1>3 DEF FlowTypes
  <2> QED BY <1>1, <1>3, <1>4, <2>1 DEF FlowOf, Opened
<1> QED BY <1>2, <1>5, <1>6, OneStep

LEMMA ServerHelloFlow ==
  ASSUME FlowInv, NEW c \in Client, ServerHello(c)
  PROVE  FlowInv'
<1> USE DEF ServerHello, ClientGo, network, serverVars, parentVars, diskVars
<1>1. FlowTypes /\ FlowOf(c)
  BY DEF FlowInv
<1>2. reply[c] = conn_seq[c] + 1 /\ pc[c] \notin {"none", "hello"}
  BY <1>1 DEF FlowOf
<1>3. at'[c] = "sending" /\ conn_seq'[c] = conn_seq[c] + 1
  BY <1>1, <1>2 DEF FlowTypes
<1>4. OthersKept(c)
  BY <1>1, <1>2 DEF OthersKept, FlowTypes
<1>5. FlowTypes'
  BY <1>1, <1>2 DEF FlowTypes
<1>6. Opened(c) /\ c \notin torn => WholeNow(c)'
  <2> SUFFICES ASSUME Opened(c), c \notin torn PROVE WholeNow(c)'
    OBVIOUS
  <2>1. Whole(c, Stream(c), offset[c], sent[c], "greeting", conn_seq[c], reply[c], First(c))
    BY <1>1 DEF FlowOf, WholeNow
  <2>2. /\ Stream(c) \in Seq(Unit) /\ First(c) \in Nat
        /\ offset[c] \in Nat /\ sent[c] \in Nat /\ conn_seq[c] \in Nat /\ reply[c] \in Nat
    BY <1>1, <1>2, StreamTypes DEF FlowTypes
  <2>3. Whole(c, Stream(c), offset[c], sent[c], "sending", conn_seq[c] + 1, reply[c], First(c))
    BY <2>1, <2>2, WholeHello
  <2>4. Stream(c)' = Stream(c) /\ First(c)' = First(c)
    BY DEF Stream, First
  <2> QED BY <1>3, <2>3, <2>4 DEF WholeNow
<1>7. FlowOf(c)'
  BY <1>1, <1>2, <1>3, <1>6 DEF FlowOf, Opened, Running
<1> QED BY <1>4, <1>5, <1>7, OneStep

LEMMA NoServerHelloFlow ==
  ASSUME FlowInv, NEW c \in Client, NoServerHello(c)
  PROVE  FlowInv'
<1> USE DEF NoServerHello, ClientGo, network, serverVars, parentVars, diskVars
<1>1. FlowTypes /\ FlowOf(c)
  BY DEF FlowInv
<1>2. OthersKept(c)
  BY <1>1 DEF OthersKept, FlowTypes
<1>3. FlowTypes'
  BY <1>1 DEF FlowTypes
<1>4. FlowOf(c)'
  <2>1. at'[c] = "failed" /\ ~Running(c) /\ ~Running(c)' /\ ~Opened(c)
    BY <1>1 DEF FlowTypes, Running, Opened
  <2> QED BY <1>1, <2>1 DEF FlowOf, Opened
<1> QED BY <1>2, <1>3, <1>4, OneStep

LEMMA SendBlockFlow ==
  ASSUME FlowInv, NEW c \in Client, SendBlock(c)
  PROVE  FlowInv'
<1> USE DEF network, serverVars, parentVars, diskVars
<1> DEFINE k == InBlock(c, sent[c])
           x == <<Header(3, (conn_seq[c] + 1) % SeqMod, k)>>
                  \o Payload(SubSeq(File(c), sent[c] + 1, sent[c] + k))
<1>1. FlowTypes /\ FlowOf(c)
  BY DEF FlowInv
<1>2. /\ at[c] = "sending" /\ at' = at /\ k > 0
      /\ toServer' = [toServer EXCEPT ![c] = @ \o x]
      /\ conn_seq' = [conn_seq EXCEPT ![c] = @ + 1]
      /\ sent' = [sent EXCEPT ![c] = @ + k]
      /\ UNCHANGED <<reply, up, accepted, pc, pid, seq, header, torn, data, offset>>
  BY DEF SendBlock, Send, InBlock, Block
<1>3. sent[c] \in Nat /\ sent[c] < Length[c] /\ conn_seq[c] \in Nat
  BY <1>1, <1>2, PieceFacts DEF FlowTypes, InBlock
<1>4. x \in Seq(Unit) /\ Len(x) = k + 1 /\ BlockAt(x, 1, c, sent[c], conn_seq[c] + 1)
  BY <1>3, BlockMessage, Zenon
<1>5. k \in 1 .. 2 /\ sent[c] + k <= Length[c]
  BY <1>3, InBlockFacts
<1> HIDE DEF x, k
<1>6. toServer'[c] = toServer[c] \o x /\ toServer'[c] \in Seq(Unit) /\ toServer[c] \in Seq(Unit)
  BY <1>1, <1>2, <1>4, Joined DEF FlowTypes
<1>7. OthersKept(c)
  BY <1>1, <1>2 DEF OthersKept, FlowTypes
<1>8. FlowTypes'
  <2>1. toServer' \in [Client -> Seq(Unit)]
    BY <1>1, <1>2, <1>6 DEF FlowTypes
  <2>2. sent' \in [Client -> Nat] /\ \A d \in Client : sent'[d] <= Length[d]
    <3>1. sent' = [sent EXCEPT ![c] = sent[c] + k] /\ sent[c] + k \in Nat
      BY <1>2, <1>3, <1>5
    <3>2. sent \in [Client -> Nat] /\ \A d \in Client : sent[d] <= Length[d]
      BY <1>1 DEF FlowTypes
    <3> QED BY <1>5, <3>1, <3>2
  <2>3. conn_seq' \in [Client -> Nat]
    BY <1>1, <1>2 DEF FlowTypes
  <2> QED BY <1>1, <1>2, <2>1, <2>2, <2>3 DEF FlowTypes
<1>9. Opened(c) /\ c \notin torn => WholeNow(c)'
  <2> SUFFICES ASSUME Opened(c), c \notin torn PROVE WholeNow(c)'
    OBVIOUS
  <2>1. Whole(c, Stream(c), offset[c], sent[c], "sending", conn_seq[c], reply[c], First(c))
    BY <1>1, <1>2 DEF FlowOf, WholeNow
  <2>2. Stream(c) \in Seq(Unit) /\ First(c) \in Nat /\ offset[c] \in Nat
    BY <1>1, StreamTypes DEF FlowTypes
  <2>3. Whole(c, Stream(c) \o x, offset[c], sent[c] + k, "sending", conn_seq[c] + 1,
              reply[c], First(c))
    BY <1>3, <1>4, <2>1, <2>2, WholeBlock DEF k
  <2>4. Stream(c)' = Stream(c) \o x /\ First(c)' = First(c)
    BY <1>1, <1>2, <1>4, <1>6, StreamGrows
  <2>5. /\ sent'[c] = sent[c] + k /\ conn_seq'[c] = conn_seq[c] + 1 /\ at'[c] = "sending"
        /\ offset'[c] = offset[c] /\ reply'[c] = reply[c]
    BY <1>1, <1>2 DEF FlowTypes
  <2> QED BY <2>3, <2>4, <2>5 DEF WholeNow
<1>10. toServer[c] # <<>> => toServer'[c] # <<>> /\ toServer'[c][1] = toServer[c][1]
  BY <1>4, <1>6, Joined
<1>11. FlowOf(c)'
  BY <1>1, <1>2, <1>9, <1>10 DEF FlowOf, Opened, Running
<1> QED BY <1>7, <1>8, <1>11, OneStep

LEMMA SendNameFlow ==
  ASSUME FlowInv, NEW c \in Client, SendName(c)
  PROVE  FlowInv'
<1> USE DEF network, serverVars, parentVars, diskVars
<1> DEFINE x == <<Header(4, (conn_seq[c] + 1) % SeqMod, Block)>> \o Payload(FullName(c))
<1>1. FlowTypes /\ FlowOf(c)
  BY DEF FlowInv
<1>2. /\ at[c] = "sending" /\ at' = [at EXCEPT ![c] = "done"]
      /\ sent[c] = Length[c]
      /\ toServer' = [toServer EXCEPT ![c] = @ \o x]
      /\ conn_seq' = [conn_seq EXCEPT ![c] = @ + 1]
      /\ UNCHANGED <<sent, reply, up, accepted, pc, pid, seq, header, torn, data, offset>>
  BY DEF SendName, Send, ClientGo
<1>3. conn_seq[c] \in Nat
  BY <1>1 DEF FlowTypes
<1>4. x \in Seq(Unit) /\ Len(x) = 3 /\ NameAt(x, 1, c, conn_seq[c] + 1)
  BY <1>3, NameMessage
<1> HIDE DEF x
<1>6. toServer'[c] = toServer[c] \o x /\ toServer'[c] \in Seq(Unit) /\ toServer[c] \in Seq(Unit)
  BY <1>1, <1>2, <1>4, Joined DEF FlowTypes
<1>7. OthersKept(c)
  BY <1>1, <1>2 DEF OthersKept, FlowTypes
<1>8. FlowTypes'
  <2>1. toServer' \in [Client -> Seq(Unit)]
    BY <1>1, <1>2, <1>6 DEF FlowTypes
  <2>2. conn_seq' \in [Client -> Nat]
    BY <1>1, <1>2 DEF FlowTypes
  <2> QED BY <1>1, <1>2, <2>1, <2>2 DEF FlowTypes
<1>9. Opened(c) /\ c \notin torn => WholeNow(c)'
  <2> SUFFICES ASSUME Opened(c), c \notin torn PROVE WholeNow(c)'
    OBVIOUS
  <2>1. Whole(c, Stream(c), offset[c], Length[c], "sending", conn_seq[c], reply[c], First(c))
    BY <1>1, <1>2 DEF FlowOf, WholeNow
  <2>2. Stream(c) \in Seq(Unit) /\ First(c) \in Nat /\ offset[c] \in Nat
    BY <1>1, StreamTypes DEF FlowTypes
  <2>3. Whole(c, Stream(c) \o x, offset[c], Length[c], "done", conn_seq[c] + 1,
              reply[c], First(c))
    BY <1>3, <1>4, <2>1, <2>2, WholeName
  <2>4. Stream(c)' = Stream(c) \o x /\ First(c)' = First(c)
    BY <1>1, <1>2, <1>4, <1>6, StreamGrows
  <2>5. /\ sent'[c] = Length[c] /\ conn_seq'[c] = conn_seq[c] + 1 /\ at'[c] = "done"
        /\ offset'[c] = offset[c] /\ reply'[c] = reply[c]
    BY <1>1, <1>2 DEF FlowTypes
  <2> QED BY <2>3, <2>4, <2>5 DEF WholeNow
<1>10. toServer[c] # <<>> => toServer'[c] # <<>> /\ toServer'[c][1] = toServer[c][1]
  BY <1>4, <1>6, Joined
<1>11. at'[c] = "done"
  BY <1>1, <1>2 DEF FlowTypes
<1>12. FlowOf(c)'
  BY <1>1, <1>2, <1>9, <1>10, <1>11 DEF FlowOf, Opened, Running
<1> QED BY <1>7, <1>8, <1>12, OneStep

LEMMA LeaveFlow ==
  ASSUME FlowInv, NEW c \in Client, Leave(c)
  PROVE  FlowInv'
<1> USE DEF Leave, ClientGo, network, serverVars, parentVars, diskVars
<1>1. FlowTypes /\ FlowOf(c)
  BY DEF FlowInv
<1>2. OthersKept(c)
  BY <1>1 DEF OthersKept, FlowTypes
<1>3. FlowTypes'
  BY <1>1 DEF FlowTypes
<1>4. at'[c] = "left"
  BY <1>1 DEF FlowTypes
<1>5. Opened(c) /\ c \notin torn => WholeNow(c)'
  <2> SUFFICES ASSUME Opened(c), c \notin torn PROVE WholeNow(c)'
    OBVIOUS
  <2>1. Whole(c, Stream(c), offset[c], sent[c], at[c], conn_seq[c], reply[c], First(c))
    BY <1>1 DEF FlowOf, WholeNow
  <2>2. Whole(c, Stream(c), offset[c], sent[c], "left", conn_seq[c], reply[c], First(c))
    BY <2>1, WholeLeft
  <2>3. Stream(c)' = Stream(c) /\ First(c)' = First(c)
    BY DEF Stream, First
  <2> QED BY <1>4, <2>2, <2>3 DEF WholeNow
<1>6. FlowOf(c)'
  BY <1>1, <1>4, <1>5 DEF FlowOf, Opened, Running
<1> QED BY <1>2, <1>3, <1>6, OneStep

LEMMA ForkFlow ==
  ASSUME FlowInv, NEW c \in Client, Fork(c)
  PROVE  FlowInv'
<1> USE DEF Fork, Waiting, clientVars, network, diskVars
<1>1. FlowTypes /\ FlowOf(c)
  BY DEF FlowInv
<1>2. OthersKept(c)
  BY <1>1 DEF OthersKept, FlowTypes
<1>3. FlowTypes'
  BY <1>1, SMTT(30) DEF FlowTypes, FreePids
<1>4. pc[c] = "none" /\ pc'[c] = "hello" /\ at[c] # "failed"
  BY <1>1 DEF FlowOf, FlowTypes
<1>5. FlowOf(c)'
  BY <1>1, <1>4 DEF FlowOf, Opened, Running
<1> QED BY <1>2, <1>3, <1>5, OneStep

LEMMA FailsFlow ==
  ASSUME FlowInv, Fails
  PROVE  FlowInv'
<1> USE DEF Fails, clientVars, network, diskVars
<1>1. FlowTypes'
  BY DEF FlowInv, FlowTypes
<1>2. ASSUME NEW d \in Client PROVE FlowOf(d)'
  <2>1. FlowOf(d)
    BY DEF FlowInv
  <2> QED BY <2>1, FlowKept
<1> QED BY <1>1, <1>2 DEF FlowInv

LEMMA ReapFlow ==
  ASSUME FlowInv, Reap
  PROVE  FlowInv'
<1> USE DEF Reap, clientVars, network, parentVars, diskVars
<1>1. FlowTypes'
  BY DEF FlowInv, FlowTypes
<1>2. ASSUME NEW d \in Client PROVE FlowOf(d)'
  <2>1. FlowOf(d) /\ (pc'[d] = pc[d] \/ (pc[d] = "ended" /\ pc'[d] = "gone"))
    BY DEF FlowInv
  <2> QED BY <2>1, FlowKept
<1> QED BY <1>1, <1>2 DEF FlowInv

LEMMA BeginFlow ==
  ASSUME FlowInv, NEW c \in Client, Begin(c)
  PROVE  FlowInv'
<1>1. FlowTypes /\ FlowOf(c)
  BY DEF FlowInv
<1>2. /\ pc[c] = "hello" /\ toServer[c] # <<>>
      /\ toServer' = [toServer EXCEPT ![c] = Tail(@)]
      /\ reply' = [reply EXCEPT ![c] = toServer[c][1][3] + 1]
      /\ seq' = [seq EXCEPT ![c] = toServer[c][1][3] + 1]
      /\ pc' = [pc EXCEPT ![c] = "header"]
      /\ UNCHANGED <<at, conn_seq, sent, up, accepted, pid, header, data, offset, torn>>
  BY DEF Begin, NextSeq, Goto, clientVars, parentVars
<1>3. /\ toServer[c] = <<Header(1, conn_seq[c], 0)>> /\ at[c] \in {"greeting", "left"}
      /\ sent[c] = 0 /\ offset[c] = 0 /\ c \notin torn
  BY <1>1, <1>2 DEF FlowOf, Running
<1>4. Tail(toServer[c]) = <<>> /\ toServer[c][1][3] = conn_seq[c] /\ conn_seq[c] \in Nat
  BY <1>1, <1>3 DEF Header, FlowTypes
<1>5. /\ toServer'[c] = <<>> /\ reply'[c] = conn_seq[c] + 1 /\ seq'[c] = conn_seq[c] + 1
      /\ pc'[c] = "header"
  BY <1>1, <1>2, <1>4 DEF FlowTypes
<1>6. OthersKept(c)
  BY <1>1, <1>2 DEF OthersKept, FlowTypes
<1>7. FlowTypes'
  <2>1. toServer' \in [Client -> Seq(Unit)]
    BY <1>1, <1>2, <1>4, EmptySeq DEF FlowTypes
  <2>2. reply' \in [Client -> Nat \cup {-1}] /\ seq' \in [Client -> Nat]
    BY <1>1, <1>2, <1>4 DEF FlowTypes
  <2> QED BY <1>1, <1>2, <2>1, <2>2 DEF FlowTypes
<1>8. WholeNow(c)'
  <2>1. Whole(c, <<>>, 0, 0, at[c], conn_seq[c], conn_seq[c] + 1, conn_seq[c] + 2)
    BY <1>3, <1>4, WholeStart
  <2>2. Stream(c)' = <<>> /\ First(c)' = conn_seq[c] + 2
    BY <1>4, <1>5 DEF Stream, First
  <2> QED BY <1>2, <1>3, <1>5, <2>1, <2>2 DEF WholeNow
<1>9. FlowOf(c)'
  BY <1>1, <1>2, <1>3, <1>4, <1>5, <1>8 DEF FlowOf, Opened, Running
<1> QED BY <1>6, <1>7, <1>9, OneStep

LEMMA TornHeaderFlow ==
  ASSUME FlowInv, NEW c \in Client, TornHeader(c)
  PROVE  FlowInv'
<1> USE DEF TornHeader, Goto, clientVars, network, parentVars, diskVars
<1>1. FlowTypes /\ FlowOf(c)
  BY DEF FlowInv
<1>2. OthersKept(c)
  BY <1>1 DEF OthersKept, FlowTypes
<1>3. FlowTypes'
  BY <1>1 DEF FlowTypes
<1>4. FlowOf(c)'
  <2>1. pc'[c] = "ended"
    BY <1>1 DEF FlowTypes
  <2> QED BY <1>1, <2>1 DEF FlowOf, Opened, Running
<1> QED BY <1>2, <1>3, <1>4, OneStep

LEMMA StopFlow ==
  ASSUME FlowInv, NEW c \in Client, Stop(c)
  PROVE  FlowInv'
<1> USE DEF Stop, Goto, clientVars, network, parentVars, diskVars
<1>1. FlowTypes /\ FlowOf(c)
  BY DEF FlowInv
<1>2. OthersKept(c)
  BY <1>1 DEF OthersKept, FlowTypes
<1>3. FlowTypes'
  BY <1>1 DEF FlowTypes
<1>4. FlowOf(c)'
  <2>1. pc'[c] = "ended"
    BY <1>1 DEF FlowTypes
  <2> QED BY <1>1, <2>1 DEF FlowOf, Opened, Running
<1> QED BY <1>2, <1>3, <1>4, OneStep

LEMMA ReadHeaderFlow ==
  ASSUME FlowInv, NEW c \in Client, ReadHeader(c)
  PROVE  FlowInv'
<1> DEFINE u == toServer[c]
<1>1. FlowTypes /\ FlowOf(c)
  BY DEF FlowInv
<1>2. /\ pc[c] = "header" /\ u # <<>> /\ u[1][1] = "header"
      /\ header' = [header EXCEPT ![c] = u[1]]
      /\ pc' = [pc EXCEPT ![c] = IF u[1][2] = 4 THEN "store" ELSE "payload"]
      /\ toServer' = [toServer EXCEPT ![c] = Tail(@)]
      /\ seq' = [seq EXCEPT ![c] = @ + 1]
      /\ UNCHANGED <<at, conn_seq, sent, reply, up, accepted, pid, data, offset, torn>>
  BY DEF ReadHeader, InSequence, Goto, clientVars, parentVars, diskVars
<1>3. c \notin torn /\ u \in Seq(Unit) /\ seq[c] \in Nat
  BY <1>1, <1>2 DEF FlowOf, Opened, FlowTypes
<1>4. Whole(c, u, offset[c], sent[c], at[c], conn_seq[c], reply[c], seq[c] + 1)
  BY <1>1, <1>2, <1>3 DEF FlowOf, Opened, WholeNow, Stream, First
<1>5. u[1][2] \in {3, 4}
  <2>1. seq[c] + 1 \in Nat /\ offset[c] \in Nat /\ sent[c] \in Nat
    BY <1>1 DEF FlowTypes
  <2> QED BY <1>2, <1>3, <1>4, <2>1, WholeFront
<1>6. u[1] \in {"header"} \X Nat \X Nat \X Nat /\ Tail(u) \in Seq(Unit) /\ <<u[1]>> \o Tail(u) = u
  <2>1. u[1] \in Unit
    BY <1>2, <1>3
  <2>2. u[1] \in {"header"} \X Nat \X Nat \X Nat
    BY <1>2, <2>1, PieceFacts
  <2>3. Tail(u) \in Seq(Unit) /\ <<u[1]>> \o Tail(u) = u
    <3> HIDE DEF u
    <3> QED BY <1>2, <1>3, <2>1
  <2> QED BY <2>2, <2>3
<1>7. /\ toServer'[c] = Tail(u) /\ header'[c] = u[1] /\ seq'[c] = seq[c] + 1
      /\ pc'[c] = IF u[1][2] = 4 THEN "store" ELSE "payload"
  BY <1>1, <1>2 DEF FlowTypes
<1>8. OthersKept(c)
  BY <1>1, <1>2 DEF OthersKept, FlowTypes
<1>9. FlowTypes'
  <2>1. toServer' \in [Client -> Seq(Unit)]
    BY <1>1, <1>2, <1>6 DEF FlowTypes
  <2>2. header' \in [Client -> {"header"} \X Nat \X Nat \X Nat]
    BY <1>1, <1>2, <1>6 DEF FlowTypes
  <2>3. seq' \in [Client -> Nat]
    BY <1>1, <1>2 DEF FlowTypes
  <2> QED BY <1>1, <1>2, <2>1, <2>2, <2>3 DEF FlowTypes
<1>10. WholeNow(c)'
  <2>1. Stream(c)' = u /\ First(c)' = seq[c] + 1
    BY <1>6, <1>7 DEF Stream, First
  <2> QED BY <1>2, <1>4, <2>1 DEF WholeNow
<1>11. FlowOf(c)'
  BY <1>1, <1>2, <1>3, <1>5, <1>7, <1>10 DEF FlowOf, Opened, Running
<1> QED BY <1>8, <1>9, <1>11, OneStep

(* A child with a header in its hands has the whole payload before it. *)
LEMMA InHand ==
  ASSUME FlowTypes, NEW c \in Client, FlowOf(c), pc[c] \in {"payload", "store"}
  PROVE  /\ c \notin torn
         /\ \A i \in 1 .. Len(toServer[c]) : Stream(c)[1 + i] = toServer[c][i]
         /\ Stream(c)[1] = header[c] /\ Len(Stream(c)) = 1 + Len(toServer[c])
         /\ Stream(c) \in Seq(Unit) /\ toServer[c] \in Seq(Unit)
         /\ Whole(c, Stream(c), offset[c], sent[c], at[c], conn_seq[c], reply[c], seq[c])
<1> DEFINE t == toServer[c]
           h == header[c]
<1>1. t \in Seq(Unit) /\ h \in Unit
  BY DEF FlowTypes, Unit
<1>2. Stream(c) = <<h>> \o t
  BY DEF Stream
<1>3. /\ \A i \in 1 .. Len(t) : (<<h>> \o t)[1 + i] = t[i]
      /\ (<<h>> \o t)[1] = h /\ Len(<<h>> \o t) = 1 + Len(t) /\ <<h>> \o t \in Seq(Unit)
  <2> HIDE DEF t, h
  <2> QED BY <1>1
<1>4. c \notin torn
  BY DEF FlowOf, Opened
<1>5. Whole(c, Stream(c), offset[c], sent[c], at[c], conn_seq[c], reply[c], seq[c])
  BY <1>4 DEF FlowOf, Opened, WholeNow, First
<1> QED BY <1>1, <1>2, <1>3, <1>4, <1>5

LEMMA BlockInHand ==
  ASSUME FlowTypes, NEW c \in Client, FlowOf(c), pc[c] = "payload"
  PROVE  /\ c \notin torn
         /\ header[c][4] = InBlock(c, offset[c]) /\ header[c][4] \in 1 .. 2
         /\ offset[c] + header[c][4] <= Length[c] /\ offset[c] \in Nat /\ Length[c] \in Nat
         /\ toServer[c] \in Seq(Unit) /\ Len(toServer[c]) >= header[c][4]
         /\ \A i \in 1 .. header[c][4] : toServer[c][i] = <<"piece", File(c)[offset[c] + i]>>
         /\ Whole(c, SubSeq(toServer[c], header[c][4] + 1, Len(toServer[c])),
                  offset[c] + header[c][4], sent[c], at[c], conn_seq[c], reply[c], seq[c] + 1)
<1> DEFINE u == Stream(c)
           t == toServer[c]
           k == InBlock(c, offset[c])
<1>1. /\ c \notin torn
      /\ \A i \in 1 .. Len(t) : u[1 + i] = t[i]
      /\ u[1] = header[c] /\ Len(u) = 1 + Len(t) /\ u \in Seq(Unit) /\ t \in Seq(Unit)
      /\ Whole(c, u, offset[c], sent[c], at[c], conn_seq[c], reply[c], seq[c])
  BY InHand
<1>2. header[c][2] = 3
  BY DEF FlowOf
<1>3. /\ offset[c] \in Nat /\ sent[c] \in Nat /\ seq[c] \in Nat /\ conn_seq[c] \in Nat
      /\ Length[c] \in Nat
  BY PieceFacts DEF FlowTypes
<1> HIDE DEF u, t
<1>4. u # <<>> /\ Len(t) \in Nat
  BY <1>1
<1>9. u[1][2] = 3 /\ Len(u) = 1 + Len(t)
  BY <1>1, <1>2
<1>10. /\ Whole(c, u, offset[c], sent[c], at[c], conn_seq[c], reply[c], seq[c])
       /\ u \in Seq(Unit)
  BY <1>1
<1>5. /\ u[1][4] = k /\ k \in 1 .. 2
      /\ offset[c] + k <= sent[c] /\ sent[c] <= Length[c]
      /\ Len(u) >= k + 1
      /\ \A i \in 1 .. k : u[1 + i] = <<"piece", File(c)[offset[c] + i]>>
  <2>1. \/ /\ u[1][2] = 3 /\ u[1][4] = InBlock(c, offset[c]) /\ InBlock(c, offset[c]) \in 1 .. 2
           /\ offset[c] + InBlock(c, offset[c]) <= sent[c] /\ sent[c] <= Length[c]
           /\ Len(u) >= InBlock(c, offset[c]) + 1
           /\ \A i \in 1 .. InBlock(c, offset[c]) :
                u[1 + i] = <<"piece", File(c)[offset[c] + i]>>
        \/ /\ u[1][2] = 4 /\ u[1][4] = 2 /\ offset[c] = Length[c] /\ Len(u) = 3
           /\ \A i \in 1 .. 2 : u[1 + i] = <<"piece", FullName(c)[i]>>
    BY <1>3, <1>4, <1>10, WholeFront
  <2>2. u[1][2] # 4
    BY <1>9
  <2> QED BY <2>1, <2>2, Zenon
<1>6. Whole(c, SubSeq(u, k + 2, Len(u)), offset[c] + k, sent[c], at[c],
            conn_seq[c], reply[c], seq[c] + 1)
  BY <1>3, <1>4, <1>9, <1>10, WholeDrop
<1> HIDE DEF k
<1>7. Len(t) >= k /\ \A i \in 1 .. k : t[i] = u[1 + i]
  BY <1>1, <1>4, <1>5
<1>8. SubSeq(u, k + 2, Len(u)) = SubSeq(t, k + 1, Len(t))
  <2>1. /\ SubSeq(t, k + 1, Len(t)) \in Seq(Unit)
        /\ Len(SubSeq(t, k + 1, Len(t))) = Len(t) - k
        /\ \A i \in 1 .. Len(t) - k : SubSeq(t, k + 1, Len(t))[i] = t[k + i]
    BY <1>1, <1>5, <1>7, Cut
  <2>2. /\ SubSeq(u, (k + 1) + 1, Len(u)) \in Seq(Unit)
        /\ Len(SubSeq(u, (k + 1) + 1, Len(u))) = Len(u) - (k + 1)
        /\ \A i \in 1 .. Len(u) - (k + 1) : SubSeq(u, (k + 1) + 1, Len(u))[i] = u[(k + 1) + i]
    BY <1>1, <1>5, Cut
  <2>3. (k + 1) + 1 = k + 2 /\ Len(u) - (k + 1) = Len(t) - k
    BY <1>1, <1>4, <1>5
  <2>4. \A i \in 1 .. Len(t) - k : u[(k + 1) + i] = t[k + i]
    <3>1. \A i \in 1 .. Len(t) - k : k + i \in 1 .. Len(t) /\ (k + 1) + i = 1 + (k + i)
      BY <1>4, <1>5
    <3> QED BY <1>1, <3>1
  <2> DEFINE a == SubSeq(u, k + 2, Len(u))
             b == SubSeq(t, k + 1, Len(t))
  <2>5. /\ a \in Seq(Unit) /\ b \in Seq(Unit) /\ Len(b) = Len(t) - k
        /\ Len(a) = Len(b) /\ \A i \in 1 .. Len(t) - k : a[i] = b[i]
    BY <2>1, <2>2, <2>3, <2>4
  <2> HIDE DEF a, b
  <2>6. \A i \in 1 .. Len(a) : a[i] = b[i]
    BY <2>5
  <2>7. a = b
    BY <2>5, <2>6, SeqEqual, SMTT(30)
  <2> QED BY <2>7 DEF a, b
<1>11. header[c][4] = k /\ c \notin torn /\ t \in Seq(Unit)
  BY <1>1, <1>5
<1>12. offset[c] + k <= Length[c]
  BY <1>3, <1>5
<1>13. \A i \in 1 .. k : t[i] = <<"piece", File(c)[offset[c] + i]>>
  BY <1>5, <1>7
<1> QED BY <1>3, <1>5, <1>6, <1>7, <1>8, <1>11, <1>12, <1>13 DEF t, k

LEMMA NameInHand ==
  ASSUME FlowTypes, NEW c \in Client, FlowOf(c), pc[c] = "store"
  PROVE  /\ c \notin torn
         /\ header[c][4] = 2 /\ offset[c] = Length[c]
         /\ toServer[c] \in Seq(Unit) /\ Len(toServer[c]) = 2
         /\ \A i \in 1 .. 2 : toServer[c][i] = <<"piece", FullName(c)[i]>>
<1> DEFINE u == Stream(c)
           t == toServer[c]
<1>1. /\ c \notin torn
      /\ \A i \in 1 .. Len(t) : u[1 + i] = t[i]
      /\ u[1] = header[c] /\ Len(u) = 1 + Len(t) /\ u \in Seq(Unit) /\ t \in Seq(Unit)
      /\ Whole(c, u, offset[c], sent[c], at[c], conn_seq[c], reply[c], seq[c])
  BY InHand
<1>2. header[c][2] = 4
  BY DEF FlowOf
<1>3. offset[c] \in Nat /\ sent[c] \in Nat /\ seq[c] \in Nat
  BY DEF FlowTypes
<1> HIDE DEF u, t
<1>4. u # <<>> /\ Len(t) \in Nat
  BY <1>1
<1>8. u[1][2] = 4 /\ Len(u) = 1 + Len(t)
  BY <1>1, <1>2
<1>9. /\ Whole(c, u, offset[c], sent[c], at[c], conn_seq[c], reply[c], seq[c])
      /\ u \in Seq(Unit)
  BY <1>1
<1>5. /\ u[1][4] = 2 /\ offset[c] = Length[c] /\ Len(u) = 3
      /\ \A i \in 1 .. 2 : u[1 + i] = <<"piece", FullName(c)[i]>>
  <2>1. \/ /\ u[1][2] = 3 /\ u[1][4] = InBlock(c, offset[c]) /\ InBlock(c, offset[c]) \in 1 .. 2
           /\ offset[c] + InBlock(c, offset[c]) <= sent[c] /\ sent[c] <= Length[c]
           /\ Len(u) >= InBlock(c, offset[c]) + 1
           /\ \A i \in 1 .. InBlock(c, offset[c]) :
                u[1 + i] = <<"piece", File(c)[offset[c] + i]>>
        \/ /\ u[1][2] = 4 /\ u[1][4] = 2 /\ offset[c] = Length[c] /\ Len(u) = 3
           /\ \A i \in 1 .. 2 : u[1 + i] = <<"piece", FullName(c)[i]>>
    BY <1>3, <1>4, <1>9, WholeFront
  <2>2. u[1][2] # 3
    BY <1>8
  <2> QED BY <2>1, <2>2, Zenon
<1>6. Len(t) = 2
  <2>1. Len(u) = 3 /\ Len(u) = 1 + Len(t)
    BY <1>5, <1>8, Zenon
  <2>2. PICK z \in Nat : z = Len(t)
    BY <1>4
  <2>3. 3 = 1 + z
    BY <2>1, <2>2, Zenon
  <2>4. z = 2
    BY <2>3
  <2> QED BY <2>2, <2>4
<1>7. \A i \in 1 .. 2 : t[i] = u[1 + i]
  BY <1>1, <1>6
<1> QED BY <1>1, <1>5, <1>6, <1>7 DEF t

(* One read of a payload that is there: its first k pieces are taken. *)
LEMMA Received ==
  ASSUME FlowTypes, NEW c \in Client, NEW n \in 1 .. 2, Len(toServer[c]) >= n,
         \A i \in 1 .. n : toServer[c][i][2] \in Piece, Receive(c, n)
  PROVE  \E k \in 1 .. n :
           /\ data' \in [Client -> [1 .. Block -> Piece]]
           /\ \A d \in Client \ {c} : data'[d] = data[d] /\ toServer'[d] = toServer[d]
           /\ \A i \in 1 .. k : data'[c][i] = toServer[c][i][2]
           /\ toServer' \in [Client -> Seq(Unit)]
           /\ toServer'[c] = SubSeq(toServer[c], k + 1, Len(toServer[c]))
           /\ torn' = IF k < n THEN torn \cup {c} ELSE torn
<1> DEFINE t == toServer[c]
<1>1. /\ t \in Seq(Unit) /\ toServer \in [Client -> Seq(Unit)]
      /\ data \in [Client -> [1 .. 2 -> Piece]]
  BY DEF FlowTypes, Block
<1>2. ~AtEnd(c)
  BY <1>1 DEF AtEnd
<1>3. PICK k \in Reads(c, n) :
        /\ data' = [data EXCEPT ![c] = [i \in 1 .. Block |->
                                          IF i <= k THEN toServer[c][i][2] ELSE @[i]]]
        /\ toServer' = [toServer EXCEPT ![c] = SubSeq(@, k + 1, Len(@))]
        /\ torn' = IF k < n THEN torn \cup {c} ELSE torn
  BY DEF Receive
<1>4. k \in 1 .. n /\ k <= Len(t)
  BY <1>2, <1>3 DEF Reads
<1>5. SubSeq(t, k + 1, Len(t)) \in Seq(Unit)
  BY <1>1, <1>4, Cut
<1>6. toServer' \in [Client -> Seq(Unit)] /\ toServer'[c] = SubSeq(t, k + 1, Len(t))
      /\ \A d \in Client \ {c} : toServer'[d] = toServer[d]
  BY <1>1, <1>3, <1>5
<1> DEFINE D == [i \in 1 .. 2 |-> IF i <= k THEN t[i][2] ELSE data[c][i]]
<1>7. data' = [data EXCEPT ![c] = D]
  BY <1>1, <1>3 DEF Block
<1>8. D \in [1 .. 2 -> Piece]
  BY <1>1, <1>4
<1>9. \A i \in 1 .. k : D[i] = t[i][2]
  BY <1>4
<1> HIDE DEF D
<1>10. /\ data' \in [Client -> [1 .. Block -> Piece]] /\ data'[c] = D
       /\ \A d \in Client \ {c} : data'[d] = data[d]
  BY <1>1, <1>7, <1>8 DEF Block
<1> QED BY <1>3, <1>4, <1>6, <1>9, <1>10

(* The payload is written at its full length. *)
LEMMA FullLength ==
  ASSUME NEW b \in [1 .. 2 -> Piece], NEW n \in 1 .. 2
  PROVE  /\ Written(b, n) \in Seq(Piece) /\ Len(Written(b, n)) = n
         /\ \A i \in 1 .. n : Written(b, n)[i] = b[i]
BY DEF Written

LEMMA ReadPayloadFlow ==
  ASSUME FlowInv, NEW c \in Client, ReadPayload(c)
  PROVE  FlowInv'
<1> DEFINE n == header[c][4]
           t == toServer[c]
<1>1. FlowTypes /\ FlowOf(c)
  BY DEF FlowInv
<1>2. /\ pc[c] = "payload" /\ Receive(c, n)
      /\ offset' = [offset EXCEPT ![c] = @ + Len(Written(data'[c], n))]
      /\ pc' = [pc EXCEPT ![c] = "header"]
      /\ UNCHANGED <<at, conn_seq, sent, reply, up, accepted, pid, seq, header>>
  BY DEF ReadPayload, Goto, clientVars, parentVars
<1>3. /\ c \notin torn
      /\ n = InBlock(c, offset[c]) /\ n \in 1 .. 2
      /\ offset[c] + n <= Length[c] /\ offset[c] \in Nat /\ Length[c] \in Nat
      /\ t \in Seq(Unit) /\ Len(t) >= n
      /\ \A i \in 1 .. n : t[i] = <<"piece", File(c)[offset[c] + i]>>
      /\ Whole(c, SubSeq(t, n + 1, Len(t)),
               offset[c] + n, sent[c], at[c], conn_seq[c], reply[c], seq[c] + 1)
  BY <1>1, <1>2, BlockInHand
<1>4. \A i \in 1 .. n : t[i][1] = "piece" /\ t[i][2] \in Piece
  <2>1. \A i \in 1 .. n : t[i] \in Unit /\ t[i][1] = "piece"
    BY <1>3
  <2> QED BY <2>1, PieceFacts
<1>5. PICK k \in 1 .. n :
        /\ data' \in [Client -> [1 .. Block -> Piece]]
        /\ \A d \in Client \ {c} : data'[d] = data[d] /\ toServer'[d] = toServer[d]
        /\ toServer' \in [Client -> Seq(Unit)]
        /\ toServer'[c] = SubSeq(t, k + 1, Len(t))
        /\ torn' = IF k < n THEN torn \cup {c} ELSE torn
  BY <1>1, <1>2, <1>3, <1>4, Received
<1>6. offset' = [offset EXCEPT ![c] = @ + n] /\ offset'[c] = offset[c] + n
  <2>1. data'[c] \in [1 .. 2 -> Piece]
    BY <1>5 DEF Block
  <2>2. Len(Written(data'[c], n)) = n
    BY <1>3, <2>1, FullLength
  <2> QED BY <1>1, <1>2, <2>2 DEF FlowTypes
<1>7. OthersKept(c)
  BY <1>1, <1>2, <1>5, <1>6 DEF OthersKept, FlowTypes
<1>8. FlowTypes'
  <2>1. offset' \in [Client -> Nat] /\ \A d \in Client : offset'[d] <= Length[d]
    <3>1. offset \in [Client -> Nat] /\ \A d \in Client : offset[d] <= Length[d]
      BY <1>1 DEF FlowTypes
    <3>2. offset[c] + n \in Nat
      BY <1>3
    <3> QED BY <1>3, <1>6, <3>1, <3>2
  <2>2. torn' \subseteq Client
    BY <1>1, <1>5 DEF FlowTypes
  <2> QED BY <1>1, <1>2, <1>5, <2>1, <2>2 DEF FlowTypes
<1>9. pc'[c] = "header"
  BY <1>1, <1>2 DEF FlowTypes
<1>10. CASE k < n
  <2>1. toServer'[c] # <<>> /\ toServer'[c][1] = t[k + 1]
    <3>1. k \in Nat /\ k <= Len(t) /\ Len(t) - k >= 1 /\ Len(t) \in Nat
      BY <1>3, <1>10
    <3> HIDE DEF t
    <3>2. LET v == SubSeq(t, k + 1, Len(t))
          IN  Len(v) = Len(t) - k /\ \A i \in 1 .. Len(v) : v[i] = t[k + i]
      BY <1>3, <3>1, Cut
    <3>3. Len(toServer'[c]) >= 1 /\ toServer'[c][1] = t[k + 1]
      BY <1>5, <3>1, <3>2
    <3> QED BY <3>3
  <2>2. toServer'[c][1][1] = "piece" /\ c \in torn'
    BY <1>3, <1>4, <1>5, <1>10, <2>1
  <2>3. FlowOf(c)'
    BY <1>1, <1>2, <1>9, <2>1, <2>2 DEF FlowOf, Opened, Running
  <2> QED BY <1>7, <1>8, <2>3, OneStep
<1>11. CASE k = n
  <2>1. toServer'[c] = SubSeq(t, n + 1, Len(t)) /\ torn' = torn
    BY <1>3, <1>5, <1>11
  <2>2. Stream(c)' = SubSeq(t, n + 1, Len(t)) /\ First(c)' = seq[c] + 1
    BY <1>2, <1>9, <2>1 DEF Stream, First
  <2>3. WholeNow(c)'
    BY <1>2, <1>3, <1>6, <2>2 DEF WholeNow
  <2>4. FlowOf(c)'
    BY <1>1, <1>2, <1>3, <1>9, <2>1, <2>3 DEF FlowOf, Opened, Running
  <2> QED BY <1>7, <1>8, <2>4, OneStep
<1> QED BY <1>3, <1>10, <1>11

LEMMA StoreFlow ==
  ASSUME FlowInv, NEW c \in Client, Store(c)
  PROVE  FlowInv'
<1> DEFINE t == toServer[c]
<1>1. FlowTypes /\ FlowOf(c)
  BY DEF FlowInv
<1>2. /\ pc[c] = "store" /\ Receive(c, header[c][4])
      /\ pc' = [pc EXCEPT ![c] = "ended"]
      /\ UNCHANGED <<at, conn_seq, sent, reply, up, accepted, pid, seq, header, offset>>
  BY DEF Store, Goto, clientVars, parentVars
<1>3. /\ header[c][4] = 2 /\ t \in Seq(Unit) /\ Len(t) = 2
      /\ \A i \in 1 .. 2 : t[i] = <<"piece", FullName(c)[i]>>
  BY <1>1, <1>2, NameInHand
<1>4. \A i \in 1 .. 2 : t[i][2] \in Piece
  BY <1>3, PieceFacts
<1>5. PICK k \in 1 .. 2 :
        /\ data' \in [Client -> [1 .. Block -> Piece]]
        /\ \A d \in Client \ {c} : data'[d] = data[d] /\ toServer'[d] = toServer[d]
        /\ toServer' \in [Client -> Seq(Unit)]
        /\ torn' = IF k < 2 THEN torn \cup {c} ELSE torn
  BY <1>1, <1>2, <1>3, <1>4, Received
<1>6. OthersKept(c)
  BY <1>1, <1>2, <1>5 DEF OthersKept, FlowTypes
<1>7. FlowTypes'
  <2>1. torn' \subseteq Client
    BY <1>1, <1>5 DEF FlowTypes
  <2> QED BY <1>1, <1>2, <1>5, <2>1 DEF FlowTypes
<1>8. FlowOf(c)'
  <2>1. pc'[c] = "ended"
    BY <1>1, <1>2 DEF FlowTypes
  <2> QED BY <1>1, <1>2, <2>1 DEF FlowOf, Opened, Running
<1> QED BY <1>6, <1>7, <1>8, OneStep

LEMMA FlowNext == FlowInv /\ [Next]_vars => FlowInv'
<1> SUFFICES ASSUME FlowInv, [Next]_vars PROVE FlowInv'
  OBVIOUS
<1>1. ASSUME NEW c \in Client, ClientSteps(c) PROVE FlowInv'
  BY <1>1, ConnectFlow, ServerHelloFlow, NoServerHelloFlow, SendBlockFlow, SendNameFlow
     DEF ClientSteps, Upload, SendLine, Greet
<1>2. ASSUME NEW c \in Client, Leave(c) PROVE FlowInv'
  BY <1>2, LeaveFlow
<1>3. ASSUME NEW c \in Client, Fork(c) PROVE FlowInv'
  BY <1>3, ForkFlow
<1>4. ASSUME NEW c \in Client, ChildSteps(c) PROVE FlowInv'
  BY <1>4, BeginFlow, ReadHeaderFlow, TornHeaderFlow, StopFlow, ReadPayloadFlow, StoreFlow
     DEF ChildSteps
<1>5. CASE Fails
  BY <1>5, FailsFlow
<1>6. CASE Reap
  BY <1>6, ReapFlow
<1>7. CASE UNCHANGED vars
  <2>1. FlowTypes'
    BY <1>7 DEF FlowInv, FlowTypes, vars, clientVars, network, serverVars, parentVars, diskVars
  <2>2. ASSUME NEW d \in Client PROVE FlowOf(d)'
    <3>1. FlowOf(d)
      BY DEF FlowInv
    <3> QED BY <1>7, <3>1, FlowKept DEF vars, clientVars, network, serverVars, parentVars, diskVars
  <2> QED BY <2>1, <2>2 DEF FlowInv
<1> QED BY <1>1, <1>2, <1>3, <1>4, <1>5, <1>6, <1>7 DEF Next

-----------------------------------------------------------------------------
(* Every step keeps the disk. *)

Exact ==
  \A c \in Uploads : FullName(c) \in DOMAIN dir =>
    \E d \in Uploads : Name[d] = Name[c] /\ content[dir[FullName(c)]] = File(d)

LEMMA ExactWhenClean == ExactUnlessLeftOver <=> (Clean => Exact)
BY DEF ExactUnlessLeftOver, Clean, Exact

(* No work file has the name of an upload. *)
LEMMA NotAPid ==
  /\ \A w \in [1 .. 2 -> Piece] : w \notin Pid
  /\ \A c \in Client : FullName(c) \notin Pid
<1>1. \A w \in [1 .. 2 -> Piece] : w \notin Pid
  BY NamesAssumption DEF Block
<1> QED BY <1>1, PieceFacts

LEMMA DiskInit == Init => DiskInv
<1> SUFFICES ASSUME Init PROVE DiskInv
  OBVIOUS
<1>1. DOMAIN dir = {} /\ \A c \in Client : pc[c] = "none"
  BY DEF Init
<1>2. DiskTypes
  BY <1>1, EmptySeq DEF Init, DiskTypes
<1>3. Separate
  BY <1>1 DEF Init, Separate, Alive, Opened
<1>4. AllGrowing
  BY <1>1 DEF AllGrowing, Opened
<1>5. StoredWhole /\ NothingLeftOver /\ ExactUnlessLeftOver
  BY <1>1 DEF StoredWhole, NothingLeftOver, ExactUnlessLeftOver, Uploads, Opened
<1> QED BY <1>2, <1>3, <1>4, <1>5 DEF DiskInv

(* What is published stays as it is. *)
LEMMA Published ==
  ASSUME \A c \in Uploads : FullName(c) \in DOMAIN dir' =>
           /\ FullName(c) \in DOMAIN dir /\ dir'[FullName(c)] = dir[FullName(c)]
           /\ content'[dir[FullName(c)]] = content[dir[FullName(c)]],
         StoredWhole
  PROVE  StoredWhole' /\ (Exact => Exact')
<1>1. StoredWhole'
  BY DEF StoredWhole, Begins
<1>2. Exact => Exact'
  BY DEF Exact
<1> QED BY <1>1, <1>2

(* The disk is left alone; a child that ends does so without a rename. *)
LEMMA Steady ==
  ASSUME DiskInv, UNCHANGED <<pid, ino, offset, dir, content>>, torn \subseteq torn',
         \A c \in Client :
           /\ at[c] = "left" => at'[c] = "left"
           /\ \/ pc'[c] = pc[c]
              \/ Opened(c) /\ Opened(c)'
              \/ pc[c] = "ended" /\ pc'[c] = "gone"
              \/ /\ pc[c] \in {"hello", "header", "store"} /\ pc'[c] = "ended"
                 /\ at'[c] = "left" \/ c \in torn' \/ c \in Multi
  PROVE  DiskInv'
<1>1. \A c \in Client : Opened(c)' => Opened(c)
  BY DEF Opened
<1>2. \A c \in Client : Alive(c)' => Alive(c)
  BY DEF Alive, Opened
<1>3. \A c \in Client : pc'[c] \in {"none", "hello"} <=> pc[c] \in {"none", "hello"} /\ pc'[c] = pc[c]
  BY DEF Opened
<1>4. \A c \in Client : pc[c] \notin {"none", "hello"} => pc'[c] \notin {"none", "hello"}
  BY DEF Opened
<1>5. DiskTypes'
  BY DEF DiskInv, DiskTypes
<1>6. Separate'
  BY <1>1, <1>2, <1>3, <1>4 DEF DiskInv, DiskTypes, Separate
<1>7. AllGrowing'
  BY <1>1 DEF DiskInv, AllGrowing, Growing
<1>8. Clean' => Clean /\ \A c \in Client : Opened(c) => Opened(c)'
  BY DEF Clean, Opened
<1>9. StoredWhole' /\ (Exact => Exact')
  BY Published DEF DiskInv
<1>10. NothingLeftOver'
  BY <1>1, <1>8 DEF DiskInv, NothingLeftOver
<1>11. ExactUnlessLeftOver'
  BY <1>8, <1>9, ExactWhenClean DEF DiskInv, Exact, Clean, ExactUnlessLeftOver
<1> QED BY <1>5, <1>6, <1>7, <1>9, <1>10, <1>11 DEF DiskInv

(* A child stops only when its client has left or it has lost its place. *)
LEMMA StopReason ==
  ASSUME FlowInv, NEW c \in Client, Stop(c)
  PROVE  at[c] = "left" \/ c \in torn
<1> SUFFICES ASSUME c \notin torn PROVE at[c] = "left"
  OBVIOUS
<1> DEFINE u == toServer[c]
<1>1. FlowTypes /\ FlowOf(c) /\ pc[c] = "header"
  BY DEF FlowInv, Stop
<1>2. Whole(c, u, offset[c], sent[c], at[c], conn_seq[c], reply[c], seq[c] + 1)
  BY <1>1 DEF FlowOf, Opened, WholeNow, Stream, First
<1>3. /\ u \in Seq(Unit) /\ seq[c] + 1 \in Nat /\ offset[c] \in Nat /\ sent[c] \in Nat
  BY <1>1 DEF FlowTypes
<1>4. u # <<>> => u[1][1] = "header" /\ u[1][3] = (seq[c] + 1) % SeqMod
  <2> HIDE DEF u
  <2> QED BY <1>2, <1>3, WholeFront
<1>5. u = <<>> /\ at[c] \in {"done", "left"}
  BY <1>4 DEF Stop, AtEnd, InSequence
<1>6. at[c] # "done"
  BY <1>2, <1>3, <1>5, WholeEnd
<1> QED BY <1>5, <1>6

(* The steps that leave the disk alone. *)
LEMMA SteadyDisk ==
  ASSUME FlowInv, DiskInv, NEW c \in Client,
         ClientSteps(c) \/ Leave(c) \/ TornHeader(c) \/ Stop(c) \/ ReadHeader(c)
  PROVE  DiskInv'
<1> USE DEF clientVars, network, serverVars, parentVars, diskVars
<1>1. FlowTypes /\ FlowOf(c)
  BY DEF FlowInv
<1>2. ASSUME Connect(c) \/ ServerHello(c) \/ NoServerHello(c) \/ SendBlock(c) \/ SendName(c)
      PROVE  DiskInv'
  <2>1. /\ UNCHANGED <<pid, ino, offset, dir, content, torn, pc>>
        /\ \A d \in Client : at[d] = "left" => at'[d] = "left"
    BY <1>1, <1>2 DEF Connect, ServerHello, NoServerHello, SendBlock, SendName, ClientGo, FlowTypes
  <2> QED BY <2>1, Steady
<1>3. CASE Leave(c)
  <2>1. /\ UNCHANGED <<pid, ino, offset, dir, content, torn, pc>>
        /\ \A d \in Client : at[d] = "left" => at'[d] = "left"
    BY <1>1, <1>3 DEF Leave, ClientGo, FlowTypes
  <2> QED BY <2>1, Steady
<1>4. CASE TornHeader(c)
  <2>1. /\ UNCHANGED <<pid, ino, offset, dir, content, at>> /\ torn' = torn \cup {c}
        /\ \A d \in Client : d # c => pc'[d] = pc[d]
        /\ pc[c] \in {"hello", "header"} /\ pc'[c] = "ended"
    BY <1>1, <1>4 DEF TornHeader, Goto, FlowTypes
  <2> QED BY <2>1, Steady
<1>5. CASE Stop(c)
  <2>1. /\ UNCHANGED <<pid, ino, offset, dir, content, at, torn>>
        /\ \A d \in Client : d # c => pc'[d] = pc[d]
        /\ pc[c] = "header" /\ pc'[c] = "ended"
    BY <1>1, <1>5 DEF Stop, Goto, FlowTypes
  <2>2. at'[c] = "left" \/ c \in torn'
    BY <1>5, <2>1, StopReason
  <2> QED BY <2>1, <2>2, Steady
<1>6. CASE ReadHeader(c)
  <2>1. /\ UNCHANGED <<pid, ino, offset, dir, content, at, torn>>
        /\ \A d \in Client : d # c => pc'[d] = pc[d]
        /\ pc[c] = "header" /\ pc'[c] \in {"payload", "store"}
    BY <1>1, <1>6 DEF ReadHeader, Goto, FlowTypes
  <2>2. Opened(c) /\ Opened(c)'
    BY <2>1 DEF Opened
  <2> QED BY <2>1, <2>2, Steady
<1> QED BY <1>2, <1>3, <1>4, <1>5, <1>6 DEF ClientSteps, Upload, SendLine, Greet

LEMMA ForkDisk ==
  ASSUME FlowInv, DiskInv, NEW c \in Client, Fork(c)
  PROVE  DiskInv'
<1>1. FlowTypes /\ FlowOf(c)
  BY DEF FlowInv
<1>2. PICK p \in FreePids : pid' = [pid EXCEPT ![c] = p]
  BY DEF Fork
<1>3. /\ pc[c] = "none" /\ pc' = [pc EXCEPT ![c] = "hello"]
      /\ UNCHANGED <<at, ino, offset, dir, content, torn>>
  BY <1>1 DEF Fork, Waiting, FlowOf, clientVars, diskVars
<1>4. /\ pc'[c] = "hello" /\ pid'[c] = p
      /\ \A d \in Client : d # c => pc'[d] = pc[d] /\ pid'[d] = pid[d]
      /\ \A d \in Client : Alive(d) => pid[d] # p
  BY <1>1, <1>2, <1>3 DEF FlowTypes, FreePids, Alive
<1>5. \A d \in Client : (Opened(d)' <=> Opened(d)) /\ (Opened(d) => d # c)
  BY <1>3, <1>4 DEF Opened
<1>6. DiskTypes'
  BY <1>3 DEF DiskInv, DiskTypes
<1>7. Separate'
  <2>1. \A d, e \in Client : (Alive(d) /\ Alive(e) /\ pid[d] = pid[e] => d = e)'
    BY <1>4 DEF DiskInv, Separate, Alive
  <2>2. \A d \in Client : (Opened(d) => pid[d] \in DOMAIN dir /\ dir[pid[d]] = ino[d])'
    BY <1>3, <1>4, <1>5 DEF DiskInv, Separate
  <2>3. \A n \in DOMAIN dir' : pc'[dir'[n]] \notin {"none", "hello"}
    BY <1>3, <1>4 DEF DiskInv, DiskTypes, Separate
  <2>4. \A d \in Client : pc'[d] \in {"none", "hello"} => ino'[d] = d /\ content'[d] = <<>>
    BY <1>3, <1>4 DEF DiskInv, Separate
  <2> QED BY <1>3, <2>1, <2>2, <2>3, <2>4 DEF DiskInv, Separate
<1>8. AllGrowing'
  BY <1>3, <1>5 DEF DiskInv, AllGrowing, Growing
<1>9. Clean' => Clean
  BY <1>3, <1>4 DEF Clean
<1>10. StoredWhole' /\ (Exact => Exact')
  BY <1>3, Published DEF DiskInv
<1>11. NothingLeftOver'
  <2>1. \A d \in Client : Opened(d) => pid'[d] = pid[d]
    BY <1>4, <1>5
  <2> QED BY <1>3, <1>5, <1>9, <2>1 DEF DiskInv, NothingLeftOver
<1>12. ExactUnlessLeftOver'
  BY <1>9, <1>10, ExactWhenClean DEF DiskInv, Exact, Clean, ExactUnlessLeftOver
<1> QED BY <1>6, <1>7, <1>8, <1>10, <1>11, <1>12 DEF DiskInv

LEMMA BeginDisk ==
  ASSUME FlowInv, DiskInv, NEW c \in Client, Begin(c)
  PROVE  DiskInv'
<1>1. FlowTypes /\ FlowOf(c)
  BY DEF FlowInv
<1>2. /\ pc[c] = "hello" /\ pc' = [pc EXCEPT ![c] = "header"]
      /\ IF pid[c] \in DOMAIN dir
         THEN ino' = [ino EXCEPT ![c] = dir[pid[c]]] /\ UNCHANGED dir
         ELSE dir' = [n \in DOMAIN dir \cup {pid[c]} |-> IF n = pid[c] THEN c ELSE dir[n]]
              /\ UNCHANGED ino
      /\ UNCHANGED <<at, pid, offset, content, torn>>
  BY DEF Begin, Goto, clientVars, parentVars
<1>3. /\ pc'[c] = "header" /\ offset[c] = 0 /\ c \notin torn /\ pid[c] \in Pid
      /\ \A d \in Client : d # c => pc'[d] = pc[d] /\ ino'[d] = ino[d]
  BY <1>1, <1>2 DEF FlowOf, FlowTypes, DiskInv, DiskTypes
<1>4. /\ ino[c] = c /\ content[c] = <<>>
      /\ \A n \in DOMAIN dir : dir[n] \in Client /\ dir[n] # c /\ pc[dir[n]] \notin {"none", "hello"}
  BY <1>2 DEF DiskInv, DiskTypes, Separate
<1>5. \A d \in Client : d # c /\ Alive(d) => pid[d] # pid[c]
  BY <1>2 DEF DiskInv, Separate, Alive
<1>6. /\ pid[c] \in DOMAIN dir' /\ dir'[pid[c]] = ino'[c] /\ ino'[c] \in Client
      /\ DOMAIN dir' = DOMAIN dir \cup {pid[c]}
      /\ \A n \in DOMAIN dir : dir'[n] = dir[n]
      /\ pid[c] \notin DOMAIN dir => ino'[c] = c /\ dir'[pid[c]] = c
      /\ pid[c] \in DOMAIN dir => dir' = dir
  BY <1>2, <1>4 DEF DiskInv, DiskTypes
<1>7. DiskTypes'
  <2>1. ino' \in [Client -> Client]
    BY <1>2, <1>4 DEF DiskInv, DiskTypes
  <2> QED BY <1>2, <1>6, <2>1 DEF DiskInv, DiskTypes
<1>8. \A d \in Client : Opened(d)' <=> d = c \/ Opened(d)
  BY <1>2, <1>3 DEF Opened
<1>9. Separate'
  <2>1. \A d, e \in Client : (Alive(d) /\ Alive(e) /\ pid[d] = pid[e] => d = e)'
    BY <1>2, <1>3 DEF DiskInv, Separate, Alive
  <2>2. \A d \in Client : (Opened(d) => pid[d] \in DOMAIN dir /\ dir[pid[d]] = ino[d])'
    <3>1. \A d \in Client : d # c /\ Opened(d) =>
             pid[d] \in DOMAIN dir /\ dir[pid[d]] = ino[d]
      BY DEF DiskInv, Separate
    <3> QED BY <1>2, <1>3, <1>6, <1>8, <3>1
  <2>3. \A n1, n2 \in DOMAIN dir' : dir'[n1] = dir'[n2] => n1 = n2
    BY <1>4, <1>6 DEF DiskInv, Separate
  <2>4. \A n \in DOMAIN dir' : pc'[dir'[n]] \notin {"none", "hello"}
    BY <1>3, <1>4, <1>6
  <2>5. \A d \in Client : pc'[d] \in {"none", "hello"} => ino'[d] = d /\ content'[d] = <<>>
    BY <1>2, <1>3 DEF DiskInv, Separate
  <2> QED BY <2>1, <2>2, <2>3, <2>4, <2>5 DEF Separate
<1>10. AllGrowing'
  <2>1. Growing(c)'
    <3>1. offset'[c] = 0 /\ content'[ino'[c]] \in Seq(Piece)
      BY <1>2, <1>3, <1>7 DEF DiskTypes
    <3> QED BY <3>1 DEF Growing
  <2>2. \A d \in Client : d # c /\ Opened(d) /\ d \notin torn => Growing(d)
    BY DEF DiskInv, AllGrowing
  <2>3. \A d \in Client : d # c /\ Growing(d) => Growing(d)'
    BY <1>2, <1>3 DEF Growing
  <2> QED BY <1>2, <1>8, <2>1, <2>2, <2>3 DEF AllGrowing
<1>11. Clean' => Clean
  BY <1>2, <1>3 DEF Clean
<1>12. StoredWhole' /\ (Exact => Exact')
  <2>1. \A d \in Uploads : FullName(d) # pid[c]
    BY <1>3, NotAPid DEF Uploads
  <2>2. \A d \in Uploads : FullName(d) \in DOMAIN dir' =>
           /\ FullName(d) \in DOMAIN dir /\ dir'[FullName(d)] = dir[FullName(d)]
           /\ content'[dir[FullName(d)]] = content[dir[FullName(d)]]
    BY <1>2, <1>6, <2>1
  <2>3. StoredWhole
    BY DEF DiskInv
  <2> QED BY <2>2, <2>3, Published
<1>13. NothingLeftOver'
  <2> SUFFICES ASSUME Clean'
               PROVE  /\ \A p \in DOMAIN dir' \cap Pid : \E d \in Client : Opened(d)' /\ pid'[d] = p
                      /\ \A d \in Client : Opened(d)' /\ d \notin torn' =>
                                             Len(content'[ino'[d]]) = offset'[d]
    BY DEF NothingLeftOver
  <2>1. /\ \A p \in DOMAIN dir \cap Pid : \E d \in Client : Opened(d) /\ pid[d] = p
        /\ \A d \in Client : Opened(d) /\ d \notin torn => Len(content[ino[d]]) = offset[d]
    BY <1>11 DEF DiskInv, NothingLeftOver
  <2>2. pid[c] \notin DOMAIN dir
    BY <1>2, <1>3, <1>5, <2>1 DEF Opened, Alive
  <2>3. Len(content'[ino'[c]]) = offset'[c]
    BY <1>2, <1>3, <1>4, <1>6, <2>2
  <2> QED BY <1>2, <1>3, <1>6, <1>8, <2>1, <2>3
<1>14. ExactUnlessLeftOver'
  BY <1>11, <1>12, ExactWhenClean DEF DiskInv, Exact, Clean, ExactUnlessLeftOver
<1> QED BY <1>7, <1>9, <1>10, <1>12, <1>13, <1>14 DEF DiskInv

(* A write behind the beginning of a file. *)
LEMMA OverwrittenFacts ==
  ASSUME NEW old \in Seq(Piece), NEW from \in Nat, from <= Len(old), NEW w \in Seq(Piece)
  PROVE  LET new == Overwritten(old, from, w)
         IN  /\ new \in Seq(Piece)
             /\ Len(new) = IF Len(old) > from + Len(w) THEN Len(old) ELSE from + Len(w)
             /\ \A i \in 1 .. from : new[i] = old[i]
             /\ \A i \in 1 .. Len(w) : new[from + i] = w[i]
<1> DEFINE m == IF Len(old) > from + Len(w) THEN Len(old) ELSE from + Len(w)
           E(i) == IF i > from /\ i <= from + Len(w) THEN w[i - from] ELSE old[i]
           new == Overwritten(old, from, w)
<1>1. new = [i \in 1 .. m |-> E(i)]
  BY DEF Overwritten
<1>2. m \in Nat /\ m >= from /\ m >= from + Len(w)
  OBVIOUS
<1>3. \A i \in 1 .. m : E(i) \in Piece
  <2> SUFFICES ASSUME NEW i \in 1 .. m PROVE E(i) \in Piece
    OBVIOUS
  <2>1. CASE i > from /\ i <= from + Len(w)
    <3>1. i - from \in 1 .. Len(w)
      BY <2>1
    <3> QED BY <2>1, <3>1
  <2>2. CASE ~(i > from /\ i <= from + Len(w))
    <3>1. i \in 1 .. Len(old)
      BY <2>2
    <3> QED BY <2>2, <3>1
  <2> QED BY <2>1, <2>2
<1>4. \A i \in 1 .. from : E(i) = old[i]
  OBVIOUS
<1>5. \A i \in 1 .. Len(w) : E(from + i) = w[i] /\ from + i \in 1 .. m
  OBVIOUS
<1> HIDE DEF m, E
<1>6. new \in Seq(Piece) /\ Len(new) = m
  <2>1. [i \in 1 .. m |-> E(i)] \in Seq(Piece)
    BY <1>2, <1>3, IsASeq
  <2> QED BY <1>1, <1>2, <2>1
<1>7. \A i \in 1 .. from : new[i] = old[i]
  BY <1>1, <1>2, <1>4
<1>8. \A i \in 1 .. Len(w) : new[from + i] = w[i]
  BY <1>1, <1>5
<1> QED BY <1>6, <1>7, <1>8 DEF m

(* What a payload changes on the disk: one file, which is no other's. *)
LEMMA PayloadWritten ==
  ASSUME FlowInv, DiskInv, NEW c \in Client, ReadPayload(c)
  PROVE  \E new \in Seq(Piece), n \in 1 .. 2 :
           /\ pc[c] = "payload" /\ pc' = [pc EXCEPT ![c] = "header"] /\ c \notin torn
           /\ content' = [content EXCEPT ![ino[c]] = new]
           /\ offset' = [offset EXCEPT ![c] = @ + n]
           /\ UNCHANGED <<at, pid, ino, dir>>
           /\ offset[c] \in Nat
           /\ Len(new) = IF Len(content[ino[c]]) > offset[c] + n
                           THEN Len(content[ino[c]]) ELSE offset[c] + n
           /\ \/ torn' = torn /\ \A i \in 1 .. offset[c] + n : new[i] = File(c)[i]
              \/ torn' = torn \cup {c}
<1> DEFINE n == header[c][4]
           t == toServer[c]
           w == Written(data'[c], n)
           old == content[ino[c]]
           from == offset[c]
           new == Overwritten(old, from, w)
<1>1. FlowTypes /\ FlowOf(c)
  BY DEF FlowInv
<1>2. /\ pc[c] = "payload" /\ Receive(c, n)
      /\ content' = [content EXCEPT ![ino[c]] = Overwritten(@, offset[c], w)]
      /\ offset' = [offset EXCEPT ![c] = @ + Len(w)]
      /\ pc' = [pc EXCEPT ![c] = "header"]
      /\ UNCHANGED <<at, pid, ino, dir>>
  BY DEF ReadPayload, Goto, clientVars, parentVars
<1>3. /\ c \notin torn /\ n \in 1 .. 2 /\ from \in Nat
      /\ t \in Seq(Unit) /\ Len(t) >= n
      /\ \A i \in 1 .. n : t[i] = <<"piece", File(c)[from + i]>>
  BY <1>1, <1>2, BlockInHand
<1>4. \A i \in 1 .. n : t[i][2] = File(c)[from + i] /\ t[i][2] \in Piece
  <2>1. \A i \in 1 .. n : t[i] \in Unit /\ t[i][1] = "piece" /\ t[i][2] = File(c)[from + i]
    BY <1>3
  <2> QED BY <2>1, PieceFacts
<1>5. PICK k \in 1 .. n :
        /\ data' \in [Client -> [1 .. Block -> Piece]]
        /\ \A i \in 1 .. k : data'[c][i] = t[i][2]
        /\ torn' = IF k < n THEN torn \cup {c} ELSE torn
  <2>1. \A i \in 1 .. n : toServer[c][i][2] \in Piece
    BY <1>4
  <2> QED BY <1>1, <1>2, <1>3, <2>1, Received
<1>6. w \in Seq(Piece) /\ Len(w) = n /\ \A i \in 1 .. n : w[i] = data'[c][i]
  <2>1. data'[c] \in [1 .. 2 -> Piece]
    BY <1>5 DEF Block
  <2> QED BY <1>3, <2>1, FullLength
<1>7. old \in Seq(Piece) /\ from <= Len(old) /\ \A i \in 1 .. from : old[i] = File(c)[i]
  <2>1. Growing(c)
    BY <1>2, <1>3 DEF DiskInv, AllGrowing, Opened
  <2> QED BY <2>1 DEF Growing, DiskInv, DiskTypes
<1> HIDE DEF w, old, from, t, n
<1>8. /\ new \in Seq(Piece)
      /\ Len(new) = IF Len(old) > from + n THEN Len(old) ELSE from + n
      /\ \A i \in 1 .. from : new[i] = old[i]
      /\ \A i \in 1 .. n : new[from + i] = w[i]
  <2>1. /\ new \in Seq(Piece)
        /\ Len(new) = IF Len(old) > from + Len(w) THEN Len(old) ELSE from + Len(w)
        /\ \A i \in 1 .. from : new[i] = old[i]
        /\ \A i \in 1 .. Len(w) : new[from + i] = w[i]
    BY <1>3, <1>6, <1>7, OverwrittenFacts
  <2> HIDE DEF new
  <2> QED BY <1>6, <2>1
<1> HIDE DEF new
<1>9. k = n => \A i \in 1 .. from + n : new[i] = File(c)[i]
  <2> SUFFICES ASSUME k = n, NEW i \in 1 .. from + n PROVE new[i] = File(c)[i]
    OBVIOUS
  <2>1. CASE i <= from
    <3>1. i \in 1 .. from
      BY <1>3, <2>1
    <3> QED BY <1>7, <1>8, <3>1
  <2>2. CASE i > from
    <3>1. i - from \in 1 .. n /\ from + (i - from) = i
      BY <1>3, <2>2
    <3>2. new[from + (i - from)] = w[i - from]
      BY <1>8, <3>1
    <3>3. w[i - from] = data'[c][i - from]
      BY <1>6, <3>1
    <3>4. data'[c][i - from] = t[i - from][2]
      BY <1>5, <3>1
    <3>5. t[i - from][2] = File(c)[from + (i - from)]
      BY <1>4, <3>1
    <3> QED BY <3>1, <3>2, <3>3, <3>4, <3>5
  <2> QED BY <1>3, <2>1, <2>2
<1>10. k = n \/ k < n
  BY <1>3
<1>11. \/ torn' = torn /\ \A i \in 1 .. from + n : new[i] = File(c)[i]
       \/ torn' = torn \cup {c}
  BY <1>3, <1>5, <1>9, <1>10
<1>12. content' = [content EXCEPT ![ino[c]] = new]
  <2>1. content' = [content EXCEPT ![ino[c]] = Overwritten(content[ino[c]], offset[c], w)]
    BY <1>2
  <2> QED BY <2>1 DEF new, old, from
<1>13. offset' = [offset EXCEPT ![c] = @ + n]
  BY <1>2, <1>6
<1> QED BY <1>2, <1>3, <1>8, <1>11, <1>12, <1>13 DEF old, from

LEMMA ReadPayloadDisk ==
  ASSUME FlowInv, DiskInv, NEW c \in Client, ReadPayload(c)
  PROVE  DiskInv'
<1>1. PICK new \in Seq(Piece), n \in 1 .. 2 :
           /\ pc[c] = "payload" /\ pc' = [pc EXCEPT ![c] = "header"] /\ c \notin torn
           /\ content' = [content EXCEPT ![ino[c]] = new]
           /\ offset' = [offset EXCEPT ![c] = @ + n]
           /\ UNCHANGED <<at, pid, ino, dir>>
           /\ offset[c] \in Nat
           /\ Len(new) = IF Len(content[ino[c]]) > offset[c] + n
                           THEN Len(content[ino[c]]) ELSE offset[c] + n
           /\ \/ torn' = torn /\ \A i \in 1 .. offset[c] + n : new[i] = File(c)[i]
              \/ torn' = torn \cup {c}
  BY PayloadWritten
<1>2. /\ pc'[c] = "header" /\ offset'[c] = offset[c] + n
      /\ content'[ino[c]] = new
      /\ \A d \in Client : d # c => pc'[d] = pc[d] /\ offset'[d] = offset[d]
      /\ \A f \in Client : f # ino[c] => content'[f] = content[f]
  BY <1>1 DEF FlowInv, FlowTypes, DiskInv, DiskTypes
<1>3. /\ pid[c] \in DOMAIN dir /\ dir[pid[c]] = ino[c] /\ pid[c] \in Pid
      /\ \A m \in DOMAIN dir : m # pid[c] => dir[m] # ino[c]
      /\ pc[ino[c]] \notin {"none", "hello"}
  BY <1>1 DEF FlowInv, FlowTypes, DiskInv, Separate, Opened
<1>4. \A d \in Client : d # c /\ Opened(d) => ino[d] # ino[c]
  <2>1. \A d \in Client : d # c /\ Opened(d) => pid[d] # pid[c]
    BY <1>1 DEF DiskInv, Separate, Alive, Opened
  <2>2. \A d \in Client : Opened(d) => pid[d] \in DOMAIN dir /\ dir[pid[d]] = ino[d]
    BY DEF DiskInv, Separate
  <2> QED BY <1>3, <2>1, <2>2
<1>5. DiskTypes'
  BY <1>1 DEF DiskInv, DiskTypes
<1>6. \A d \in Client : Opened(d)' <=> Opened(d)
  BY <1>1, <1>2 DEF Opened
<1>7. Separate'
  <2>1. \A d, e \in Client : (Alive(d) /\ Alive(e) /\ pid[d] = pid[e] => d = e)'
    BY <1>1, <1>2 DEF DiskInv, Separate, Alive
  <2>2. \A d \in Client : (Opened(d) => pid[d] \in DOMAIN dir /\ dir[pid[d]] = ino[d])'
    BY <1>1, <1>6 DEF DiskInv, Separate
  <2>3. \A m \in DOMAIN dir' : pc'[dir'[m]] \notin {"none", "hello"}
    BY <1>1, <1>2 DEF DiskInv, DiskTypes, Separate
  <2>4. \A d \in Client : pc'[d] \in {"none", "hello"} => ino'[d] = d /\ content'[d] = <<>>
    BY <1>1, <1>2, <1>3 DEF DiskInv, Separate
  <2> QED BY <1>1, <2>1, <2>2, <2>3, <2>4 DEF DiskInv, Separate
<1>8. AllGrowing'
  <2>1. c \notin torn' => Growing(c)'
    <3> SUFFICES ASSUME c \notin torn' PROVE Growing(c)'
      OBVIOUS
    <3>1. \A i \in 1 .. offset[c] + n : new[i] = File(c)[i]
      BY <1>1
    <3>2. offset[c] + n <= Len(new)
      BY <1>1
    <3> QED BY <1>1, <1>2, <3>1, <3>2 DEF Growing
  <2>2. ASSUME NEW d \in Client, d # c, Opened(d)', d \notin torn' PROVE Growing(d)'
    <3>1. Opened(d) /\ d \notin torn
      BY <1>1, <1>6, <2>2
    <3>2. Growing(d) /\ ino[d] # ino[c] /\ ino[d] \in Client
      BY <1>4, <2>2, <3>1 DEF DiskInv, DiskTypes, AllGrowing
    <3> QED BY <1>1, <1>2, <2>2, <3>2 DEF Growing
  <2> QED BY <2>1, <2>2 DEF AllGrowing
<1>9. Clean' => Clean
  BY <1>1, <1>2 DEF Clean
<1>10. StoredWhole' /\ (Exact => Exact')
  <2>1. \A d \in Uploads : FullName(d) # pid[c]
    BY <1>3, NotAPid DEF Uploads
  <2>2. \A d \in Uploads : FullName(d) \in DOMAIN dir' =>
           /\ FullName(d) \in DOMAIN dir /\ dir'[FullName(d)] = dir[FullName(d)]
           /\ content'[dir[FullName(d)]] = content[dir[FullName(d)]]
    BY <1>1, <1>2, <1>3, <2>1 DEF DiskInv, DiskTypes
  <2>3. StoredWhole
    BY DEF DiskInv
  <2> QED BY <2>2, <2>3, Published
<1>11. NothingLeftOver'
  <2> SUFFICES ASSUME Clean'
               PROVE  /\ \A p \in DOMAIN dir' \cap Pid : \E d \in Client : Opened(d)' /\ pid'[d] = p
                      /\ \A d \in Client : Opened(d)' /\ d \notin torn' =>
                                             Len(content'[ino'[d]]) = offset'[d]
    BY DEF NothingLeftOver
  <2>1. /\ \A p \in DOMAIN dir \cap Pid : \E d \in Client : Opened(d) /\ pid[d] = p
        /\ \A d \in Client : Opened(d) /\ d \notin torn => Len(content[ino[d]]) = offset[d]
    BY <1>9 DEF DiskInv, NothingLeftOver
  <2>2. Len(content'[ino'[c]]) = offset'[c]
    <3>1. Len(content[ino[c]]) = offset[c]
      BY <1>1, <2>1 DEF Opened
    <3>2. Len(new) = offset[c] + n
      BY <1>1, <3>1
    <3> QED BY <1>1, <1>2, <3>2
  <2>3. \A d \in Client : d # c /\ Opened(d) => content'[ino'[d]] = content[ino[d]]
    BY <1>1, <1>2, <1>4 DEF DiskInv, DiskTypes
  <2>4. torn \subseteq torn'
    BY <1>1
  <2> QED BY <1>1, <1>2, <1>6, <2>1, <2>2, <2>3, <2>4
<1>12. ExactUnlessLeftOver'
  BY <1>9, <1>10, ExactWhenClean DEF DiskInv, Exact, Clean, ExactUnlessLeftOver
<1> QED BY <1>5, <1>7, <1>8, <1>10, <1>11, <1>12 DEF DiskInv

(* What a rename finds: the whole file, and a name that is the client's    *)
(* own as far as it came.                                                  *)
LEMMA NameTaken ==
  ASSUME FlowInv, DiskInv, NEW c \in Client, Store(c)
  PROVE  /\ pc[c] = "store" /\ pc' = [pc EXCEPT ![c] = "ended"] /\ c \notin torn
         /\ UNCHANGED <<at, pid, ino, offset, content>>
         /\ data'[c] \in [1 .. 2 -> Piece] /\ data'[c][1] = FullName(c)[1]
         /\ IF data'[c][1] = Zero THEN UNCHANGED dir ELSE dir' = Renamed(pid[c], data'[c])
         /\ \/ torn' = torn /\ data'[c] = FullName(c)
            \/ torn' = torn \cup {c}
         /\ offset[c] = Length[c] /\ Length[c] \in Nat /\ Begins(c, ino[c])
         /\ content[ino[c]] \in Seq(Piece)
<1> DEFINE t == toServer[c]
<1>1. FlowTypes /\ FlowOf(c)
  BY DEF FlowInv
<1>2. /\ pc[c] = "store" /\ Receive(c, header[c][4]) /\ pc' = [pc EXCEPT ![c] = "ended"]
      /\ IF data'[c][1] = Zero THEN UNCHANGED dir ELSE dir' = Renamed(pid[c], data'[c])
      /\ UNCHANGED <<at, pid, ino, offset, content>>
  BY DEF Store, Goto, clientVars, parentVars
<1>3. /\ c \notin torn /\ header[c][4] = 2 /\ offset[c] = Length[c]
      /\ t \in Seq(Unit) /\ Len(t) = 2
      /\ \A i \in 1 .. 2 : t[i] = <<"piece", FullName(c)[i]>>
  BY <1>1, <1>2, NameInHand
<1>4. \A i \in 1 .. 2 : t[i][2] = FullName(c)[i] /\ t[i][2] \in Piece
  BY <1>3, PieceFacts
<1>5. PICK k \in 1 .. 2 :
        /\ data' \in [Client -> [1 .. Block -> Piece]]
        /\ \A i \in 1 .. k : data'[c][i] = t[i][2]
        /\ torn' = IF k < 2 THEN torn \cup {c} ELSE torn
  <2>1. \A i \in 1 .. 2 : toServer[c][i][2] \in Piece
    BY <1>4
  <2> QED BY <1>1, <1>2, <1>3, <2>1, Received
<1>6. data'[c] \in [1 .. 2 -> Piece] /\ data'[c][1] = FullName(c)[1]
  BY <1>4, <1>5 DEF Block
<1>7. \/ torn' = torn /\ data'[c] = FullName(c)
      \/ torn' = torn \cup {c}
  <2>1. CASE k = 2
    <3>1. data'[c][1] = FullName(c)[1] /\ data'[c][2] = FullName(c)[2]
      BY <1>4, <1>5, <2>1
    <3>2. FullName(c) \in [1 .. 2 -> Piece]
      BY PieceFacts
    <3>3. data'[c] = FullName(c)
      BY <1>6, <3>1, <3>2
    <3> QED BY <1>5, <2>1, <3>3
  <2>2. CASE k = 1
    BY <1>5, <2>2
  <2> QED BY <2>1, <2>2
<1>8. Begins(c, ino[c]) /\ content[ino[c]] \in Seq(Piece) /\ Length[c] \in Nat
  <2> DEFINE old == content[ino[c]]
             F == File(c)
             l == Length[c]
  <2>1. Growing(c) /\ old \in Seq(Piece)
    BY <1>2, <1>3 DEF DiskInv, DiskTypes, AllGrowing, Opened
  <2>2. l \in Nat /\ F \in Seq(Piece) /\ Len(F) = l
    BY PieceFacts
  <2>3. l <= Len(old) /\ \A i \in 1 .. l : old[i] = F[i]
    BY <1>3, <2>1 DEF Growing
  <2>4. SubSeq(old, 1, l) = F
    <3> HIDE DEF old, F, l
    <3> QED BY <2>1, <2>2, <2>3
  <2> QED BY <2>1, <2>2, <2>3, <2>4 DEF Begins
<1> QED BY <1>2, <1>3, <1>6, <1>7, <1>8

LEMMA StoreDisk ==
  ASSUME FlowInv, DiskInv, NEW c \in Client, Store(c)
  PROVE  DiskInv'
<1> DEFINE p == pid[c]
           w == data'[c]
<1>1. /\ pc[c] = "store" /\ pc' = [pc EXCEPT ![c] = "ended"] /\ c \notin torn
      /\ UNCHANGED <<at, pid, ino, offset, content>>
      /\ w \in [1 .. 2 -> Piece] /\ w[1] = FullName(c)[1]
      /\ IF w[1] = Zero THEN UNCHANGED dir ELSE dir' = Renamed(p, w)
      /\ \/ torn' = torn /\ w = FullName(c)
         \/ torn' = torn \cup {c}
      /\ offset[c] = Length[c] /\ Length[c] \in Nat /\ Begins(c, ino[c])
      /\ content[ino[c]] \in Seq(Piece)
  BY NameTaken
<1> HIDE DEF w
<1>2. /\ pc'[c] = "ended" /\ torn \subseteq torn'
      /\ \A d \in Client : d # c => pc'[d] = pc[d]
  BY <1>1 DEF FlowInv, FlowTypes
<1>3. w[1] = IF c \in Multi THEN Zero ELSE <<Name[c], 1>>
  BY <1>1 DEF FullName, Block
<1>4. c \in Multi <=> w[1] = Zero
  BY <1>3 DEF Zero
<1>5. CASE c \in Multi
  <2>1. UNCHANGED dir
    BY <1>1, <1>4, <1>5
  <2> QED BY <1>1, <1>2, <1>5, <2>1, Steady
<1>6. CASE c \notin Multi
  <2>1. dir' = Renamed(p, w) /\ w[1] = <<Name[c], 1>>
    BY <1>1, <1>3, <1>4, <1>6
  <2>2. p \in DOMAIN dir /\ dir[p] = ino[c] /\ p \in Pid /\ w \notin Pid /\ ino[c] \in Client
    BY <1>1, NotAPid DEF FlowInv, FlowTypes, DiskInv, DiskTypes, Separate, Opened
  <2>3. /\ DOMAIN dir' = (DOMAIN dir \ {p}) \cup {w} /\ w # p
        /\ dir'[w] = ino[c]
        /\ \A n \in DOMAIN dir : n # p /\ n # w => dir'[n] = dir[n]
    BY <2>1, <2>2 DEF Renamed
  <2>4. \A d \in Client : (Opened(d)' <=> Opened(d) /\ d # c) /\ (Alive(d)' <=> Alive(d))
    BY <1>1, <1>2 DEF Opened, Alive
  <2>5. \A d \in Client : d # c /\ Alive(d) => pid[d] # p
    BY <1>1 DEF DiskInv, Separate, Alive
  <2>6. DiskTypes'
    BY <1>1, <2>2, <2>3 DEF DiskInv, DiskTypes
  <2>7. Separate'
    <3>1. \A d, e \in Client : (Alive(d) /\ Alive(e) /\ pid[d] = pid[e] => d = e)'
      BY <1>1, <2>4 DEF DiskInv, Separate
    <3>2. \A d \in Client : (Opened(d) => pid[d] \in DOMAIN dir /\ dir[pid[d]] = ino[d])'
      <4> SUFFICES ASSUME NEW d \in Client, Opened(d)'
                   PROVE  pid[d] \in DOMAIN dir' /\ dir'[pid[d]] = ino[d]
        BY <1>1
      <4>1. Opened(d) /\ d # c
        BY <2>4
      <4>2. pid[d] \in DOMAIN dir /\ dir[pid[d]] = ino[d] /\ pid[d] # p
        BY <2>5, <4>1 DEF DiskInv, Separate, Opened, Alive
      <4>3. pid[d] # w
        BY <2>2 DEF FlowInv, FlowTypes
      <4> QED BY <2>3, <4>2, <4>3
    <3>3. \A n1, n2 \in DOMAIN dir' : dir'[n1] = dir'[n2] => n1 = n2
      <4>1. \A n1, n2 \in DOMAIN dir : dir[n1] = dir[n2] => n1 = n2
        BY DEF DiskInv, Separate
      <4> QED BY <2>2, <2>3, <4>1
    <3>4. \A n \in DOMAIN dir' : pc'[dir'[n]] \notin {"none", "hello"}
      <4>1. \A n \in DOMAIN dir : dir[n] \in Client /\ pc[dir[n]] \notin {"none", "hello"}
        BY DEF DiskInv, DiskTypes, Separate
      <4>2. \A f \in Client : pc[f] \notin {"none", "hello"} => pc'[f] \notin {"none", "hello"}
        BY <1>1, <1>2
      <4> QED BY <2>2, <2>3, <4>1, <4>2
    <3>5. \A d \in Client : pc'[d] \in {"none", "hello"} => ino'[d] = d /\ content'[d] = <<>>
      BY <1>1, <1>2 DEF DiskInv, Separate
    <3> QED BY <3>1, <3>2, <3>3, <3>4, <3>5 DEF Separate
  <2>8. AllGrowing'
    BY <1>1, <1>2, <2>4 DEF DiskInv, AllGrowing, Growing
  <2>9. Clean' => Clean /\ torn' = torn
    BY <1>1, <1>2 DEF Clean
  <2>10. \A e \in Uploads : FullName(e) = w => Name[c] = Name[e]
    BY <2>1 DEF FullName, Uploads, Block
  <2>11. \A e \in Uploads : FullName(e) # w /\ FullName(e) \in DOMAIN dir' =>
           FullName(e) \in DOMAIN dir /\ dir'[FullName(e)] = dir[FullName(e)]
    BY <2>3
  <2>12. c \in Uploads
    BY <1>6 DEF Uploads
  <2>13. StoredWhole'
    <3> SUFFICES ASSUME NEW e \in Uploads, FullName(e) \in DOMAIN dir'
                 PROVE  \E d \in Uploads : Name[d] = Name[e] /\ Begins(d, dir[FullName(e)])'
      BY DEF StoredWhole
    <3>1. CASE FullName(e) = w
      <4>1. Begins(c, dir[FullName(e)])'
        BY <1>1, <2>3, <3>1 DEF Begins
      <4> QED BY <2>10, <2>12, <3>1, <4>1
    <3>2. CASE FullName(e) # w
      <4>1. PICK d \in Uploads : Name[d] = Name[e] /\ Begins(d, dir[FullName(e)])
        BY <2>11, <3>2 DEF DiskInv, StoredWhole
      <4>2. Begins(d, dir[FullName(e)])'
        BY <1>1, <2>11, <3>2, <4>1 DEF Begins
      <4> QED BY <4>1, <4>2
    <3> QED BY <3>1, <3>2
  <2>14. NothingLeftOver'
    <3> SUFFICES ASSUME Clean'
                 PROVE  /\ \A q \in DOMAIN dir' \cap Pid : \E d \in Client : Opened(d)' /\ pid'[d] = q
                        /\ \A d \in Client : Opened(d)' /\ d \notin torn' =>
                                               Len(content'[ino'[d]]) = offset'[d]
      BY DEF NothingLeftOver
    <3>1. /\ \A q \in DOMAIN dir \cap Pid : \E d \in Client : Opened(d) /\ pid[d] = q
          /\ \A d \in Client : Opened(d) /\ d \notin torn => Len(content[ino[d]]) = offset[d]
      BY <2>9 DEF DiskInv, NothingLeftOver
    <3>2. ASSUME NEW q \in DOMAIN dir' \cap Pid PROVE \E d \in Client : Opened(d)' /\ pid'[d] = q
      <4>1. q \in DOMAIN dir \cap Pid /\ q # p
        BY <2>2, <2>3
      <4>2. PICK d \in Client : Opened(d) /\ pid[d] = q
        BY <3>1, <4>1
      <4> QED BY <1>1, <2>4, <4>1, <4>2
    <3> QED BY <1>1, <2>4, <2>9, <3>1, <3>2
  <2>15. Clean' => Exact'
    <3> SUFFICES ASSUME Clean', NEW e \in Uploads, FullName(e) \in DOMAIN dir'
                 PROVE  \E d \in Uploads :
                          Name[d] = Name[e] /\ content'[dir'[FullName(e)]] = File(d)
      BY DEF Exact
    <3>0. Exact /\ NothingLeftOver
      BY <2>9, ExactWhenClean DEF DiskInv
    <3>1. CASE FullName(e) = w
      <4>1. Len(content[ino[c]]) = Length[c]
        BY <1>1, <2>9, <3>0 DEF NothingLeftOver, Opened
      <4>2. SubSeq(content[ino[c]], 1, Length[c]) = content[ino[c]]
        <5> DEFINE old == content[ino[c]]
                   l == Length[c]
        <5>1. old \in Seq(Piece) /\ Len(old) = l
          BY <1>1, <4>1
        <5> HIDE DEF old, l
        <5>2. SubSeq(old, 1, l) = old
          BY <5>1, SubSeqFull
        <5> QED BY <5>2 DEF old, l
      <4>3. content'[dir'[FullName(e)]] = File(c)
        BY <1>1, <2>3, <3>1, <4>2 DEF Begins
      <4> QED BY <2>10, <2>12, <3>1, <4>3
    <3>2. CASE FullName(e) # w
      <4>1. PICK d \in Uploads : Name[d] = Name[e] /\ content[dir[FullName(e)]] = File(d)
        BY <2>11, <3>0, <3>2 DEF Exact
      <4> QED BY <1>1, <2>11, <3>2, <4>1
    <3> QED BY <3>1, <3>2
  <2>16. ExactUnlessLeftOver'
    BY <2>15 DEF Exact, Clean, ExactUnlessLeftOver
  <2> QED BY <2>6, <2>7, <2>8, <2>13, <2>14, <2>16 DEF DiskInv
<1> QED BY <1>5, <1>6

LEMMA DiskNext == FlowInv /\ DiskInv /\ [Next]_vars => DiskInv'
<1> SUFFICES ASSUME FlowInv, DiskInv, [Next]_vars PROVE DiskInv'
  OBVIOUS
<1>1. ASSUME NEW c \in Client, ClientSteps(c) \/ Leave(c) \/ Fork(c) \/ ChildSteps(c)
      PROVE  DiskInv'
  BY <1>1, SteadyDisk, ForkDisk, BeginDisk, ReadPayloadDisk, StoreDisk DEF ChildSteps
<1>2. CASE Fails
  <2>1. UNCHANGED <<pid, ino, offset, dir, content, torn, pc, at>>
    BY <1>2 DEF Fails, clientVars, diskVars
  <2> QED BY <2>1, Steady
<1>3. CASE Reap
  <2>1. /\ UNCHANGED <<pid, ino, offset, dir, content, torn, at>>
        /\ \A c \in Client : pc'[c] = pc[c] \/ (pc[c] = "ended" /\ pc'[c] = "gone")
    BY <1>3 DEF Reap, clientVars, diskVars
  <2> QED BY <2>1, Steady
<1>4. CASE UNCHANGED vars
  <2>1. UNCHANGED <<pid, ino, offset, dir, content, torn, pc, at>>
    BY <1>4 DEF vars, clientVars, serverVars, diskVars
  <2> QED BY <2>1, Steady
<1> QED BY <1>1, <1>2, <1>3, <1>4 DEF Next

-----------------------------------------------------------------------------
(* The invariant that carries everything below. *)
LEMMA Invariant == Spec => [](FlowInv /\ DiskInv)
<1>1. Init => FlowInv /\ DiskInv
  BY FlowInit, DiskInit
<1>2. FlowInv /\ DiskInv /\ [Next]_vars => (FlowInv /\ DiskInv)'
  BY FlowNext, DiskNext
<1> QED BY <1>1, <1>2, PTL DEF Spec

(* Every variable has its type in every reachable state (server.c,         *)
(* client.c).                                                              *)
THEOREM TransferTypes == Spec => []TypeOK
<1>1. FlowInv /\ DiskInv => TypeOK
  BY DEF FlowInv, FlowTypes, DiskInv, DiskTypes, TypeOK
<1> QED BY <1>1, Invariant, PTL

(* What stands under a name a client asked for begins with the whole file  *)
(* of a client that asked for it (server.c:97-163).                        *)
THEOREM Stored == Spec => []StoredWhole
<1>1. FlowInv /\ DiskInv => StoredWhole
  BY DEF DiskInv
<1> QED BY <1>1, Invariant, PTL

(* It is exactly that file, unless some connection ended without its file  *)
(* being renamed (server.c:97-163).                                        *)
THEOREM StoredExactly == Spec => []ExactUnlessLeftOver
<1>1. FlowInv /\ DiskInv => ExactUnlessLeftOver
  BY DEF DiskInv
<1> QED BY <1>1, Invariant, PTL

LEMMA StepKeepsPublished ==
  ASSUME FlowInv, DiskInv, Next
  PROVE  \A c \in Uploads : FullName(c) \in DOMAIN dir =>
           /\ FullName(c) \in DOMAIN dir'
           /\ content'[dir[FullName(c)]] = content[dir[FullName(c)]]
<1> DEFINE Keeps == \A c \in Uploads : FullName(c) \in DOMAIN dir =>
                      /\ FullName(c) \in DOMAIN dir'
                      /\ content'[dir[FullName(c)]] = content[dir[FullName(c)]]
<1>1. UNCHANGED <<dir, content>> => Keeps
  OBVIOUS
<1>2. ASSUME NEW c \in Client, ClientSteps(c) \/ Leave(c) \/ Fork(c) \/ ReadHeader(c)
                                 \/ TornHeader(c) \/ Stop(c)
      PROVE  UNCHANGED <<dir, content>>
  BY <1>2 DEF ClientSteps, Upload, SendLine, Greet, Connect, ServerHello, NoServerHello,
              SendBlock, SendName, Leave, Fork, ReadHeader, TornHeader, Stop,
              serverVars, diskVars
<1>3. Fails \/ Reap => UNCHANGED <<dir, content>>
  BY DEF Fails, Reap, diskVars
<1>4. ASSUME NEW c \in Client, Begin(c) PROVE Keeps
  BY <1>4 DEF Begin
<1>5. ASSUME NEW c \in Client, ReadPayload(c) PROVE Keeps
  <2>1. /\ pc[c] = "payload" /\ UNCHANGED dir
        /\ \A f \in Client : f # ino[c] => content'[f] = content[f]
    <3>1. /\ pc[c] = "payload" /\ UNCHANGED dir
          /\ \E new \in Seq(Piece) : content' = [content EXCEPT ![ino[c]] = new]
      BY <1>5, PayloadWritten
    <3> QED BY <3>1 DEF DiskInv, DiskTypes
  <2>2. pid[c] \in DOMAIN dir /\ dir[pid[c]] = ino[c] /\ pid[c] \in Pid
    BY <2>1 DEF FlowInv, FlowTypes, DiskInv, Separate, Opened
  <2>3. \A d \in Uploads : FullName(d) \in DOMAIN dir => dir[FullName(d)] # ino[c]
    <3>1. \A d \in Uploads : FullName(d) # pid[c]
      BY <2>2, NotAPid DEF Uploads
    <3> QED BY <2>2, <3>1 DEF DiskInv, Separate
  <2> QED BY <2>1, <2>3 DEF DiskInv, DiskTypes
<1>6. ASSUME NEW c \in Client, Store(c) PROVE Keeps
  <2>1. /\ UNCHANGED content /\ pid[c] \in Pid
        /\ UNCHANGED dir \/ dir' = Renamed(pid[c], data'[c])
    BY <1>6, NameTaken DEF FlowInv, FlowTypes
  <2>2. \A d \in Uploads : FullName(d) # pid[c]
    BY <2>1, NotAPid DEF Uploads
  <2> QED BY <2>1, <2>2 DEF Renamed
<1> QED BY <1>1, <1>2, <1>3, <1>4, <1>5, <1>6 DEF Next, ChildSteps

(* A published file is never written again and disappears only when        *)
(* another upload takes its name (server.c:155-161).                       *)
THEOREM Final == Spec => PublishedFinal
<1>1. FlowInv /\ DiskInv /\ [Next]_vars =>
        [\A c \in Uploads : FullName(c) \in DOMAIN dir =>
           /\ FullName(c) \in DOMAIN dir'
           /\ content'[dir[FullName(c)]] = content[dir[FullName(c)]]]_vars
  BY StepKeepsPublished
<1> QED BY <1>1, Invariant, PTL DEF Spec, PublishedFinal
=============================================================================

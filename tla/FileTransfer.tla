---------------------------- MODULE FileTransfer ----------------------------
(***************************************************************************)
(* The upload server of assignment 1 and its two clients.                  *)
(*                                                                         *)
(* server.c forks a child for every connection it accepts.  The child      *)
(* writes what it receives into <its pid>.txt and renames that file when   *)
(* the name arrives.  Every message has a header with a sequence number    *)
(* that goes up by one; header and payload are read by one read() each,    *)
(* which may return less than was asked for.  client.c sends a file in     *)
(* blocks; client_multi.c sends one line, but prints it into an array it   *)
(* never sends: its payload is what the buffer held, its name is zeros.    *)
(*                                                                         *)
(* A connection carries units: a header, or a piece of payload.  A block   *)
(* is two pieces and so is a name; a read may stop between them.           *)
(***************************************************************************)
EXTENDS Integers, Sequences, FiniteSets

CONSTANTS
  Client, Multi,  \* all clients; those that run client_multi
  Length,         \* pieces in the file of each client
  Name,           \* the file name each client asks for
  Pid,            \* process ids; they are used again
  SeqMod,         \* 10000
  Start,          \* the sequence numbers a client may begin with
  MaxFd           \* connections the parent can hold

ASSUME FileTransferAssumption ==
  /\ Multi \subseteq Client
  /\ SeqMod \in Nat \ {0} /\ Start \subseteq 0 .. SeqMod - 1
  /\ \A c \in Multi : Length[c] = 1
  /\ MaxFd \in Nat

Block == 2
Junk == <<"junk", 0>>
Zero == <<"zero", 0>>
File(c) == [i \in 1 .. Length[c] |-> IF c \in Multi THEN Junk ELSE <<c, i>>]
FullName(c) == [i \in 1 .. Block |-> IF c \in Multi THEN Zero ELSE <<Name[c], i>>]
Piece == {Junk, Zero} \cup (Client \X Nat) \cup ({Name[c] : c \in Client} \X {1, 2})

(* There is a process to begin with, and no client asks for the name of a  *)
(* work file, which is a process id.                                       *)
ASSUME NamesAssumption ==
  /\ Length \in [Client -> Nat]
  /\ Pid # {}
  /\ \A p \in Pid : p \notin [1 .. Block -> Piece]

Header(cmd, seq, len) == <<"header", cmd, seq, len>>
Payload(pieces) == [i \in DOMAIN pieces |-> <<"piece", pieces[i]>>]

VARIABLES
  at, conn_seq, sent,   \* per client: where it stands, its number, pieces sent
  toServer, reply,      \* per connection: units under way, number in the hello
  up, accepted,         \* the parent runs; the connections it holds open
  pc, pid, seq,         \* per child
  header, data, ino, offset,
  dir, content,         \* inode of each file name; pieces of each inode
  torn                  \* connections on which a read came back short

clientVars == <<at, conn_seq, sent>>
network    == <<toServer, reply>>
parentVars == <<up, accepted>>
diskVars   == <<data, ino, offset, dir, content>>
serverVars == <<parentVars, pc, pid, seq, header, torn, diskVars>>
vars == <<clientVars, network, serverVars>>

Init ==
  /\ at = [c \in Client |-> "new"]
  /\ conn_seq \in [Client -> Start]
  /\ sent = [c \in Client |-> 0]
  /\ toServer = [c \in Client |-> <<>>] /\ reply = [c \in Client |-> -1]
  /\ up = TRUE /\ accepted = {}
  /\ pc = [c \in Client |-> "none"]
  /\ pid \in [Client -> {CHOOSE p \in Pid : TRUE}]
  /\ seq = [c \in Client |-> 0]
  /\ header = [c \in Client |-> Header(0, 0, 0)]
  /\ data = [c \in Client |-> <<Junk, Junk>>]
  /\ ino = [c \in Client |-> c] /\ offset = [c \in Client |-> 0]
  /\ dir = <<>> /\ content = [c \in Client |-> <<>>]
  /\ torn = {}

-----------------------------------------------------------------------------
(* The clients. *)

(* A connection the parent or a child still holds. *)
Running(c) == pc[c] \in {"hello", "header", "payload", "store"}

Send(c, units) == toServer' = [toServer EXCEPT ![c] = @ \o units]

ClientGo(c, label) == at' = [at EXCEPT ![c] = label]

Connect(c) ==
  /\ at[c] = "new" /\ up
  /\ Send(c, <<Header(1, conn_seq[c], 0)>>)
  /\ ClientGo(c, "greeting")
  /\ UNCHANGED <<conn_seq, sent, reply, serverVars>>

(* The number in the reply must be one more than the number sent. *)
ServerHello(c) ==
  /\ at[c] = "greeting" /\ reply[c] # -1
  /\ IF reply[c] = conn_seq[c] + 1
     THEN conn_seq' = [conn_seq EXCEPT ![c] = @ + 1] /\ ClientGo(c, "sending")
     ELSE ClientGo(c, "failed") /\ UNCHANGED conn_seq
  /\ UNCHANGED <<sent, network, serverVars>>

(* The server is gone: read() leaves the client's own hello in buf. *)
NoServerHello(c) ==
  /\ at[c] = "greeting" /\ reply[c] = -1
  /\ ~up /\ \A d \in Client : ~Running(d)
  /\ ClientGo(c, "failed")
  /\ UNCHANGED <<conn_seq, sent, network, serverVars>>

(* One block of the file, numbered modulo SeqMod. *)
SendBlock(c) ==
  LET n == IF Length[c] - sent[c] < Block THEN Length[c] - sent[c] ELSE Block IN
  /\ at[c] = "sending" /\ n > 0
  /\ Send(c, <<Header(3, (conn_seq[c] + 1) % SeqMod, n)>>
               \o Payload(SubSeq(File(c), sent[c] + 1, sent[c] + n)))
  /\ conn_seq' = [conn_seq EXCEPT ![c] = @ + 1]
  /\ sent' = [sent EXCEPT ![c] = @ + n]
  /\ UNCHANGED <<at, reply, serverVars>>

(* The whole file is sent: the name follows, and the end of the stream. *)
SendName(c) ==
  /\ at[c] = "sending" /\ sent[c] = Length[c]
  /\ Send(c, <<Header(4, (conn_seq[c] + 1) % SeqMod, Block)>> \o Payload(FullName(c)))
  /\ conn_seq' = [conn_seq EXCEPT ![c] = @ + 1]
  /\ ClientGo(c, "done")
  /\ UNCHANGED <<sent, reply, serverVars>>

(* The client is stopped, or its file cannot be opened. *)
Leave(c) ==
  /\ at[c] \in {"greeting", "sending"}
  /\ ClientGo(c, "left")
  /\ UNCHANGED <<conn_seq, sent, network, serverVars>>

Greet(c) == Connect(c) \/ ServerHello(c) \/ NoServerHello(c)

(* client.c. *)
Upload(c) == c \notin Multi /\ (Greet(c) \/ SendBlock(c) \/ SendName(c))

(* One process of client_multi.c: the same messages, one block. *)
SendLine(c) == c \in Multi /\ (Greet(c) \/ SendBlock(c) \/ SendName(c))

ClientSteps(c) == Upload(c) \/ SendLine(c)

-----------------------------------------------------------------------------
(* The parent. *)

(* Mutant: a process id is given again while the last message is read. *)
FreePidsEarly == {p \in Pid : \A c \in Client : pc[c] \in {"hello", "header"} => pid[c] # p}

(* A process id is free once the process has been waited for. *)
FreePids == {p \in Pid : \A c \in Client : pc[c] \notin {"none", "gone"} => pid[c] # p}

Waiting(c) == at[c] # "new" /\ c \notin accepted

(* Accept and fork; the parent never closes its copy of the socket. *)
Fork(c) ==
  /\ up /\ Waiting(c)
  /\ Cardinality(accepted) < MaxFd
  /\ \E p \in FreePids : pid' = [pid EXCEPT ![c] = p]
  /\ accepted' = accepted \cup {c}
  /\ pc' = [pc EXCEPT ![c] = "hello"]
  /\ UNCHANGED <<clientVars, network, up, seq, header, torn, diskVars>>

(* accept() fails without a descriptor, or with whatever clientlen held    *)
(* the first time; fork() fails without a process.  main() returns.        *)
Fails ==
  /\ up /\ \E c \in Client : Waiting(c)
  /\ accepted = {} \/ Cardinality(accepted) = MaxFd \/ FreePids = {}
  /\ up' = FALSE
  /\ UNCHANGED <<clientVars, network, accepted, pc, pid, seq, header, torn, diskVars>>

(* childhandler: every child that has ended is waited for. *)
Reap ==
  /\ up
  /\ \E c \in Client : pc[c] = "ended"
  /\ pc' = [c \in Client |-> IF pc[c] = "ended" THEN "gone" ELSE pc[c]]
  /\ UNCHANGED <<clientVars, network, parentVars, pid, seq, header, torn, diskVars>>
-----------------------------------------------------------------------------
(* The child of connection c. *)

Goto(c, label) == pc' = [pc EXCEPT ![c] = label]

AtEnd(c) == toServer[c] = <<>> /\ at[c] \in {"done", "left"}

(* read() of a payload of n pieces: any part of it, from the front; nothing *)
(* at the end of the stream.                                                *)
Reads(c, n) == IF AtEnd(c) THEN {0} ELSE {k \in 1 .. n : k <= Len(toServer[c])}

(* Mutant: the number of the reply is reduced. *)
NextSeqReduced(n) == (n + 1) % SeqMod

NextSeq(n) == n + 1

(* The hello is answered and the work file opened: O_CREAT without         *)
(* O_TRUNC, so a file an earlier child left under the same pid is written  *)
(* over from its beginning.                                                *)
Begin(c) ==
  /\ pc[c] = "hello" /\ toServer[c] # <<>>
  /\ toServer' = [toServer EXCEPT ![c] = Tail(@)]
  /\ reply' = [reply EXCEPT ![c] = NextSeq(toServer[c][1][3])]
  /\ seq' = [seq EXCEPT ![c] = NextSeq(toServer[c][1][3])]
  /\ IF pid[c] \in DOMAIN dir
     THEN ino' = [ino EXCEPT ![c] = dir[pid[c]]] /\ UNCHANGED dir
     ELSE dir' = [n \in DOMAIN dir \cup {pid[c]} |-> IF n = pid[c] THEN c ELSE dir[n]]
          /\ UNCHANGED ino
  /\ Goto(c, "header")
  /\ UNCHANGED <<clientVars, parentVars, pid, header, data, offset, content, torn>>

(* Fewer than eight bytes of a header.  A child that took them for a hello *)
(* returns; its client waits on, the connection being open in the parent.  *)
TornHeader(c) ==
  /\ pc[c] \in {"hello", "header"} /\ toServer[c] # <<>>
  /\ torn' = torn \cup {c}
  /\ Goto(c, "ended")
  /\ UNCHANGED <<clientVars, network, parentVars, pid, seq, header, diskVars>>

InSequence(c, h) == h[1] = "header" /\ (seq[c] + 1) % SeqMod = h[3]

(* A header in sequence: a block or the name follows. *)
ReadHeader(c) ==
  /\ pc[c] = "header" /\ toServer[c] # <<>>
  /\ LET h == toServer[c][1] IN
       /\ InSequence(c, h)
       /\ header' = [header EXCEPT ![c] = h]
       /\ Goto(c, IF h[2] = 4 THEN "store" ELSE "payload")
  /\ toServer' = [toServer EXCEPT ![c] = Tail(@)]
  /\ seq' = [seq EXCEPT ![c] = @ + 1]
  /\ UNCHANGED <<clientVars, reply, parentVars, pid, torn, diskVars>>

(* Out of sequence, as what is left of a block is when it is read as a     *)
(* header; or the end of the stream: the child ends, its file stays.       *)
Stop(c) ==
  /\ pc[c] = "header"
  /\ AtEnd(c) \/ (toServer[c] # <<>> /\ ~InSequence(c, toServer[c][1]))
  /\ Goto(c, "ended")
  /\ UNCHANGED <<clientVars, network, parentVars, pid, seq, header, torn, diskVars>>

(* One read of n pieces into data; behind what came, data is what it was.  *)
Receive(c, n) ==
  \E k \in Reads(c, n) :
    /\ data' = [data EXCEPT ![c] = [i \in 1 .. Block |->
                                      IF i <= k THEN toServer[c][i][2] ELSE @[i]]]
    /\ toServer' = [toServer EXCEPT ![c] = SubSeq(@, k + 1, Len(@))]
    /\ torn' = IF k < n THEN torn \cup {c} ELSE torn

(* Mutant: the file is opened with O_APPEND. *)
OverwrittenAtEnd(old, from, pieces) == old \o pieces

(* The file after a write at an offset. *)
Overwritten(old, from, pieces) ==
  [i \in 1 .. (IF Len(old) > from + Len(pieces) THEN Len(old) ELSE from + Len(pieces)) |->
     IF i > from /\ i <= from + Len(pieces) THEN pieces[i - from] ELSE old[i]]

(* Mutant: the whole of data is written. *)
WrittenBuffer(buffer, n) == buffer

(* What write() is given: n pieces of data, whatever the read returned. *)
Written(buffer, n) == SubSeq(buffer, 1, n)

(* The payload is read once and written at its full length. *)
ReadPayload(c) ==
  LET n == header[c][4] IN
  /\ pc[c] = "payload"
  /\ Receive(c, n)
  /\ content' = [content EXCEPT ![ino[c]] =
                   Overwritten(@, offset[c], Written(data'[c], n))]
  /\ offset' = [offset EXCEPT ![c] = @ + Len(Written(data'[c], n))]
  /\ Goto(c, "header")
  /\ UNCHANGED <<clientVars, reply, parentVars, pid, seq, header, ino, dir>>

Renamed(from, to) ==
  [n \in (DOMAIN dir \ {from}) \cup {to} |-> IF n = to THEN dir[from] ELSE dir[n]]

(* The name is read once and the work file renamed; rename() to the empty  *)
(* name fails.                                                             *)
Store(c) ==
  /\ pc[c] = "store"
  /\ Receive(c, header[c][4])
  /\ IF data'[c][1] = Zero THEN UNCHANGED dir ELSE dir' = Renamed(pid[c], data'[c])
  /\ Goto(c, "ended")
  /\ UNCHANGED <<clientVars, reply, parentVars, pid, seq, header, ino, offset, content>>

ChildSteps(c) ==
  \/ Begin(c) \/ ReadHeader(c) \/ TornHeader(c) \/ Stop(c)
  \/ ReadPayload(c) \/ Store(c)

-----------------------------------------------------------------------------
Next ==
  \/ \E c \in Client : ClientSteps(c) \/ Leave(c) \/ Fork(c) \/ ChildSteps(c)
  \/ Fails
  \/ Reap

Spec == Init /\ [][Next]_vars

(* The operating system runs every process and delivers what was sent. *)
Fairness ==
  /\ \A c \in Client : WF_vars(ClientSteps(c)) /\ WF_vars(ChildSteps(c))
  /\ WF_vars(\E c \in Client : Fork(c)) /\ WF_vars(Reap)

FairSpec == Spec /\ Fairness

-----------------------------------------------------------------------------
TypeOK ==
  /\ at \in [Client -> {"new", "greeting", "sending", "done", "failed", "left"}]
  /\ pc \in [Client -> {"none", "hello", "header", "payload", "store", "ended", "gone"}]
  /\ pid \in [Client -> Pid]
  /\ data \in [Client -> [1 .. Block -> Piece]]
  /\ ino \in [Client -> Client]
  /\ \A n \in DOMAIN dir : dir[n] \in Client
  /\ \A c \in Client : \A i \in DOMAIN content[c] : content[c][i] \in Piece
  /\ \A c \in Client : sent[c] <= Length[c] /\ offset[c] <= Length[c]
  /\ accepted \subseteq Client /\ torn \subseteq Client /\ up \in BOOLEAN

Uploads == Client \ Multi
Begins(c, f) ==
  /\ Len(content[f]) >= Length[c]
  /\ SubSeq(content[f], 1, Length[c]) = File(c)

(* What stands under a name a client asked for begins with the whole file  *)
(* of a client that asked for it: no block is missing, doubled, mixed with *)
(* another upload or cut by a short read, whoever uploads at the same time *)
(* and whatever an earlier process with the same pid left behind           *)
(* (server.c:97-163; test/simple.sh:26 compares the two files).            *)
StoredWhole ==
  \A c \in Uploads : FullName(c) \in DOMAIN dir =>
    \E d \in Uploads : Name[d] = Name[c] /\ Begins(d, dir[FullName(c)])

(* It is that file and no more, unless some connection ended without its   *)
(* file being renamed, so that a later child with that pid wrote into it.  *)
ExactUnlessLeftOver ==
  (\A c \in Client : pc[c] \in {"ended", "gone"} =>
       at[c] # "left" /\ c \notin torn /\ c \notin Multi)
  => \A c \in Uploads : FullName(c) \in DOMAIN dir =>
       \E d \in Uploads : Name[d] = Name[c] /\ content[dir[FullName(c)]] = File(d)

(* A published file is never written again and disappears only when        *)
(* another upload takes its name (server.c:155-161).                       *)
PublishedFinal ==
  [][\A c \in Uploads : FullName(c) \in DOMAIN dir =>
       /\ FullName(c) \in DOMAIN dir'
       /\ content'[dir[FullName(c)]] = content[dir[FullName(c)]]]_vars

(* As long as the parent runs, an upload whose client stays and whose      *)
(* messages are read whole is stored: the two ends agree on every sequence *)
(* number, also where it wraps, and no other client can stop it            *)
(* (server.c:89,125; client.c:80,106,126).                                 *)
UploadStored ==
  \A c \in Uploads :
    at[c] = "greeting" ~>
      \/ FullName(c) \in DOMAIN dir
      \/ c \in torn \/ at[c] = "left" \/ ~up
=============================================================================

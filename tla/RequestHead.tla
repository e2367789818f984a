---------------------------- MODULE RequestHead -----------------------------
(***************************************************************************)
(* How the head of an HTTP request is read, in assignment 2                *)
(* (http_parse.c) and in the event-driven server of assignment 3 (a32).    *)
(*                                                                         *)
(* A head is a sequence of lines.  The first is the sequence of its words; *)
(* the others are a name and a value, or a text without ": ".  What a      *)
(* reader finds is a record; what to do with it is the verdict, the same   *)
(* kind of record for both servers.                                        *)
(***************************************************************************)
EXTENDS Integers, Sequences, FiniteSetsExt

Versions == {"HTTP/1.0", "HTTP/1.1"}
LengthNames == {"Content-Length", "Content-length"}
TypeNames == {"Content-Type", "Content-type"}
Form == "application/x-www-form-urlencoded"

Refused == [does |-> "404", length |-> 0, encode |-> FALSE, target |-> ""]
Crashed == [Refused EXCEPT !.does = "crash"]
Gets(target) == [Refused EXCEPT !.does = "get", !.target = target]
Posts(length, encode) == [Refused EXCEPT !.does = "post", !.length = length, !.encode = encode]

(* http_parse_first_line: a method, a target and a version; further words  *)
(* count as part of the version.                                           *)
FirstLine(words) == Len(words) = 3 /\ words[3] \in Versions

(* http_parse_header_line finds no ": " and copies from a null pointer.    *)
HeaderLine(line) == Len(line) = 2

-----------------------------------------------------------------------------
(* http_read_request and what the server does with its result. *)

NothingRead == [host |-> FALSE, lengthGiven |-> FALSE, length |-> 0, encode |-> FALSE,
                crashed |-> FALSE]

(* One line of the head after the first. *)
TakeLine(h, line) ==
  IF h.crashed \/ ~HeaderLine(line) THEN [h EXCEPT !.crashed = TRUE]
  ELSE CASE line[1] = "Host" -> [h EXCEPT !.host = TRUE]
         [] line[1] \in LengthNames -> [h EXCEPT !.lengthGiven = TRUE, !.length = line[2]]
         [] line[1] \in TypeNames -> [h EXCEPT !.encode = @ \/ line[2] = Form]
         [] OTHER -> h

(* The rest of the head, read into what is known before it. *)
Lines(head, before) ==
  LET read[n \in 0 .. Len(head) - 1] ==
        IF n = 0 THEN before ELSE TakeLine(read[n - 1], head[n + 1])
  IN  read[Len(head) - 1]

(* The end of http_read_request, and the dispatch on the method.           *)
Judged(words, h) ==
  IF h.crashed THEN Crashed
  ELSE IF ~h.host THEN Refused
  ELSE CASE words[1] = "POST" /\ h.lengthGiven /\ h.length # 0 -> Posts(h.length, h.encode)
         [] words[1] = "GET" -> Gets(words[2])
         [] OTHER -> Refused

BlockingHead(head) ==
  IF head = <<>> \/ ~FirstLine(head[1]) THEN Refused
  ELSE Judged(head[1], Lines(head, NothingRead))

-----------------------------------------------------------------------------
(* The beginning of read_cb.  The length goes into p_info at once and is   *)
(* there still when the thread has its next request.                       *)

(* Mutant: only the length is looked at. *)
NoContentButLength(h) == h.length = 0

NoContent(h) == ~h.lengthGiven \/ h.length = 0

EventHead(head, length) ==
  LET h == Lines(head, [NothingRead EXCEPT !.length = length])
      verdict == IF h.crashed THEN Crashed
                 ELSE IF ~h.host THEN Refused
                 ELSE CASE head[1][1] = "POST" /\ ~NoContent(h) -> Posts(h.length, FALSE)
                        [] head[1][1] = "GET" -> Gets(head[1][2])
                        [] OTHER -> Refused
  IN  IF head = <<>> \/ ~FirstLine(head[1]) THEN [verdict |-> Refused, length |-> length]
      ELSE [verdict |-> verdict, length |-> h.length]

-----------------------------------------------------------------------------
(* What a head means, told by the places of its lines.                     *)

Places(head, names) ==
  {i \in 2 .. Len(head) : HeaderLine(head[i]) /\ head[i][1] \in names}

Meant(head) ==
  LET broken == \E i \in 2 .. Len(head) : ~HeaderLine(head[i])
      lengths == Places(head, LengthNames)
      length == IF lengths = {} THEN 0 ELSE head[Max(lengths)][2]
      encode == \E i \in Places(head, TypeNames) : head[i][2] = Form
  IN  IF head = <<>> \/ Len(head[1]) # 3 THEN Refused
      ELSE IF head[1][3] \notin Versions THEN Refused
      ELSE IF broken THEN Crashed
      ELSE IF Places(head, {"Host"}) = {} THEN Refused
      ELSE IF head[1][1] = "GET" THEN Gets(head[1][2])
      ELSE IF head[1][1] = "POST" /\ length # 0 THEN Posts(length, encode)
      ELSE Refused
=============================================================================

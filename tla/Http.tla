-------------------------------- MODULE Http --------------------------------
(***************************************************************************)
(* The HTTP request parser (kern/http.c), as operators.                    *)
(*                                                                         *)
(* A buffer is a function from positions to cells: "GET" and "VER" stand   *)
(* for the words HTTP_METHOD and HTTP_VER or HTTP_VER_COMPATIBLE, "sp" for *)
(* a blank or a newline and "0" for memory nobody wrote; out of its place  *)
(* a word is just other text.  strncmp(word_start, WORD, strlen(WORD))     *)
(* looks at the cell at word_start, wherever the data ends.                *)
(***************************************************************************)
EXTENDS Naturals, Sequences, SequencesExt

Text == {"GET", "VER", "sp"}

(* http_reply: the status line and whether a page follows.                  *)
http_reply(code) ==
  LET known == {200, 400, 404, 505, 520}
      c == IF code \in known THEN code ELSE 520
  IN [code |-> c, page |-> c = 200]

(* One round of the loop in http_parse: start is word_start, words the      *)
(* number of header fields set, code the reply already decided, 0 for none. *)
ScanLastWordLost(data, length, s, i) ==
  IF s.code # 0 \/ data[i] # "sp" THEN s
  ELSE CASE s.words = 0 /\ data[s.start] # "GET" -> [s EXCEPT !.code = 400]
         [] s.words = 2 -> [s EXCEPT !.code = IF data[s.start] = "VER" THEN 200 ELSE 505]
         [] OTHER -> [s EXCEPT !.words = @ + 1, !.start = i + 1]

Scan(data, length, s, i) ==
  IF s.code # 0 \/ ~(data[i] = "sp" \/ i = length) THEN s
  ELSE CASE s.words = 0 /\ data[s.start] # "GET" -> [s EXCEPT !.code = 400]
         [] s.words = 2 -> [s EXCEPT !.code = IF data[s.start] = "VER" THEN 200 ELSE 505]
         [] OTHER -> [s EXCEPT !.words = @ + 1, !.start = i + 1]

http_parse(data, length) ==
  LET end == FoldLeft(LAMBDA s, i : Scan(data, length, s, i),
                      [start |-> 0, words |-> 0, code |-> 0],
                      [k \in 1 .. length + 1 |-> k - 1])
  IN http_reply(IF end.code = 0 THEN 400 ELSE end.code)

-----------------------------------------------------------------------------
(* What a request says, independently of the scan: it is cut into words at  *)
(* every blank; a word may be empty.                                        *)
WordEnds(req) ==
  SetToSortSeq({i \in 1 .. Len(req) + 1 : i = Len(req) + 1 \/ req[i] = "sp"}, <)

WordBegins(req, k, text) ==
  LET start == IF k = 1 THEN 1 ELSE WordEnds(req)[k - 1] + 1
  IN start <= Len(req) /\ req[start] = text

RightCode(req) ==
  IF ~WordBegins(req, 1, "GET") \/ Len(WordEnds(req)) < 3 THEN 400
  ELSE IF WordBegins(req, 3, "VER") THEN 200 ELSE 505

(* The request stops right after the blank behind its second word.          *)
EndsBeforeVersion(req) == Len(WordEnds(req)) = 3 /\ Last(req) = "sp"
=============================================================================

----------------------------- MODULE HttpBuffer -----------------------------
(***************************************************************************)
(* The receive buffer of a TCP channel and the requests parsed from it     *)
(* (ESTABLISHED in kern/tcp.c with kern/http.c).                           *)
(*                                                                         *)
(* Segments that passed the checks of tcp_process are appended; one with   *)
(* PSH has the buffer parsed and answered.  The buffer is never cleared:   *)
(* the next request, of this connection or of a later one, overwrites the  *)
(* old bytes from the front.                                               *)
(***************************************************************************)
EXTENDS Http

CONSTANTS Window,       \* TCP_WINDOW_SIZE
          MaxLen,       \* bound: the longest payload of a segment
          MaxAnswers    \* bound: requests answered in a behaviour

Payloads == UNION {[1 .. n -> Text] : n \in 0 .. MaxLen}

NoReply == [to |-> <<>>, code |-> 0]

(* buffer and data_len of struct tcp_virtual_channel; request, what was     *)
(* collected, as a sequence; the number of requests answered; and the reply *)
(* just sent, with the request it is for.                                   *)
VARIABLE hb

Init ==
  hb = [buffer |-> [i \in 0 .. Window - 1 |-> "0"], data_len |-> 0, request |-> <<>>,
        answers |-> 0, reply |-> NoReply]

(* memcpy behind what was collected.                                        *)
CollectAtFront(payload) ==
  [i \in DOMAIN hb.buffer |->
     IF i \in 0 .. Len(payload) - 1 THEN payload[i + 1] ELSE hb.buffer[i]]

Collect(payload) ==
  [i \in DOMAIN hb.buffer |->
     IF i \in hb.data_len .. hb.data_len + Len(payload) - 1
       THEN payload[i - hb.data_len + 1] ELSE hb.buffer[i]]

(* The overflow check.                                                      *)
Fits(payload) == hb.answers < MaxAnswers /\ hb.data_len + Len(payload) < Window

(* No PSH, or a reply tcp_send could not send: the payload stays.           *)
Keep(payload) ==
  /\ Fits(payload)
  /\ hb' = [hb EXCEPT !.buffer = Collect(payload), !.data_len = @ + Len(payload),
                      !.request = @ \o payload, !.reply = NoReply]

(* PSH: the buffer is parsed, answered and counts as empty.                 *)
Answer(payload) ==
  /\ Fits(payload)
  /\ LET code == http_parse(Collect(payload), hb.data_len + Len(payload)).code
     IN hb' = [buffer |-> Collect(payload), data_len |-> 0, request |-> <<>>,
               answers |-> hb.answers + 1,
               reply |-> [to |-> hb.request \o payload, code |-> code]]

Next == \E payload \in Payloads : Keep(payload) \/ Answer(payload)

-----------------------------------------------------------------------------
(* The front of the buffer is the request, however it was cut into segments *)
(* and whatever was there before; and every answer is the right one for the *)
(* request as received: 400 without a GET or a version, 505 for another     *)
(* version, else the page.  Old bytes behind the request play no part,      *)
(* except for a request that ends where its version should begin.           *)
AnswersRequest ==
  /\ hb.data_len = Len(hb.request) /\ hb.data_len < Window
  /\ \A i \in 1 .. hb.data_len : hb.buffer[i - 1] = hb.request[i]
  /\ hb.reply # NoReply /\ ~EndsBeforeVersion(hb.reply.to) =>
       hb.reply.code = RightCode(hb.reply.to)
=============================================================================

---------------------------- MODULE HttpSession ----------------------------
(***************************************************************************)
(* Clients fetching a page from the HTTP server over one TCP port: the     *)
(* channel of Tcp, its receive buffer, the parser of Http, the link and    *)
(* the TCP of the clients' machine.                                        *)
(*                                                                         *)
(* The link delivers in order; a frame may be lost on it or be refused by  *)
(* e1000_transmit.  The clients follow RFC 793 as far as this server goes: *)
(* SYN, ACK, the request in pieces with PSH on the last, ACK and FIN for   *)
(* the reply, and they repeat what has not been acknowledged, also when    *)
(* that was only slow.                                                     *)
(***************************************************************************)
EXTENDS Tcp, Http

CONSTANTS Clients,   \* the clients, told apart by their port
          Isn,       \* their initial sequence numbers
          Pieces,    \* their requests, as sequences of payloads
          MaxLoss,   \* bound: frames lost in a behaviour
          Cap        \* bound: a client with as many frames on the way repeats none

ASSUME ClientsAssumption == Clients \subseteq GuestPorts /\ Cap \in Nat /\ MaxLoss \in Nat

Port == CHOOSE p \in ListenPorts : TRUE

VARIABLES
  buffer,    \* tcp_vc[i].buffer
  up, down,  \* frames on their way to the server and to the clients
  cl,        \* the clients
  losses,    \* frames lost
  served     \* every request parsed and answered: by whom, what

link == <<up, down>>
allVars == <<vars, buffer, link, cl, losses, served>>

SessionInit ==
  /\ Init
  /\ buffer = [i \in 0 .. Window - 1 |-> "0"]
  /\ up = <<>> /\ down = <<>>
  /\ cl = [c \in Clients |-> [st |-> "idle", sent |-> 0, acked |-> 0, rcv |-> 0, code |-> 0]]
  /\ losses = 0
  /\ served = {}

Boot == tcp_init_vc /\ UNCHANGED <<buffer, link, cl, losses, served>>

-----------------------------------------------------------------------------
(* The server: one round of mon_eth_recv on a TCP segment.                  *)

(* The sequence number behind the first k pieces of client c.               *)
Ends == [c \in Clients |-> [k \in 0 .. Len(Pieces[c]) |->
           (Isn[c] + 1 + FoldLeft(LAMBDA a, x : a + Len(x), 0, SubSeq(Pieces[c], 1, k))) % W]]
EndOf(c, k) == Ends[c][k]

ReplyLen(code) == IF code = 200 THEN 2 ELSE 1

Written(seg, c) ==
  [i \in DOMAIN buffer |->
     IF i \in c.data_len .. c.data_len + seg.len - 1 THEN seg.body[i - c.data_len + 1] ELSE buffer[i]]

(* Frames e1000_transmit accepts go on the link.                            *)
Deliver(code) ==
  down' = IF out' = Nothing THEN down ELSE Append(down, out' @@ [code |-> code])

(* Collected data: memcpy, and http_parse when PSH is set.                  *)
ServeData(seg, ok) ==
  LET c == vc[Port]
      n == c.data_len + seg.len
      pushed == "PSH" \in seg.flags
  IN /\ c.state = "ESTABLISHED" /\ FromPeer(c, seg) /\ Fits(c, seg)
     /\ \E data \in {Written(seg, c)} : \E code \in {http_parse(data, n).code} :
          /\ Process(seg, ok, ReplyLen(code))
          /\ buffer' = data
          /\ Deliver(IF pushed THEN code ELSE 0)
          /\ served' = IF pushed /\ ok
                         THEN served \cup {[by |-> c.gport, data |-> [i \in 1 .. n |-> data[i - 1]]]}
                         ELSE served

ServeOther(seg, ok) ==
  LET c == vc[Port]
  IN /\ ~(c.state = "ESTABLISHED" /\ FromPeer(c, seg) /\ Fits(c, seg))
     /\ Process(seg, ok, 0)
     /\ Deliver(0)
     /\ UNCHANGED <<buffer, served>>

Serve(ok) ==
  /\ up # <<>>
  /\ ok \/ losses < MaxLoss
  /\ ServeData(Head(up), ok) \/ ServeOther(Head(up), ok)
  /\ up' = Tail(up)
  /\ losses' = IF ok THEN losses ELSE losses + 1
  /\ UNCHANGED cl

LoseUp ==
  /\ up # <<>> /\ losses < MaxLoss
  /\ up' = Tail(up) /\ losses' = losses + 1
  /\ UNCHANGED <<vars, buffer, down, cl, served>>

LoseDown ==
  /\ down # <<>> /\ losses < MaxLoss
  /\ down' = Tail(down) /\ losses' = losses + 1
  /\ UNCHANGED <<vars, buffer, up, cl, served>>
-----------------------------------------------------------------------------
(* The clients (external).                                                  *)

InFlight(c) == Len(SelectSeq(up, LAMBDA f : f.sport = c))

(* Client c, in state r, puts a segment on the link.                        *)
Emit(c, r, flags, seq, body) ==
  up' = Append(up, [port |-> Port, ip |-> HostIP, sport |-> c, flags |-> flags,
                    seq |-> seq, ack |-> r.rcv, len |-> Len(body), body |-> body])

SendSyn(c) == Emit(c, cl[c], {"SYN"}, Isn[c], <<>>)
SendFin(c) == Emit(c, cl[c], {"ACK", "FIN"}, EndOf(c, Len(Pieces[c])), <<>>)
SendPiece(c, k) ==
  Emit(c, cl[c], IF k = Len(Pieces[c]) THEN {"ACK", "PSH"} ELSE {"ACK"},
       EndOf(c, k - 1), Pieces[c][k])

ClientStep == UNCHANGED <<vars, buffer, losses, served>>

Connect(c) ==
  /\ cl[c].st = "idle"
  /\ SendSyn(c)
  /\ cl' = [cl EXCEPT ![c].st = "syn_sent"]
  /\ UNCHANGED down /\ ClientStep

Send(c) ==
  /\ cl[c].st = "open" /\ cl[c].sent < Len(Pieces[c])
  /\ SendPiece(c, cl[c].sent + 1)
  /\ cl' = [cl EXCEPT ![c].sent = @ + 1]
  /\ UNCHANGED down /\ ClientStep

Close(c) ==
  /\ cl[c].st = "answered"
  /\ SendFin(c)
  /\ cl' = [cl EXCEPT ![c].st = "closing"]
  /\ UNCHANGED down /\ ClientStep

(* The retransmission timer.                                                *)
Resend(c) ==
  /\ InFlight(c) < Cap
  /\ \/ cl[c].st = "syn_sent" /\ SendSyn(c)
     \/ cl[c].st = "open" /\ cl[c].acked < cl[c].sent /\ SendPiece(c, cl[c].acked + 1)
     \/ cl[c].st = "closing" /\ SendFin(c)
  /\ UNCHANGED <<down, cl>> /\ ClientStep

(* A segment f from the server to client c in state r; what is out of place *)
(* is dropped.                                                              *)
Opens(c, r, f) == r.st = "syn_sent" /\ "SYN" \in f.flags /\ f.ack = (Isn[c] + 1) % W
Answers(r, f) == r.st = "open" /\ "FIN" \in f.flags /\ f.seq = r.rcv
Closes(c, r, f) == /\ r.st = "closing" /\ f.flags = {"ACK"}
                   /\ f.ack = (EndOf(c, Len(Pieces[c])) + 1) % W

Received(c, r, f) ==
  CASE Opens(c, r, f) -> [r EXCEPT !.st = "open", !.rcv = (f.seq + 1) % W]
    [] Answers(r, f) -> [r EXCEPT !.st = "answered", !.acked = r.sent, !.code = f.code,
                                  !.rcv = (r.rcv + f.len + 1) % W]
    [] Closes(c, r, f) -> [r EXCEPT !.st = "done"]
    [] r.st = "open" /\ ~Answers(r, f) /\ (\E k \in r.acked .. r.sent : EndOf(c, k) = f.ack)
         -> [r EXCEPT !.acked = CHOOSE k \in r.acked .. r.sent : EndOf(c, k) = f.ack]
    [] OTHER -> r

Receive(c) ==
  /\ down # <<>>
  /\ \E f \in {Head(down)} :
       /\ f.dport = c
       /\ \E r \in {Received(c, cl[c], f)} :
            /\ cl' = [cl EXCEPT ![c] = r]
            /\ IF Opens(c, cl[c], f) \/ Answers(cl[c], f)
                 THEN Emit(c, r, {"ACK"}, EndOf(c, r.sent), <<>>)
                 ELSE up' = up
  /\ down' = Tail(down) /\ ClientStep

SessionNext ==
  \/ Boot
  \/ \E ok \in BOOLEAN : Serve(ok)
  \/ LoseUp \/ LoseDown
  \/ \E c \in Clients : Connect(c) \/ Send(c) \/ Close(c) \/ Resend(c) \/ Receive(c)

(* The server polls for ever, and the clients' machine runs their programs, *)
(* its retransmission timers and its receive path.                          *)
Fairness ==
  /\ WF_allVars(Boot)
  /\ WF_allVars(Serve(TRUE))
  /\ \A c \in Clients :
       /\ WF_allVars(Connect(c) \/ Send(c) \/ Close(c))
       /\ WF_allVars(Resend(c))
       /\ WF_allVars(Receive(c))

SessionSpec == SessionInit /\ [][SessionNext]_allVars /\ Fairness

-----------------------------------------------------------------------------
Request(c) == FlattenSeq(Pieces[c])

(* What the server parses is exactly what its client sent: no piece lost,   *)
(* repeated or taken from another client, although segments are repeated,   *)
(* lost and refused and tcp_process never looks at the sender's port.       *)
RequestsIntact == \A r \in served : r.by \in Clients /\ r.data = Request(r.by)

(* The port serves one client at a time: from the server's SYN-ACK until    *)
(* it has the client's FIN no other client gets through.                    *)
OneClientAtATime ==
  \A c, d \in Clients : cl[c].st \in {"open", "answered"} /\ cl[d].st \in {"open", "answered"} => c = d

(* A client that was answered got the answer its own request deserves: the  *)
(* server parses requests as they were sent, one client at a time           *)
(* (tcp_process with check_ack_seq, and http_parse on the shared buffer).   *)
AnswersRight ==
  /\ RequestsIntact
  /\ OneClientAtATime
  /\ \A c \in Clients : cl[c].st \in {"answered", "closing", "done"} => cl[c].code = RightCode(Request(c))

(* The server always comes back to accepting connections on the port.  Does *)
(* not hold once a frame is lost, since tcp_process repeats nothing.        *)
PortFreed == []<>(vc[Port].state = "LISTEN")

(* Without loss every client gets its answer and closes, although both want *)
(* the same port and repeat segments the server takes for errors, and the   *)
(* port always comes back to LISTEN (tcp_process, CLOSE_WAIT).              *)
AllServed ==
  /\ \A c \in Clients : <>(cl[c].st = "done" \/ losses > 0)
  /\ []<>(vc[Port].state = "LISTEN" \/ losses > 0)
=============================================================================

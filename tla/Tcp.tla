-------------------------------- MODULE Tcp --------------------------------
(***************************************************************************)
(* The TCP virtual channels (kern/tcp.c): one channel per listening port,  *)
(* driven by whatever segments arrive.                                     *)
(*                                                                         *)
(* One step is one call of tcp_process on a received segment.  Sequence    *)
(* numbers are unsigned words: W stands for 2^32.  Only the lengths of     *)
(* payloads and replies matter here; HttpSession adds their contents.       *)
(***************************************************************************)
EXTENDS Naturals

CONSTANTS W,           \* number of sequence numbers
          Window,      \* TCP_WINDOW_SIZE
          ListenPorts, \* ports that have a channel
          OtherPorts,  \* ports that have none
          IPs, GuestPorts,
          FlagSets,    \* the combinations of flags segments carry
          Lens,        \* payload lengths
          ReplyLens,   \* lengths of HTTP replies
          HostIP       \* HOST_IP, the peer a fresh channel expects

ASSUME WAssumption == W \in Nat /\ W >= 2
ASSUME WindowAssumption == Window \in 1 .. W
ASSUME LensAssumption == Lens \subseteq Nat /\ ReplyLens \subseteq Nat
ASSUME PortsAssumption == ListenPorts \cap OtherPorts = {}
ASSUME FlagsAssumption == FlagSets \subseteq SUBSET {"SYN", "ACK", "PSH", "FIN"}
ASSUME HostAssumption == HostIP \in IPs /\ 8080 \in GuestPorts

SeqNums == 0 .. W - 1

Segments == [port : ListenPorts \cup OtherPorts, ip : IPs, sport : GuestPorts,
             flags : FlagSets, seq : SeqNums, ack : SeqNums, len : Lens]

(* What tcp_send puts on the wire, and nothing.                             *)
Sent == [port : ListenPorts, ip : IPs, dport : GuestPorts,
         flags : SUBSET {"SYN", "ACK", "PSH", "FIN"},
         seq : SeqNums, ack : SeqNums, len : Nat]
Nothing == [port |-> 0]

VARIABLES
  vc,      \* tcp_vc, by host_side.port
  out,     \* what the last call sent
  phase    \* "boot", "up" or "fault": a NULL channel was read

vars == <<vc, out, phase>>

(* The states tcp_process implements; the others only log.                  *)
States == {"CLOSED", "LISTEN", "SYN_RECEIVED", "ESTABLISHED", "CLOSE_WAIT"}

Channel == [state : States, ip : IPs, gport : GuestPorts,
            seq_num : SeqNums, ack_num : SeqNums, data_len : 0 .. Window - 1]

(* Zeroed memory reads as a CLOSED channel; the peer is set by tcp_init_vc  *)
(* before anything reads it.                                                *)
Init ==
  /\ vc = [p \in ListenPorts |->
             [state |-> "CLOSED", ip |-> HostIP, gport |-> 8080,
              seq_num |-> 0, ack_num |-> 0, data_len |-> 0]]
  /\ out = Nothing
  /\ phase = "boot"

Opened(c) == [c EXCEPT !.state = "LISTEN", !.ip = HostIP, !.gport = 8080]

tcp_init_vc ==
  /\ phase = "boot"
  /\ phase' = "up"
  /\ vc' = [p \in ListenPorts |-> Opened(vc[p])]
  /\ UNCHANGED out

(* tcp_send on channel c: the segment on the wire when the card takes the   *)
(* frame, nothing when e1000_transmit refuses it.                           *)
tcp_send(p, c, flags, len, ok) ==
  out' = IF ok
           THEN [port |-> p, ip |-> c.ip, dport |-> c.gport, flags |-> flags,
                 seq |-> c.seq_num, ack |-> c.ack_num, len |-> len]
           ELSE Nothing

tcp_send_ack(p, c, flags, ok) == tcp_send(p, c, flags \cup {"ACK"}, 0, ok)

check_ack_seq(c, seg) == seg.seq = c.ack_num /\ seg.ack = c.seq_num

(* The checks SYN_RECEIVED, ESTABLISHED and CLOSE_WAIT share.               *)
FromPeer(c, seg) == "ACK" \in seg.flags /\ seg.ip = c.ip /\ check_ack_seq(c, seg)

(* goto error, or a segment the state ignores.                              *)
Ignore(seg) == UNCHANGED vc /\ out' = Nothing

-----------------------------------------------------------------------------
(* LISTEN: the initial sequence number is the peer's own.                   *)
Listen(seg, ok) ==
  LET p == seg.port
      c == [vc[p] EXCEPT !.seq_num = seg.seq, !.ip = seg.ip, !.gport = seg.sport,
                         !.ack_num = (seg.seq + 1) % W]
  IN /\ vc[p].state = "LISTEN"
     /\ \/ /\ "SYN" \in seg.flags
           /\ tcp_send_ack(p, c, {"SYN"}, ok)
           /\ vc' = [vc EXCEPT ![p] = [c EXCEPT !.seq_num = (c.seq_num + 1) % W,
                                                !.state = "SYN_RECEIVED"]]
        \/ /\ "SYN" \notin seg.flags
           /\ Ignore(seg)

SynReceived(seg) ==
  LET p == seg.port c == vc[p]
  IN /\ c.state = "SYN_RECEIVED"
     /\ \/ /\ FromPeer(c, seg)
           /\ vc' = [vc EXCEPT ![p].state = "ESTABLISHED"]
           /\ out' = Nothing
        \/ /\ ~FromPeer(c, seg)
           /\ Ignore(seg)

(* ESTABLISHED: the payload is appended and acknowledged in the channel; a  *)
(* PSH answers the request with the reply and FIN.  A reply that cannot be  *)
(* sent leaves the appended payload and the acknowledgement number.         *)
Fits(c, seg) == c.data_len + seg.len < Window

AppendedUnacked(c, seg) == [c EXCEPT !.data_len = c.data_len + seg.len]

Appended(c, seg) == [c EXCEPT !.data_len = c.data_len + seg.len,
                              !.ack_num = (c.ack_num + seg.len) % W]

Answered(c, n) ==
  [c EXCEPT !.seq_num = (c.seq_num + n + 1) % W, !.data_len = 0, !.state = "CLOSE_WAIT"]

Established(seg, ok, n) ==
  LET p == seg.port c == vc[p] d == Appended(c, seg)
  IN /\ c.state = "ESTABLISHED"
     /\ \/ /\ FromPeer(c, seg) /\ Fits(c, seg)
           /\ "PSH" \in seg.flags
           /\ tcp_send(p, d, {"ACK", "PSH", "FIN"}, n, ok)
           /\ vc' = [vc EXCEPT ![p] = IF ok THEN Answered(d, n) ELSE d]
        \/ /\ FromPeer(c, seg) /\ Fits(c, seg)
           /\ "PSH" \notin seg.flags
           /\ vc' = [vc EXCEPT ![p] = d]
           /\ IF seg.len # 0 THEN tcp_send_ack(p, d, {}, ok) ELSE out' = Nothing
        \/ /\ ~(FromPeer(c, seg) /\ Fits(c, seg))
           /\ Ignore(seg)

CloseWaitStays(seg, ok) ==
  LET p == seg.port c == vc[p]
      d == [c EXCEPT !.ack_num = (c.ack_num + 1) % W]
  IN /\ c.state = "CLOSE_WAIT"
     /\ \/ /\ FromPeer(c, seg) /\ "FIN" \in seg.flags
           /\ tcp_send_ack(p, d, {}, ok)
           /\ vc' = [vc EXCEPT ![p] = d]
        \/ /\ ~(FromPeer(c, seg) /\ "FIN" \in seg.flags)
           /\ Ignore(seg)

(* CLOSE_WAIT: the peer's FIN is acknowledged and the channel listens again *)
CloseWait(seg, ok) ==
  LET p == seg.port c == vc[p]
      d == [c EXCEPT !.ack_num = (c.ack_num + 1) % W, !.state = "LISTEN"]
  IN /\ c.state = "CLOSE_WAIT"
     /\ \/ /\ FromPeer(c, seg) /\ "FIN" \in seg.flags
           /\ tcp_send_ack(p, d, {}, ok)
           /\ vc' = [vc EXCEPT ![p] = d]
        \/ /\ ~(FromPeer(c, seg) /\ "FIN" \in seg.flags)
           /\ Ignore(seg)

-----------------------------------------------------------------------------
(* match_tcp_vc and the switch; ok is the result of tcp_send, n the length  *)
(* of the reply.                                                            *)
Process(seg, ok, n) ==
  /\ phase = "up"
  /\ seg.port \in ListenPorts
  /\ Listen(seg, ok) \/ SynReceived(seg) \/ Established(seg, ok, n) \/ CloseWait(seg, ok)
  /\ UNCHANGED phase

(* No channel: the error path prints vc->state through the NULL pointer.    *)
NoChannel(seg) ==
  /\ phase = "up"
  /\ seg.port \notin ListenPorts
  /\ phase' = "fault"
  /\ out' = Nothing
  /\ UNCHANGED vc

tcp_process(seg, ok, n) == Process(seg, ok, n) \/ NoChannel(seg)

Next == \/ tcp_init_vc
        \/ \E seg \in Segments, ok \in BOOLEAN, n \in ReplyLens : tcp_process(seg, ok, n)

Spec == Init /\ [][Next]_vars

-----------------------------------------------------------------------------
(* Channels and segments have their types: the received data always fits    *)
(* the buffer with room for the byte http_parse looks at behind it.         *)
TypeOK ==
  /\ vc \in [ListenPorts -> Channel]
  /\ out \in Sent \cup {Nothing}
  /\ phase \in {"boot", "up", "fault"}

(* The buffer is empty whenever no request is being collected: what one     *)
(* connection left behind is never taken for the start of the next request. *)
EmptyBetweenRequests ==
  \A p \in ListenPorts : vc[p].state # "ESTABLISHED" => vc[p].data_len = 0

(* Both directions start from the peer's initial number, so until the reply *)
(* the two counters differ exactly by the data collected: every byte in the *)
(* buffer has been acknowledged and nothing else has, across wrap-around    *)
(* and failed replies.                                                      *)
AcksMatchData ==
  \A p \in ListenPorts :
    vc[p].state \in {"SYN_RECEIVED", "ESTABLISHED"} =>
      vc[p].ack_num = (vc[p].seq_num + vc[p].data_len) % W

(* The inductive invariant of the channels.                                 *)
IndInv == /\ TypeOK /\ EmptyBetweenRequests /\ AcksMatchData
          /\ \A p \in ListenPorts : phase = "boot" <=> vc[p].state = "CLOSED"

(* A segment for a port without a channel is reported and dropped.  Does    *)
(* not hold: the report reads the state of the channel through NULL.        *)
NoFault == phase # "fault"
=============================================================================

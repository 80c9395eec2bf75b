------------------------------ MODULE NetStack ------------------------------
(***************************************************************************)
(* The receive loop of the network stack (mon_eth_recv in kern/monitor.c,  *)
(* kern/ethernet.c, kern/ip.c, kern/icmp.c, kern/udp.c) over the ARP cache *)
(* of ArpTable.                                                            *)
(*                                                                         *)
(* The receive and transmit rings are the queues their own modules show    *)
(* them to be: frames come in order, and a frame handed to the card is     *)
(* sent or refused.  A round of the loop takes one frame through every     *)
(* layer and back before the next is looked at, so the order of the frames *)
(* is the only interleaving.  TCP is left open here: a segment may be      *)
(* answered or not (Tcp says when).                                        *)
(***************************************************************************)
EXTENDS ArpTable

CONSTANT IdMod   \* values of ip_id, 2^16

ASSUME IdAssumption == IdMod \in Nat \ {0}

(* What the handlers tell apart in a frame.  bad is the check it fails.     *)
ArpFrames == [type : {"arp"}, m : Messages]
IpFrames == [type : {"ip"}, bad : {"", "version", "checksum", "icmp type"},
             proto : {"icmp", "udp", "tcp", "igmp"}, ip : IPs]
Frames == ArpFrames \cup IpFrames \cup {[type |-> "other"]}

Nothing == [proto |-> "none"]

VARIABLES
  sent,       \* the frame the last round gave to the card: protocol, IP and
              \* MAC, ip_id, and the machine whose frame caused it
  packet_id,  \* the counter in ip_send
  status      \* what eth_recv returned: "none", "ok" or "error"

net == <<sent, packet_id, status>>
netVars == <<vars, net>>

NetInit == Init /\ sent = Nothing /\ packet_id = 0 /\ status = "none"

Boot == initialize_arp_table /\ UNCHANGED net

(* The machines on the link (external) ask for this one's address before    *)
(* they send it anything else.                                              *)
Arrives(f) == f.type = "ip" => heard[f.ip] # ZeroMac

-----------------------------------------------------------------------------
(* e1000_transmit took the frame (ok) or refused it.                        *)
Transmit(f, ok) == sent' = IF ok THEN f ELSE Nothing

(* ip_send and eth_send: the id is used up whether or not the frame goes    *)
(* out, and the MAC is looked up without a check for NULL.                  *)
ip_send(proto, dst, from, ok) ==
  /\ packet_id' = (packet_id + 1) % IdMod
  /\ \/ /\ \E mac \in AllMacs :
             /\ get_mac_by_ip(table, dst, mac)
             /\ Transmit([proto |-> proto, ip |-> dst, mac |-> mac, id |-> packet_id, from |-> from], ok)
        /\ UNCHANGED phase
     \/ /\ Matches(table, dst) = {}
        /\ phase' = "fault"
        /\ sent' = Nothing

ReplyNone == sent' = Nothing /\ UNCHANGED <<packet_id, phase>>

(* ip_recv: the checks, then the protocol.  Echo replies and UDP go to      *)
(* HOST_IP whoever asked, TCP goes to the sender; udp_recv returns 0 even   *)
(* when its reply was refused.                                              *)
IpDropped(f) ==
  /\ f.bad \in {"version", "checksum"} \/ (f.bad = "icmp type" /\ f.proto = "icmp")
  /\ ReplyNone
  /\ status' = "error"

icmp_echo_reply(f, ok) ==
  /\ f.proto = "icmp" /\ f.bad = ""
  /\ ip_send("icmp", HostIP, f.ip, ok)
  /\ status' = IF ok THEN "ok" ELSE "error"

udp_recv(f, ok) ==
  /\ f.proto = "udp" /\ f.bad \notin {"version", "checksum"}
  /\ ip_send("udp", HostIP, f.ip, ok)
  /\ status' = "ok"

tcp_recv(f, ok) ==
  /\ f.proto = "tcp" /\ f.bad \notin {"version", "checksum"}
  /\ ip_send("tcp", f.ip, f.ip, ok) \/ ReplyNone
  /\ status' \in {"ok", "error"}

IpOther(f) ==
  /\ f.proto = "igmp" /\ f.bad \notin {"version", "checksum"}
  /\ ReplyNone
  /\ status' = "ok"

ip_recv(f, ok) ==
  /\ f.type = "ip"
  /\ IpDropped(f) \/ icmp_echo_reply(f, ok) \/ udp_recv(f, ok) \/ tcp_recv(f, ok) \/ IpOther(f)
  /\ UNCHANGED <<table, heard, reply>>

(* arp_resolve, and arp_reply through eth_send.                             *)
Answered(m) == m.hw /\ m.proto /\ m.forMe /\ m.op = "request"

EthArp(f, ok) ==
  /\ f.type = "arp"
  /\ arp_resolve(f.m)
  /\ \/ /\ Answered(f.m) /\ phase' = "up"
        /\ \E mac \in AllMacs :
             /\ get_mac_by_ip(table', f.m.ip, mac)
             /\ Transmit([proto |-> "arp", ip |-> f.m.ip, mac |-> mac, id |-> 0, from |-> f.m.ip], ok)
        /\ status' = IF ok THEN "ok" ELSE "error"
     \/ /\ ~(Answered(f.m) /\ phase' = "up")
        /\ status' = "error"
        /\ sent' = Nothing
  /\ UNCHANGED packet_id

EthOther(f) ==
  /\ f.type = "other"
  /\ status' = "error"
  /\ ReplyNone
  /\ UNCHANGED <<table, heard, reply>>

(* One round of the loop in mon_eth_recv.                                   *)
eth_recv(f, ok) ==
  /\ phase = "up" /\ Arrives(f)
  /\ ip_recv(f, ok) \/ EthArp(f, ok) \/ EthOther(f)

NetNext == Boot \/ \E f \in Frames, ok \in BOOLEAN : eth_recv(f, ok)

NetSpec == NetInit /\ [][NetNext]_netVars

-----------------------------------------------------------------------------
(* A frame sent to a machine that has made itself known carries the last    *)
(* address it announced, whatever other machines announced since; before    *)
(* that the default address of the host.                                    *)
ToLatestAddress ==
  sent # Nothing =>
    sent.mac = IF heard[sent.ip] # ZeroMac THEN heard[sent.ip] ELSE DefaultMac

(* A ping is answered to the machine that sent it.                          *)
EchoReturnsToSender == sent.proto = "icmp" => sent.ip = sent.from
=============================================================================

------------------------------ MODULE ArpTable ------------------------------
(***************************************************************************)
(* The ARP cache and the ARP responder (kern/arp.c).                       *)
(*                                                                         *)
(* One action stands for one call: the kernel handles a frame to its end   *)
(* before it looks at the next.  A loop over the table that stops at the   *)
(* first entry with some property is the choice of that entry.             *)
(***************************************************************************)
EXTENDS Naturals, FiniteSets

CONSTANTS Size,        \* ARP_TABLE_MAX_SIZE
          IPs, MACs,   \* addresses of the hosts on the link
          HostIP,      \* HOST_IP
          ZeroIP,      \* the address an entry has before its first use
          ZeroMac, DefaultMac

ASSUME SizeAssumption == Size \in Nat /\ Size >= 2
ASSUME HostAssumption == HostIP \in IPs /\ HostIP # ZeroIP
ASSUME MacAssumption == ZeroMac \notin MACs /\ DefaultMac \notin MACs

Slots == 0 .. Size - 1
AllIPs == IPs \cup {ZeroIP}
AllMacs == MACs \cup {ZeroMac, DefaultMac}
States == {"FREE", "STATIC", "DYNAMIC"}

(* What arp_resolve reads from a request: the two type checks, whether it   *)
(* is for this machine, the opcode and the sender.                          *)
Messages == [hw : BOOLEAN, proto : BOOLEAN, forMe : BOOLEAN,
             op : {"request", "reply"}, ip : IPs, mac : MACs]

VARIABLES
  table,    \* arp_table
  phase,    \* "boot", "up", or "fault": a NULL pointer was read
  heard,    \* the address last announced for an IP, ZeroMac for none
  reply     \* the ARP replies sent: destination and asker

vars == <<table, phase, heard, reply>>

Entry(ip, mac, state) == [ip |-> ip, mac |-> mac, state |-> state]

Init ==
  /\ table = [s \in Slots |-> Entry(ZeroIP, ZeroMac, "FREE")]
  /\ phase = "boot"
  /\ heard = [ip \in AllIPs |-> ZeroMac]
  /\ reply = {}

(* Entry Size - 1 gets the default address, then the loop over 1..Size-1    *)
(* marks every entry but the first as free, that one included.              *)
initialize_arp_table ==
  /\ phase = "boot"
  /\ phase' = "up"
  /\ table' = [s \in Slots |->
                 CASE s = Size - 1 -> Entry(HostIP, DefaultMac, "FREE")
                   [] s = 0 -> table[s]
                   [] OTHER -> [table[s] EXCEPT !.state = "FREE"]]
  /\ UNCHANGED <<heard, reply>>

-----------------------------------------------------------------------------
(* get_mac_by_ip returns the address of the first entry with this IP, free  *)
(* or not, and NULL when there is none.                                     *)
Matches(t, ip) == {s \in Slots : t[s].ip = ip}
IsFirst(s, S) == s \in S /\ \A r \in S : s <= r
get_mac_by_ip(t, ip, mac) == \E s \in Slots : IsFirst(s, Matches(t, ip)) /\ mac = t[s].mac

(* update_arp_table: the loop ends at the first entry that is free or has   *)
(* the sender's IP; a table without one is left alone (-1).                 *)
UpdateStops(t, ip) == {s \in Slots : t[s].state = "FREE" \/ t[s].ip = ip}

NewEntryOnce(e, ip, mac) ==
  IF e.state # "FREE" THEN e ELSE Entry(ip, mac, "DYNAMIC")

NewEntry(e, ip, mac) ==
  IF e.state = "FREE" THEN Entry(ip, mac, "DYNAMIC")
  ELSE IF e.state = "DYNAMIC" THEN [e EXCEPT !.mac = mac]
  ELSE e

UpdateFirstOnly(t, ip, mac, t2) == t2 = [t EXCEPT ![0] = Entry(ip, mac, "DYNAMIC")]

update_arp_table(t, ip, mac, t2) ==
  \/ \E s \in Slots :
       /\ IsFirst(s, UpdateStops(t, ip))
       /\ t2 = [t EXCEPT ![s] = NewEntry(t[s], ip, mac)]
  \/ UpdateStops(t, ip) = {} /\ t2 = t

-----------------------------------------------------------------------------
(* arp_resolve                                                              *)

(* Wrong hardware or protocol type: return -1 before the table is touched.  *)
ResolveUnsupported(m) ==
  /\ phase = "up"
  /\ ~m.hw \/ ~m.proto
  /\ UNCHANGED vars

Learn(m) ==
  /\ phase = "up"
  /\ m.hw /\ m.proto
  /\ update_arp_table(table, m.ip, m.mac, table')
  /\ heard' = [heard EXCEPT ![m.ip] = m.mac]

(* Not for this machine, or not a request: return -1, but the sender has    *)
(* been learned.                                                            *)
ResolveNotForMe(m) ==
  /\ Learn(m)
  /\ ~m.forMe \/ m.op # "request"
  /\ UNCHANGED <<phase, reply>>

(* arp_reply takes the destination of the frame from the table.  An address *)
(* that is not there makes memcpy read through NULL.                        *)
ResolveRequest(m) ==
  /\ Learn(m)
  /\ m.forMe /\ m.op = "request"
  /\ \/ /\ \E mac \in AllMacs :
             /\ get_mac_by_ip(table', m.ip, mac)
             /\ reply' = reply \cup {[to |-> mac, for |-> m.mac]}
        /\ UNCHANGED phase
     \/ /\ Matches(table', m.ip) = {}
        /\ phase' = "fault"
        /\ UNCHANGED reply

arp_resolve(m) == ResolveUnsupported(m) \/ ResolveNotForMe(m) \/ ResolveRequest(m)

Next == initialize_arp_table \/ \E m \in Messages : arp_resolve(m)

Spec == Init /\ [][Next]_vars

-----------------------------------------------------------------------------
(* The table and the history have their types; the address an entry keeps   *)
(* is one that was announced, the default one, or none.                     *)
TypeOK ==
  /\ table \in [Slots -> [ip : AllIPs, mac : AllMacs, state : States]]
  /\ phase \in {"boot", "up", "fault"}
  /\ heard \in [AllIPs -> MACs \cup {ZeroMac}]
  /\ reply \subseteq [to : AllMacs, for : MACs]

Used(s) == table[s].state # "FREE"

(* The entries in use are the first ones of the table, and no two of them   *)
(* are for the same IP: update_arp_table takes the first free entry only    *)
(* after it has passed every entry in use.                                  *)
UsedPrefix ==
  /\ \A s, r \in Slots : Used(s) /\ r < s => Used(r)
  /\ \A s, r \in Slots : Used(s) /\ Used(r) /\ table[s].ip = table[r].ip => s = r

(* An entry in use holds the last address its IP announced, and an IP heard *)
(* of has an entry in use unless all entries are.                           *)
EntriesFresh ==
  /\ \A s \in Slots : Used(s) => /\ table[s].state = "DYNAMIC"
                                 /\ table[s].mac = heard[table[s].ip]
                                 /\ heard[table[s].ip] # ZeroMac
                                 /\ table[s].ip \in IPs
  /\ \A ip \in AllIPs : heard[ip] # ZeroMac =>
       (\E s \in Slots : Used(s) /\ table[s].ip = ip) \/ \A s \in Slots : Used(s)

(* What get_mac_by_ip returns for an IP that has been heard of is never an  *)
(* out-of-date address, although the lookup does not look at the state of   *)
(* the entries it passes.                                                   *)
LookupFresh ==
  \A ip \in AllIPs, mac \in AllMacs :
    heard[ip] # ZeroMac /\ get_mac_by_ip(table, ip, mac) => mac = heard[ip]

(* Every ARP reply goes to the machine that asked, although arp_reply takes *)
(* the destination from the table and not from the request.                 *)
ReplyToSender == \A r \in reply : r.to = r.for

(* Nothing has been learned before initialize_arp_table.                    *)
BootInv == phase = "boot" => /\ \A s \in Slots : ~Used(s)
                             /\ \A ip \in AllIPs : heard[ip] = ZeroMac

(* The inductive invariant of the ARP cache.                                *)
IndInv == TypeOK /\ BootInv /\ UsedPrefix /\ EntriesFresh /\ ReplyToSender

(* arp_resolve never reads through the NULL that get_mac_by_ip returns for  *)
(* an unknown address.  Holds only when the table has room for everyone.    *)
NoFault == phase # "fault"

(* A lookup fails only when every entry is in use: a machine that could not *)
(* be entered, or the host after its default entry was given away.          *)
FaultOnlyWhenFull == [][phase # "fault" /\ phase' = "fault" => \A s \in Slots : Used(s)']_vars

(* After initialize_arp_table the host's address can always be looked up:   *)
(* the last entry is there as a default.  Does not hold: the entry is given *)
(* away when the table fills.                                               *)
DefaultKept == phase = "up" => Matches(table, HostIP) # {}
=============================================================================

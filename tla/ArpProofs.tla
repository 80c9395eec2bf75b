----------------------------- MODULE ArpProofs -----------------------------
(***************************************************************************)
(* Proofs about the ARP cache and the receive loop over it, for a table of *)
(* any size and any hosts.                                                 *)
(***************************************************************************)
EXTENDS NetStack, FiniteSetTheorems, TLAPS

Entries == [ip : AllIPs, mac : AllMacs, state : States]

(* What one call of update_arp_table does to the table: either some entry   *)
(* now holds the sender's address, or all entries are in use by others.     *)
LEMMA UpdateEffect ==
  ASSUME IndInv, NEW ip \in IPs, NEW mac \in MACs,
         update_arp_table(table, ip, mac, table')
  PROVE  \/ \E s \in Slots :
              /\ table' = [table EXCEPT ![s] = Entry(ip, mac, "DYNAMIC")]
              /\ Used(s) => table[s].ip = ip
              /\ \A r \in Slots : r < s => Used(r) /\ table[r].ip # ip
         \/ /\ table' = table
            /\ \A s \in Slots : Used(s) /\ table[s].ip # ip
<1>1. CASE UpdateStops(table, ip) = {} /\ table' = table
  BY <1>1 DEF UpdateStops, Used
<1>2. CASE \E s \in Slots : /\ IsFirst(s, UpdateStops(table, ip))
                            /\ table' = [table EXCEPT ![s] = NewEntry(table[s], ip, mac)]
  <2>1. PICK s \in Slots : /\ IsFirst(s, UpdateStops(table, ip))
                           /\ table' = [table EXCEPT ![s] = NewEntry(table[s], ip, mac)]
    BY <1>2, Zenon
  <2>2. \A r \in Slots : r < s => Used(r) /\ table[r].ip # ip
    BY <2>1, SizeAssumption DEF IsFirst, UpdateStops, Used, Slots
  <2>3. Used(s) => table[s].ip = ip
    BY <2>1 DEF IsFirst, UpdateStops, Used
  <2>4. NewEntry(table[s], ip, mac) = Entry(ip, mac, "DYNAMIC")
    <3>1. table[s] \in Entries
      BY DEF IndInv, TypeOK, Entries
    <3>2. CASE ~Used(s)
      BY <3>2 DEF NewEntry, Used
    <3>3. CASE Used(s)
      <4>1. table[s].state = "DYNAMIC" /\ table[s].ip = ip
        BY <3>3, <2>3 DEF IndInv, EntriesFresh
      <4>2. [table[s] EXCEPT !.mac = mac] = Entry(ip, mac, "DYNAMIC")
        BY <3>1, <4>1 DEF Entries, Entry
      <4>. QED
        BY <4>1, <4>2 DEF NewEntry
    <3>. QED
      BY <3>2, <3>3
  <2>. QED
    BY <2>1, <2>2, <2>3, <2>4, Zenon
<1>. QED
  BY <1>1, <1>2 DEF update_arp_table
(* Learning a sender keeps the table a duplicate-free prefix of fresh       *)
(* entries.                                                                 *)
LEMMA LearnKeeps ==
  ASSUME IndInv, NEW m \in Messages, Learn(m)
  PROVE  /\ table' \in [Slots -> Entries]
         /\ heard' \in [AllIPs -> MACs \cup {ZeroMac}]
         /\ UsedPrefix' /\ EntriesFresh'
<1>1. /\ m.ip \in IPs /\ m.mac \in MACs /\ m.ip \in AllIPs /\ m.mac # ZeroMac
      /\ table \in [Slots -> Entries] /\ heard \in [AllIPs -> MACs \cup {ZeroMac}]
  BY MacAssumption DEF Messages, IndInv, TypeOK, Entries, AllIPs
<1>2. heard' = [heard EXCEPT ![m.ip] = m.mac]
  BY DEF Learn
<1>3. CASE \E s \in Slots :
              /\ table' = [table EXCEPT ![s] = Entry(m.ip, m.mac, "DYNAMIC")]
              /\ Used(s) => table[s].ip = m.ip
              /\ \A r \in Slots : r < s => Used(r) /\ table[r].ip # m.ip
  <2>1. PICK s \in Slots :
              /\ table' = [table EXCEPT ![s] = Entry(m.ip, m.mac, "DYNAMIC")]
              /\ Used(s) => table[s].ip = m.ip
              /\ \A r \in Slots : r < s => Used(r) /\ table[r].ip # m.ip
    BY <1>3, Zenon
  <2>2. Entry(m.ip, m.mac, "DYNAMIC") \in Entries
    BY <1>1 DEF Entry, Entries, AllIPs, AllMacs, States
  <2>3. table' \in [Slots -> Entries]
    BY <1>1, <2>1, <2>2
  <2>4. /\ table'[s].ip = m.ip /\ table'[s].mac = m.mac /\ table'[s].state = "DYNAMIC"
        /\ \A r \in Slots : r # s => table'[r] = table[r]
    BY <1>1, <2>1 DEF Entry
  <2>5. Used(s)' /\ \A r \in Slots : r # s => (Used(r)' <=> Used(r))
    BY <2>4 DEF Used
  <2>6. \A r \in Slots : r # s /\ Used(r) => table[r].ip # m.ip
    <3>. SUFFICES ASSUME NEW r \in Slots, r # s, Used(r), table[r].ip = m.ip PROVE FALSE
      OBVIOUS
    <3>1. s < r
      BY <2>1, SizeAssumption DEF Slots
    <3>2. Used(s) /\ table[s].ip = m.ip
      BY <3>1, <2>1 DEF IndInv, UsedPrefix
    <3>. QED
      BY <3>2 DEF IndInv, UsedPrefix
  <2>7. UsedPrefix'
    <3>1. ASSUME NEW a \in Slots, NEW b \in Slots, Used(a)', b < a PROVE Used(b)'
      BY <3>1, <2>1, <2>5, SizeAssumption DEF IndInv, UsedPrefix, Slots
    <3>2. ASSUME NEW a \in Slots, NEW b \in Slots, Used(a)', Used(b)', table'[a].ip = table'[b].ip
          PROVE  a = b
      BY <3>2, <2>4, <2>5, <2>6 DEF IndInv, UsedPrefix
    <3>. QED
      BY <3>1, <3>2 DEF UsedPrefix
  <2>8. EntriesFresh'
    <3>1. ASSUME NEW r \in Slots, Used(r)'
          PROVE  /\ table'[r].state = "DYNAMIC" /\ table'[r].mac = heard'[table'[r].ip]
                 /\ heard'[table'[r].ip] # ZeroMac /\ table'[r].ip \in IPs
      <4>1. CASE r = s
        BY <4>1, <2>4, <1>1, <1>2
      <4>2. CASE r # s
        <5>1. Used(r) /\ table'[r] = table[r] /\ table[r].ip # m.ip /\ table[r].ip \in AllIPs
          BY <3>1, <4>2, <2>4, <2>5, <2>6, <1>1 DEF Entries
        <5>. QED
          BY <5>1, <1>1, <1>2 DEF IndInv, EntriesFresh
      <4>. QED
        BY <4>1, <4>2
    <3>2. ASSUME NEW ip \in AllIPs, heard'[ip] # ZeroMac, NEW f \in Slots, ~Used(f)'
          PROVE  \E r \in Slots : Used(r)' /\ table'[r].ip = ip
      <4>1. CASE ip = m.ip
        BY <4>1, <2>4, <2>5
      <4>2. CASE ip # m.ip
        <5>1. heard[ip] # ZeroMac /\ ~Used(f)
          BY <3>2, <4>2, <1>1, <1>2, <2>5
        <5>2. PICK r \in Slots : Used(r) /\ table[r].ip = ip
          BY <5>1 DEF IndInv, EntriesFresh
        <5>3. r # s
          BY <5>2, <4>2, <2>1
        <5>. QED
          BY <5>2, <5>3, <2>4, <2>5
      <4>. QED
        BY <4>1, <4>2
    <3>. QED
      BY <3>1, <3>2 DEF EntriesFresh
  <2>. QED
    BY <1>1, <1>2, <2>3, <2>7, <2>8
<1>4. CASE table' = table /\ \A s \in Slots : Used(s) /\ table[s].ip # m.ip
  <2>1. \A s \in Slots : Used(s)' /\ heard'[table[s].ip] = heard[table[s].ip]
    BY <1>4, <1>1, <1>2 DEF Used, Entries
  <2>. QED
    BY <1>1, <1>2, <1>4, <2>1 DEF IndInv, UsedPrefix, EntriesFresh
<1>. QED
  BY <1>1, <1>3, <1>4, UpdateEffect DEF Learn

(* With a fresh, duplicate-free prefix the first match of get_mac_by_ip is  *)
(* the entry in use.                                                        *)
LEMMA FreshLookup ==
  ASSUME TypeOK, UsedPrefix, EntriesFresh,
         NEW ip \in AllIPs, NEW mac, heard[ip] # ZeroMac, get_mac_by_ip(table, ip, mac)
  PROVE  mac = heard[ip]
<1>1. PICK s \in Slots : IsFirst(s, Matches(table, ip)) /\ mac = table[s].mac
  BY DEF get_mac_by_ip
<1>2. table[s].ip = ip /\ \A r \in Slots : table[r].ip = ip => s <= r
  BY <1>1 DEF IsFirst, Matches
<1>3. Used(s)
  <2>. SUFFICES ASSUME ~Used(s) PROVE FALSE
    OBVIOUS
  <2>1. PICK u \in Slots : Used(u) /\ table[u].ip = ip
    BY DEF EntriesFresh
  <2>2. s < u
    BY <1>2, <2>1, SizeAssumption DEF Slots
  <2>. QED
    BY <2>1, <2>2 DEF UsedPrefix
<1>. QED
  BY <1>1, <1>2, <1>3 DEF EntriesFresh

(* Every call of arp_resolve keeps the invariant.                           *)
LEMMA IndInvStep == IndInv /\ [Next]_vars => IndInv'
<1>. SUFFICES ASSUME IndInv, [Next]_vars PROVE IndInv'
  OBVIOUS
<1>1. CASE initialize_arp_table
  <2>1. table' \in [Slots -> Entries] /\ \A s \in Slots : table'[s].state = "FREE"
    BY <1>1, SizeAssumption, HostAssumption
       DEF initialize_arp_table, IndInv, TypeOK, BootInv, Used, Slots, Entries, Entry,
           AllIPs, AllMacs, States
  <2>2. TypeOK'
    BY <1>1, <2>1 DEF initialize_arp_table, IndInv, TypeOK, Entries
  <2>3. \A ip \in AllIPs : heard'[ip] = ZeroMac
    BY <1>1 DEF initialize_arp_table, IndInv, BootInv
  <2>. QED
    BY <1>1, <2>1, <2>2, <2>3 DEF initialize_arp_table, IndInv, BootInv, UsedPrefix,
       EntriesFresh, ReplyToSender, Used
<1>2. ASSUME NEW m \in Messages, ResolveUnsupported(m) PROVE IndInv'
  BY <1>2 DEF ResolveUnsupported, vars, IndInv, TypeOK, BootInv, UsedPrefix, EntriesFresh,
     ReplyToSender, Used
<1>3. ASSUME NEW m \in Messages, ResolveNotForMe(m) PROVE IndInv'
  BY <1>3, LearnKeeps, Zenon DEF ResolveNotForMe, Learn, IndInv, TypeOK, BootInv, ReplyToSender, Entries
<1>4. ASSUME NEW m \in Messages, ResolveRequest(m) PROVE IndInv'
  <2>1. /\ table' \in [Slots -> Entries] /\ heard' \in [AllIPs -> MACs \cup {ZeroMac}]
        /\ UsedPrefix' /\ EntriesFresh' /\ m.ip \in AllIPs /\ m.mac \in MACs
    BY <1>4, LearnKeeps, Zenon DEF ResolveRequest, Messages, AllIPs
  <2>2. phase = "up" /\ heard'[m.ip] = m.mac /\ m.mac # ZeroMac
    BY <1>4, <2>1, MacAssumption DEF ResolveRequest, Learn, IndInv, TypeOK
  <2>3. CASE phase' = "fault" /\ reply' = reply
    BY <2>1, <2>3 DEF IndInv, TypeOK, BootInv, ReplyToSender, Entries
  <2>4. CASE /\ phase' = phase
             /\ \E mac \in AllMacs : /\ get_mac_by_ip(table', m.ip, mac)
                                     /\ reply' = reply \cup {[to |-> mac, for |-> m.mac]}
    <3>1. PICK mac \in AllMacs : /\ get_mac_by_ip(table', m.ip, mac)
                                 /\ reply' = reply \cup {[to |-> mac, for |-> m.mac]}
      BY <2>4
    <3>2. TypeOK'
      BY <2>1, <2>4, <3>1 DEF IndInv, TypeOK, Entries
    <3>3. mac = m.mac
      <4>1. PICK s \in Slots : IsFirst(s, Matches(table', m.ip)) /\ mac = table'[s].mac
        BY <3>1 DEF get_mac_by_ip
      <4>2. table'[s].ip = m.ip /\ \A r \in Slots : table'[r].ip = m.ip => s <= r
        BY <4>1 DEF IsFirst, Matches
      <4>3. Used(s)'
        <5>. SUFFICES ASSUME ~Used(s)' PROVE FALSE
          OBVIOUS
        <5>1. PICK u \in Slots : Used(u)' /\ table'[u].ip = m.ip
          BY <2>1, <2>2 DEF EntriesFresh
        <5>2. s < u
          BY <4>2, <5>1, SizeAssumption DEF Slots, Used
        <5>. QED
          BY <5>1, <5>2, <2>1 DEF UsedPrefix
      <4>. QED
        BY <4>1, <4>2, <4>3, <2>1, <2>2 DEF EntriesFresh
    <3>. QED
      BY <2>1, <2>2, <2>4, <3>1, <3>2, <3>3 DEF IndInv, BootInv, ReplyToSender
  <2>. QED
    BY <1>4, <2>3, <2>4 DEF ResolveRequest
<1>5. CASE UNCHANGED vars
  BY <1>5 DEF vars, IndInv, TypeOK, BootInv, UsedPrefix, EntriesFresh, ReplyToSender, Used
<1>. QED
  BY <1>1, <1>2, <1>3, <1>4, <1>5 DEF Next, arp_resolve

(* The ARP cache keeps its inductive invariant.                             *)
THEOREM CacheCorrect == Spec => []IndInv
<1>1. Init => IndInv
  BY SizeAssumption DEF Init, IndInv, TypeOK, BootInv, UsedPrefix, EntriesFresh, ReplyToSender,
     Used, Entry, AllIPs, AllMacs, States, Slots
<1>. QED
  BY <1>1, IndInvStep, PTL DEF Spec

(* A lookup of an IP that was heard of never returns an old address.        *)
THEOREM LookupsFresh == Spec => []LookupFresh
<1>1. IndInv => LookupFresh
  BY FreshLookup DEF IndInv, LookupFresh
<1>. QED
  BY <1>1, CacheCorrect, PTL

(* With no more hosts than entries, a sender always finds an entry.         *)
LEMMA RoomForSender ==
  ASSUME IndInv, IsFiniteSet(IPs), Cardinality(IPs) <= Size, NEW ip \in IPs
  PROVE  ~ \A s \in Slots : Used(s) /\ table[s].ip # ip
<1>. SUFFICES ASSUME \A s \in Slots : Used(s) /\ table[s].ip # ip PROVE FALSE
  OBVIOUS
<1>. DEFINE f == [s \in Slots |-> table[s].ip]
<1>1. IsFiniteSet(IPs \ {ip}) /\ Cardinality(IPs \ {ip}) = Cardinality(IPs) - 1
  BY FS_RemoveElement
<1>2. f \in Injection(Slots, IPs \ {ip})
  BY DEF IndInv, EntriesFresh, UsedPrefix, Injection, IsInjective
<1>3. Cardinality(Slots) <= Cardinality(IPs \ {ip})
  BY <1>1, <1>2, FS_Injection
<1>4. Cardinality(Slots) = Size
  BY SizeAssumption, FS_Interval DEF Slots
<1>5. Cardinality(IPs) \in Nat
  BY FS_CardinalityType
<1>. QED
  BY <1>1, <1>3, <1>4, <1>5, SizeAssumption

(* On a link with no more hosts than the table has entries, arp_resolve     *)
(* never reads through NULL.                                                *)
THEOREM NoFaultWhenRoom ==
  ASSUME IsFiniteSet(IPs), Cardinality(IPs) <= Size
  PROVE  Spec => []NoFault
<1>1. Init => NoFault
  BY DEF Init, NoFault
<1>2. IndInv /\ NoFault /\ [Next]_vars => NoFault'
  <2>. SUFFICES ASSUME IndInv, NoFault, [Next]_vars, ~NoFault' PROVE FALSE
    OBVIOUS
  <2>1. PICK m \in Messages : ResolveRequest(m) /\ Matches(table', m.ip) = {}
    BY DEF Next, initialize_arp_table, arp_resolve, ResolveUnsupported, ResolveNotForMe,
       ResolveRequest, vars, NoFault
  <2>2. m.ip \in IPs /\ m.mac \in MACs /\ table \in [Slots -> Entries]
    BY DEF Messages, IndInv, TypeOK, Entries
  <2>3. PICK s \in Slots : table' = [table EXCEPT ![s] = Entry(m.ip, m.mac, "DYNAMIC")]
    BY <2>1, <2>2, UpdateEffect, RoomForSender DEF ResolveRequest, Learn
  <2>. QED
    BY <2>1, <2>2, <2>3 DEF Matches, Entry
<1>. QED
  BY <1>1, <1>2, CacheCorrect, PTL DEF Spec

(* Every ARP reply goes to the machine that asked.                          *)
THEOREM RepliesToSender == Spec => []ReplyToSender
<1>1. IndInv => ReplyToSender
  BY DEF IndInv
<1>. QED
  BY <1>1, CacheCorrect, PTL

(* A step of the responder that reads through NULL leaves every entry in    *)
(* use.                                                                     *)
LEMMA ResponderFaultsWhenFull ==
  ASSUME IndInv, Next, phase # "fault", phase' = "fault"
  PROVE  \A s \in Slots : Used(s)'
<1>1. PICK m \in Messages : ResolveRequest(m) /\ Matches(table', m.ip) = {}
  BY DEF Next, initialize_arp_table, arp_resolve, ResolveUnsupported, ResolveNotForMe,
     ResolveRequest, vars
<1>2. m.ip \in IPs /\ m.mac \in MACs /\ table \in [Slots -> Entries]
  BY DEF Messages, IndInv, TypeOK, Entries
<1>3. ~ \E s \in Slots : table' = [table EXCEPT ![s] = Entry(m.ip, m.mac, "DYNAMIC")]
  BY <1>1, <1>2 DEF Matches, Entry
<1>. QED
  BY <1>1, <1>2, <1>3, UpdateEffect DEF ResolveRequest, Learn, Used

(* A lookup finds nothing only when every entry of the table is in use.     *)
THEOREM FaultsOnlyWhenFull == Spec => FaultOnlyWhenFull
<1>1. IndInv /\ [Next]_vars =>
        [phase # "fault" /\ phase' = "fault" => \A s \in Slots : Used(s)']_vars
  BY ResponderFaultsWhenFull
<1>. QED
  BY <1>1, CacheCorrect, PTL DEF Spec, FaultOnlyWhenFull
-----------------------------------------------------------------------------
(* The receive loop.                                                        *)

(* An entry not in use has no address, except the last one: it has the      *)
(* default address of the host from initialize_arp_table on.                *)
DefaultInv ==
  \A s \in Slots : ~Used(s) =>
    IF phase # "boot" /\ s = Size - 1
      THEN table[s].ip = HostIP /\ table[s].mac = DefaultMac
      ELSE table[s].ip = ZeroIP

(* The inductive invariant of the receive loop.                             *)
NetInv == IndInv /\ DefaultInv /\ ToLatestAddress /\ (phase = "boot" => sent = Nothing)

(* The host can be looked up before it has announced itself: the lookup     *)
(* finds the default address.                                               *)
LEMMA DefaultLookup ==
  ASSUME IndInv, DefaultInv, NEW mac, heard[HostIP] = ZeroMac, get_mac_by_ip(table, HostIP, mac)
  PROVE  mac = DefaultMac
<1>1. PICK s \in Slots : IsFirst(s, Matches(table, HostIP)) /\ mac = table[s].mac
  BY DEF get_mac_by_ip
<1>2. table[s].ip = HostIP
  BY <1>1 DEF IsFirst, Matches
<1>3. ~Used(s)
  BY <1>2 DEF IndInv, EntriesFresh
<1>. QED
  BY <1>1, <1>2, <1>3, HostAssumption DEF DefaultInv

(* A machine that announced itself, or the host, is missing from the table  *)
(* only when every entry is in use.                                         *)
LEMMA MissingMeansFull ==
  ASSUME IndInv, DefaultInv, phase = "up", NEW ip \in IPs, heard[ip] # ZeroMac \/ ip = HostIP,
         Matches(table, ip) = {}
  PROVE  \A s \in Slots : Used(s)
<1>1. \A s \in Slots : table[s].ip # ip
  BY DEF Matches
<1>2. CASE heard[ip] # ZeroMac
  BY <1>1, <1>2 DEF IndInv, EntriesFresh, AllIPs
<1>3. CASE ip = HostIP
  <2>1. Size - 1 \in Slots /\ \A s \in Slots : s # Size - 1 => s < Size - 1
    BY SizeAssumption DEF Slots
  <2>2. Used(Size - 1)
    BY <1>1, <1>3, <2>1 DEF DefaultInv
  <2>. QED
    BY <2>1, <2>2 DEF IndInv, UsedPrefix
<1>. QED
  BY <1>2, <1>3

(* Learning a sender fills a free entry and leaves the others as they are.  *)
LEMMA LearnKeepsDefault ==
  ASSUME IndInv, DefaultInv, NEW m \in Messages, Learn(m), phase' # "boot"
  PROVE  DefaultInv'
<1>1. m.ip \in IPs /\ m.mac \in MACs /\ table \in [Slots -> Entries] /\ phase = "up"
  BY DEF Messages, IndInv, TypeOK, Entries, Learn
<1>2. \A s \in Slots : table'[s] = table[s] \/ Used(s)'
  <2>1. CASE \E s \in Slots : table' = [table EXCEPT ![s] = Entry(m.ip, m.mac, "DYNAMIC")]
    BY <2>1, <1>1 DEF Used, Entry
  <2>2. CASE table' = table
    BY <2>2
  <2>. QED
    BY <1>1, <2>1, <2>2, UpdateEffect DEF Learn
<1>. QED
  BY <1>1, <1>2 DEF DefaultInv, Used

(* What ip_send hands to the card has the right address: its destination    *)
(* is the host or a machine that has announced itself.                      *)
LEMMA SendsToLatest ==
  ASSUME IndInv, DefaultInv, NEW proto, NEW dst \in IPs, NEW from, NEW ok \in BOOLEAN,
         heard[dst] # ZeroMac \/ dst = HostIP, ip_send(proto, dst, from, ok), heard' = heard
  PROVE  ToLatestAddress'
<1>. SUFFICES ASSUME sent' # Nothing
              PROVE  sent'.mac = IF heard[sent'.ip] # ZeroMac THEN heard[sent'.ip] ELSE DefaultMac
  BY DEF ToLatestAddress
<1>1. PICK mac \in AllMacs :
        /\ get_mac_by_ip(table, dst, mac)
        /\ sent' = [proto |-> proto, ip |-> dst, mac |-> mac, id |-> packet_id, from |-> from]
  BY DEF ip_send, Transmit
<1>2. dst \in AllIPs
  BY DEF AllIPs
<1>3. heard[dst] # ZeroMac => mac = heard[dst]
  BY <1>1, <1>2, FreshLookup DEF IndInv
<1>4. heard[dst] = ZeroMac => mac = DefaultMac
  BY <1>1, DefaultLookup
<1>. QED
  BY <1>1, <1>3, <1>4

LEMMA InvLookupFresh == IndInv => LookupFresh
BY FreshLookup DEF IndInv, LookupFresh

(* The type of a frame tells its other fields.                              *)
LEMMA FrameFields ==
  ASSUME NEW f \in Frames
  PROVE  /\ f.type = "ip" => f.ip \in IPs
         /\ f.type = "arp" => f.m \in Messages
<1>1. CASE f \in ArpFrames
  BY <1>1 DEF ArpFrames
<1>2. CASE f \in IpFrames
  BY <1>2, Zenon DEF IpFrames
<1>3. CASE f = [type |-> "other"]
  BY <1>3
<1>. QED
  BY <1>1, <1>2, <1>3 DEF Frames

(* An IP frame leaves the table alone; its reply goes to the host or, from  *)
(* tcp_recv, to the sender, who has announced itself.                       *)
LEMMA IpStep ==
  ASSUME NetInv, NEW f \in Frames, NEW ok \in BOOLEAN, phase = "up", Arrives(f), ip_recv(f, ok)
  PROVE  /\ NetInv'
         /\ phase' = "fault" => \A s \in Slots : Used(s)
<1>1. f.type = "ip" /\ f.ip \in IPs /\ heard[f.ip] # ZeroMac
  BY FrameFields DEF ip_recv, Arrives
<1>2. /\ IndInv /\ DefaultInv
      /\ table' = table /\ heard' = heard /\ reply' = reply
  BY DEF NetInv, ip_recv
<1>3. ASSUME phase' \in {"up", "fault"} PROVE IndInv' /\ DefaultInv'
  BY <1>2, <1>3 DEF IndInv, TypeOK, BootInv, UsedPrefix, EntriesFresh, ReplyToSender, Used, DefaultInv
<1>4. CASE ReplyNone
  <2>1. phase' = "up" /\ sent' = Nothing
    BY <1>4 DEF ReplyNone
  <2>. QED
    BY <1>3, <2>1 DEF NetInv, ToLatestAddress
<1>5. ASSUME NEW proto, NEW dst \in {HostIP, f.ip}, ip_send(proto, dst, f.ip, ok)
      PROVE  NetInv' /\ (phase' = "fault" => \A s \in Slots : Used(s))
  <2>1. dst \in IPs /\ (heard[dst] # ZeroMac \/ dst = HostIP)
    BY <1>1, HostAssumption
  <2>2. ToLatestAddress'
    BY <1>2, <1>5, <2>1, SendsToLatest
  <2>3. phase' = "up" \/ (phase' = "fault" /\ Matches(table, dst) = {})
    BY <1>5 DEF ip_send
  <2>4. phase' = "fault" => \A s \in Slots : Used(s)
    BY <1>2, <2>1, <2>3, MissingMeansFull
  <2>. QED
    BY <1>3, <2>2, <2>3, <2>4 DEF NetInv
<1>6. CASE IpDropped(f) \/ IpOther(f)
  BY <1>4, <1>6, Zenon DEF IpDropped, IpOther, ReplyNone
<1>7. CASE icmp_echo_reply(f, ok) \/ udp_recv(f, ok)
  BY <1>5, <1>7, Zenon DEF icmp_echo_reply, udp_recv
<1>8. CASE tcp_recv(f, ok)
  BY <1>4, <1>5, <1>8 DEF tcp_recv, ReplyNone
<1>. QED
  BY <1>6, <1>7, <1>8 DEF ip_recv

(* An ARP frame makes one step of the cache; the reply, if there is one,    *)
(* has the address the sender has just announced.                           *)
LEMMA ArpStep ==
  ASSUME NetInv, NEW f \in Frames, NEW ok \in BOOLEAN, phase = "up", EthArp(f, ok)
  PROVE  NetInv'
<1>1. f.type = "arp" /\ f.m \in Messages /\ arp_resolve(f.m) /\ IndInv /\ DefaultInv
  BY FrameFields DEF EthArp, NetInv
<1>2. IndInv'
  BY <1>1, IndInvStep DEF Next
<1>3. phase' # "boot"
  BY <1>1 DEF arp_resolve, ResolveUnsupported, ResolveNotForMe, ResolveRequest, vars
<1>4. DefaultInv'
  <2>1. CASE Learn(f.m)
    BY <1>1, <1>3, <2>1, LearnKeepsDefault
  <2>2. CASE UNCHANGED vars
    BY <1>1, <2>2 DEF vars, DefaultInv, Used
  <2>. QED
    BY <1>1, <2>1, <2>2 DEF arp_resolve, ResolveUnsupported, ResolveNotForMe, ResolveRequest
<1>5. ToLatestAddress'
  <2>. SUFFICES ASSUME sent' # Nothing PROVE ToLatestAddress'
    BY DEF ToLatestAddress
  <2>1. PICK mac \in AllMacs :
          /\ get_mac_by_ip(table', f.m.ip, mac)
          /\ sent' = [proto |-> "arp", ip |-> f.m.ip, mac |-> mac, id |-> 0, from |-> f.m.ip]
    BY DEF EthArp, Transmit
  <2>2. Answered(f.m)
    BY DEF EthArp
  <2>3. Learn(f.m)
    BY <1>1, <2>2 DEF Answered, arp_resolve, ResolveUnsupported, ResolveNotForMe, ResolveRequest
  <2>4. f.m.ip \in AllIPs /\ heard'[f.m.ip] = f.m.mac /\ f.m.mac # ZeroMac
    BY <1>1, <2>3, MacAssumption DEF Learn, IndInv, TypeOK, Messages, AllIPs
  <2>5. LookupFresh'
    BY <1>2, InvLookupFresh, PTL
  <2>6. mac = heard'[f.m.ip]
    BY <2>1, <2>4, <2>5, Zenon DEF LookupFresh
  <2>. QED
    BY <2>1, <2>4, <2>6 DEF ToLatestAddress
<1>. QED
  BY <1>2, <1>3, <1>4, <1>5 DEF NetInv

(* A step that leaves the cache alone leaves what is known of it alone.      *)
LEMMA SameCache ==
  ASSUME IndInv, DefaultInv, UNCHANGED vars
  PROVE  IndInv' /\ DefaultInv'
<1>1. TypeOK' /\ BootInv'
  BY Zenon DEF IndInv, TypeOK, BootInv, Used, vars
<1>2. UsedPrefix' /\ EntriesFresh' /\ ReplyToSender'
  <2>1. UsedPrefix' = UsedPrefix
    BY Zenon DEF UsedPrefix, Used, vars
  <2>2. EntriesFresh' = EntriesFresh
    BY Zenon DEF EntriesFresh, Used, vars
  <2>3. ReplyToSender' = ReplyToSender
    BY Zenon DEF ReplyToSender, vars
  <2>. QED
    BY <2>1, <2>2, <2>3, Zenon DEF IndInv
<1>3. DefaultInv'
  BY Zenon DEF DefaultInv, Used, vars
<1>. QED
  BY <1>1, <1>2, <1>3, Zenon DEF IndInv

(* The receive loop keeps its invariant.                                    *)
LEMMA NetInvStep == NetInv /\ [NetNext]_netVars => NetInv'
<1>. SUFFICES ASSUME NetInv, [NetNext]_netVars PROVE NetInv'
  OBVIOUS
<1>1. CASE Boot
  <2>1. IndInv' /\ phase = "boot" /\ phase' = "up" /\ sent' = sent
    BY <1>1, IndInvStep DEF Boot, NetInv, Next, initialize_arp_table, net
  <2>2. DefaultInv'
    <3>1. /\ \A s \in Slots : ~Used(s) /\ table[s].ip = ZeroIP
          /\ table \in [Slots -> Entries]
      BY <2>1 DEF NetInv, IndInv, BootInv, DefaultInv, TypeOK, Entries
    <3>2. ASSUME NEW s \in Slots
          PROVE  IF s = Size - 1 THEN table'[s].ip = HostIP /\ table'[s].mac = DefaultMac
                                 ELSE table'[s].ip = ZeroIP
      <4>1. CASE s = Size - 1
        <5>1. table'[s] = Entry(HostIP, DefaultMac, "FREE")
          BY <1>1, <4>1, SizeAssumption DEF Boot, initialize_arp_table, Slots
        <5>. QED
          BY <4>1, <5>1 DEF Entry
      <4>2. CASE s # Size - 1 /\ s = 0
        BY <1>1, <3>1, <4>2 DEF Boot, initialize_arp_table
      <4>3. CASE s # Size - 1 /\ s # 0
        <5>1. table'[s] = [table[s] EXCEPT !.state = "FREE"]
          BY <1>1, <4>3, SizeAssumption DEF Boot, initialize_arp_table, Slots
        <5>. QED
          BY <3>1, <4>3, <5>1 DEF Entries
      <4>. QED
        BY <4>1, <4>2, <4>3
    <3>. QED
      BY <2>1, <3>2 DEF DefaultInv
  <2>. QED
    BY <2>1, <2>2 DEF NetInv, ToLatestAddress
<1>2. ASSUME NEW f \in Frames, NEW ok \in BOOLEAN, eth_recv(f, ok) PROVE NetInv'
  <2>1. CASE ip_recv(f, ok)
    BY <1>2, <2>1, IpStep DEF eth_recv
  <2>2. CASE EthArp(f, ok)
    BY <1>2, <2>2, ArpStep DEF eth_recv
  <2>3. CASE EthOther(f)
    <3>1. UNCHANGED vars /\ sent' = Nothing
      BY <2>3 DEF EthOther, ReplyNone, vars
    <3>. QED
      BY <3>1, SameCache, Zenon DEF NetInv, ToLatestAddress
  <2>. QED
    BY <1>2, <2>1, <2>2, <2>3 DEF eth_recv
<1>3. CASE UNCHANGED netVars
  <2>1. UNCHANGED vars /\ sent' = sent
    BY <1>3 DEF netVars, net
  <2>2. ToLatestAddress' /\ (phase' = "boot" => sent' = Nothing)
    BY <2>1, Zenon DEF NetInv, ToLatestAddress, vars
  <2>. QED
    BY <2>1, <2>2, SameCache, Zenon DEF NetInv
<1>. QED
  BY <1>1, <1>2, <1>3 DEF NetNext

(* The receive loop keeps its inductive invariant.                          *)
THEOREM LoopCorrect == NetSpec => []NetInv
<1>1. NetInit => NetInv
  <2>. SUFFICES ASSUME NetInit PROVE NetInv
    OBVIOUS
  <2>1. IndInv
    BY SizeAssumption DEF NetInit, Init, IndInv, TypeOK, BootInv, UsedPrefix, EntriesFresh,
       ReplyToSender, Used, Entry, AllIPs, AllMacs, States, Slots
  <2>. QED
    BY <2>1 DEF NetInit, Init, NetInv, DefaultInv, ToLatestAddress, Entry
<1>. QED
  BY <1>1, NetInvStep, PTL DEF NetSpec

(* Every frame the machine sends, ARP, echo reply, UDP or TCP, carries the  *)
(* address its destination announced last (eth_send, get_mac_by_ip).        *)
THEOREM SentToLatestAddress == NetSpec => []ToLatestAddress
<1>1. NetInv => ToLatestAddress
  BY DEF NetInv
<1>. QED
  BY <1>1, LoopCorrect, PTL

(* In the whole receive loop, not only in the ARP responder, a lookup       *)
(* returns NULL only when every entry of the table is in use.               *)
THEOREM LoopFaultsOnlyWhenFull == NetSpec => FaultOnlyWhenFull
<1>1. ASSUME NetInv, NetNext, phase # "fault", phase' = "fault"
      PROVE  \A s \in Slots : Used(s)'
  <2>1. PICK f \in Frames, ok \in BOOLEAN : eth_recv(f, ok)
    BY <1>1 DEF NetNext, Boot, initialize_arp_table
  <2>2. CASE ip_recv(f, ok)
    BY <1>1, <2>1, <2>2, IpStep, Zenon DEF eth_recv, ip_recv, Used
  <2>3. CASE EthArp(f, ok)
    <3>1. f.m \in Messages /\ arp_resolve(f.m) /\ IndInv
      BY <1>1, <2>3, FrameFields DEF EthArp, NetInv
    <3>. QED
      BY <1>1, <3>1, ResponderFaultsWhenFull DEF Next
  <2>4. CASE EthOther(f)
    BY <1>1, <2>1, <2>4 DEF EthOther, ReplyNone
  <2>. QED
    BY <2>1, <2>2, <2>3, <2>4 DEF eth_recv
<1>2. NetInv /\ [NetNext]_netVars =>
        [phase # "fault" /\ phase' = "fault" => \A s \in Slots : Used(s)']_vars
  BY <1>1 DEF netVars
<1>. QED
  BY <1>2, LoopCorrect, PTL DEF NetSpec, FaultOnlyWhenFull
=============================================================================

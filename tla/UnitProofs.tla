----------------------------- MODULE UnitProofs -----------------------------
(***************************************************************************)
(* Proofs about three parts that share no state with others: the TCP       *)
(* channels, for every number of sequence numbers, window, set of peers    *)
(* and stream of segments, the test allocator, for every number of         *)
(* threads, size of the arena and sequence of requests, and the mark of    *)
(* the undefined-behaviour sanitizer, for every number of activities.      *)
(***************************************************************************)
EXTENDS Tcp, Alloc, Integers, TLAPS

(* Division by W with remainder.                                            *)
LEMMA DivMod ==
  \A a \in Nat : /\ a \div W \in Nat /\ a % W \in SeqNums
                 /\ a = W * (a \div W) + (a % W)
<1>. TAKE a \in Nat
<1>. USE WAssumption
<1>1. a % W \in 0 .. W - 1
  OBVIOUS
<1>2. a \div W \in Nat
  OBVIOUS
<1>3. a = W * (a \div W) + (a % W)
  OBVIOUS
<1>. QED
  BY <1>1, <1>2, <1>3 DEF SeqNums

(* Multiplication distributes over a difference.                            *)
LEMMA MulDiff ==
  \A x, y, z \in Int : /\ x * y - x * z = x * (y - z)
                        /\ x * y + x * z = x * (y + z)
  OBVIOUS

(* A multiple of a positive number is at least that number.                 *)
LEMMA MulBound ==
  \A x \in Nat, y \in Int : /\ y >= 1 => x * y >= x
                            /\ y <= -1 => x * y <= -x
  OBVIOUS

(* The remainder is unique.                                                 *)
LEMMA ModUnique ==
  ASSUME NEW q \in Nat, NEW r \in SeqNums
  PROVE  (W * q + r) % W = r
<1>. USE WAssumption DEF SeqNums
<1>. DEFINE a == W * q + r
<1>0. W * q \in Nat /\ a \in Nat
  OBVIOUS
<1>1. a \div W \in Nat /\ a % W \in 0 .. W - 1 /\ a = W * (a \div W) + (a % W)
  BY <1>0, DivMod
<1>. HIDE DEF a
<1>. DEFINE d == (a \div W) - q
<1>2. d \in Int /\ W * d = r - (a % W)
  BY <1>1, MulDiff DEF a
<1>. HIDE DEF d
<1>3. d = 0
  <2>1. r \in 0 .. W - 1 /\ a % W \in 0 .. W - 1
    BY <1>1
  <2>2. ~(d >= 1)
    <3>1. d >= 1 => W * d >= W
      BY <1>2, MulBound
    <3>. QED
      BY <3>1, <1>2, <2>1
  <2>3. ~(d <= -1)
    <3>1. d <= -1 => W * d <= -W
      BY <1>2, MulBound
    <3>. QED
      BY <3>1, <1>2, <2>1
  <2>. QED
    BY <1>2, <2>2, <2>3
<1>4. r = a % W
  BY <1>1, <1>2, <1>3
<1>. QED
  BY <1>4 DEF a

(* A number below W is its own remainder.                                   *)
LEMMA SmallMod == \A r \in SeqNums : r % W = r
<1>. TAKE r \in SeqNums
<1>. USE WAssumption
<1>1. (W * 0 + r) % W = r
  BY ModUnique
<1>2. W * 0 + r = r
  BY DEF SeqNums
<1>. QED
  BY <1>1, <1>2

(* Counters that wrap can be advanced in any number of steps.               *)
LEMMA ModAdd ==
  ASSUME NEW a \in Nat, NEW b \in Nat
  PROVE  ((a % W) + b) % W = (a + b) % W
<1>. USE WAssumption
<1>1. a \div W \in Nat /\ a % W \in SeqNums /\ a = W * (a \div W) + (a % W)
  BY DivMod
<1>. DEFINE c == (a % W) + b
<1>2. c \in Nat /\ c \div W \in Nat /\ c % W \in SeqNums /\ c = W * (c \div W) + (c % W)
  BY <1>1, DivMod DEF SeqNums
<1>3. a + b = W * (a \div W) + c
  BY <1>1
<1>4. W * (a \div W) + W * (c \div W) = W * ((a \div W) + (c \div W))
  BY <1>1, <1>2, MulDiff
<1>5. a + b = W * ((a \div W) + (c \div W)) + (c % W)
  BY <1>1, <1>2, <1>3, <1>4
<1>6. (a \div W) + (c \div W) \in Nat
  BY <1>1, <1>2
<1>. DEFINE k == (a \div W) + (c \div W)
            r == c % W
<1>7. k \in Nat /\ r \in SeqNums /\ a + b = W * k + r
  BY <1>2, <1>5, <1>6
<1>. HIDE DEF k, r
<1>8. (W * k + r) % W = r
  BY <1>7, ModUnique
<1>. QED
  BY <1>7, <1>8 DEF r
-----------------------------------------------------------------------------
(* What IndInv says of one channel.                                         *)
ChannelInv(c) ==
  /\ c \in Channel /\ c.state # "CLOSED"
  /\ c.state # "ESTABLISHED" => c.data_len = 0
  /\ c.state \in {"SYN_RECEIVED", "ESTABLISHED"} => c.ack_num = (c.seq_num + c.data_len) % W

(* A call of tcp_process changes one channel.                               *)
LEMMA OneChannel ==
  ASSUME IndInv, phase = "up", phase' = phase, NEW p \in ListenPorts, NEW d,
         ChannelInv(d), vc' = [vc EXCEPT ![p] = d], out' \in Sent \cup {Nothing}
  PROVE  IndInv'
  BY DEF IndInv, TypeOK, EmptyBetweenRequests, AcksMatchData, ChannelInv

(* The types of a channel's fields.                                         *)
LEMMA ChannelFields ==
  \A c \in Channel : /\ c.state \in States /\ c.ip \in IPs /\ c.gport \in GuestPorts
                     /\ c.seq_num \in SeqNums /\ c.ack_num \in SeqNums
                     /\ c.data_len \in 0 .. Window - 1
  BY DEF Channel

(* A change of state, with or without a new acknowledgement number, keeps   *)
(* the type of a channel.                                                   *)
LEMMA StateUpdate ==
  ASSUME NEW c \in Channel, NEW s \in States, NEW y \in SeqNums
  PROVE  LET d == [c EXCEPT !.state = s]
             e == [c EXCEPT !.ack_num = y, !.state = s]
         IN /\ d \in Channel /\ d.state = s /\ d.seq_num = c.seq_num
            /\ d.ack_num = c.ack_num /\ d.data_len = c.data_len
            /\ e \in Channel /\ e.state = s /\ e.data_len = c.data_len
  BY Zenon DEF Channel

(* So does the change after a reply.                                        *)
LEMMA AnswerUpdate ==
  ASSUME NEW c \in Channel, NEW x \in SeqNums
  PROVE  LET d == [c EXCEPT !.seq_num = x, !.data_len = 0, !.state = "CLOSE_WAIT"]
         IN d \in Channel /\ d.state = "CLOSE_WAIT" /\ d.data_len = 0
<1>1. 0 \in 0 .. Window - 1
  BY WindowAssumption
<1>2. "CLOSE_WAIT" \in States
  BY DEF States
<1>. QED
  BY <1>1, <1>2, Zenon DEF Channel

(* tcp_send sends a well-formed segment or nothing.                         *)
LEMMA SendType ==
  ASSUME NEW p \in ListenPorts, NEW c \in Channel, NEW f \in SUBSET {"SYN", "ACK", "PSH", "FIN"},
         NEW n \in Nat, NEW ok \in BOOLEAN, tcp_send(p, c, f, n, ok)
  PROVE  out' \in Sent \cup {Nothing}
  BY DEF tcp_send, Channel, Sent

(* Every call of tcp_process keeps the channels' invariant.                 *)
LEMMA IndInvStep == IndInv /\ [Next]_vars => IndInv'
<1>. SUFFICES ASSUME IndInv, [Next]_vars PROVE IndInv'
  OBVIOUS
<1>1. CASE tcp_init_vc
  <2>1. \A p \in ListenPorts : vc[p].data_len = 0 /\ vc[p] \in Channel
    <3>1. phase = "boot"
      BY <1>1 DEF tcp_init_vc
    <3>2. \A p \in ListenPorts : vc[p].state = "CLOSED"
      BY <3>1 DEF IndInv
    <3>. QED BY <3>2 DEF IndInv, TypeOK, EmptyBetweenRequests
  <2>2. \A p \in ListenPorts : Opened(vc[p]) \in Channel /\ Opened(vc[p]).state = "LISTEN" /\ Opened(vc[p]).data_len = 0
    <3>1. ASSUME NEW p \in ListenPorts
          PROVE  Opened(vc[p]) \in Channel /\ Opened(vc[p]).state = "LISTEN" /\ Opened(vc[p]).data_len = 0
      <4>. DEFINE g == 8080
      <4>1. Opened(vc[p]) = [vc[p] EXCEPT !.state = "LISTEN", !.ip = HostIP, !.gport = g]
            /\ g \in GuestPorts /\ HostIP \in IPs
        BY HostAssumption DEF Opened
      <4>. HIDE DEF g
      <4>. QED
        BY <2>1, <4>1, Zenon DEF Channel, States
    <3>. QED
      BY <3>1
  <2>3. vc' = [p \in ListenPorts |-> Opened(vc[p])]
    BY <1>1 DEF tcp_init_vc
  <2>4. phase' = "up" /\ out' = out
    BY <1>1 DEF tcp_init_vc
  <2>. QED
    BY <2>2, <2>3, <2>4 DEF IndInv, TypeOK, EmptyBetweenRequests, AcksMatchData
<1>2. ASSUME NEW seg \in Segments, NoChannel(seg) PROVE IndInv'
  BY <1>2 DEF NoChannel, IndInv, TypeOK, EmptyBetweenRequests, AcksMatchData
<1>3. ASSUME NEW seg \in Segments, NEW ok \in BOOLEAN, NEW n \in ReplyLens, Process(seg, ok, n)
      PROVE  IndInv'
  <2>. DEFINE p == seg.port
              c == vc[p]
  <2>1. /\ p \in ListenPorts /\ phase = "up" /\ phase' = phase /\ ChannelInv(c)
        /\ seg.seq \in SeqNums /\ seg.ack \in SeqNums /\ seg.len \in Nat /\ n \in Nat
        /\ seg.ip \in IPs /\ seg.sport \in GuestPorts
    <3>1. /\ p \in ListenPorts /\ phase = "up" /\ phase' = phase
      BY <1>3 DEF Process
    <3>2. /\ seg.seq \in SeqNums /\ seg.ack \in SeqNums /\ seg.len \in Nat /\ n \in Nat
          /\ seg.ip \in IPs /\ seg.sport \in GuestPorts
      BY <1>3, LensAssumption, Zenon DEF Segments
    <3>3. ChannelInv(c)
      BY <3>1 DEF IndInv, TypeOK, EmptyBetweenRequests, AcksMatchData, ChannelInv
    <3>. QED
      BY <3>1, <3>2, <3>3
  <2>2. c \in Channel /\ c.seq_num \in SeqNums /\ c.ack_num \in SeqNums /\ c.data_len \in 0 .. Window - 1
    BY <2>1, ChannelFields DEF ChannelInv
  <2>3. CASE Ignore(seg)
    BY <1>3, <2>3 DEF Process, Ignore, IndInv, TypeOK, EmptyBetweenRequests, AcksMatchData
  <2>4. CASE Listen(seg, ok) /\ ~Ignore(seg)
    <3>. DEFINE e == [c EXCEPT !.seq_num = seg.seq, !.ip = seg.ip, !.gport = seg.sport,
                               !.ack_num = (seg.seq + 1) % W]
                d == [e EXCEPT !.seq_num = (e.seq_num + 1) % W, !.state = "SYN_RECEIVED"]
                x == (seg.seq + 1) % W
    <3>1. x \in SeqNums /\ c.data_len = 0
      BY <2>1, <2>4, DivMod DEF SeqNums, Listen, ChannelInv
    <3>2. e \in Channel /\ e.seq_num = seg.seq
      <4>1. e = [c EXCEPT !.seq_num = seg.seq, !.ip = seg.ip, !.gport = seg.sport, !.ack_num = x]
        OBVIOUS
      <4>. HIDE DEF c, x, e
      <4>. QED BY <2>1, <2>2, <3>1, <4>1, Zenon DEF Channel
    <3>3. d \in Channel /\ d.state = "SYN_RECEIVED" /\ d.data_len = 0
          /\ d.ack_num = x /\ d.seq_num = x
      <4>1. d = [e EXCEPT !.seq_num = x, !.state = "SYN_RECEIVED"]
        BY <3>2
      <4>. HIDE DEF c, x
      <4>. QED BY <2>1, <2>2, <3>1, <4>1, ZenonT(60) DEF Channel, States
    <3>4. (d.seq_num + d.data_len) % W = d.seq_num
      <4>1. x % W = x
        BY <3>1, SmallMod
      <4>. HIDE DEF d, x
      <4>. QED BY <3>1, <3>3, <4>1 DEF SeqNums
    <3>5. vc' = [vc EXCEPT ![p] = d] /\ tcp_send_ack(p, e, {"SYN"}, ok)
      BY <2>4 DEF Listen
    <3>6. out' \in Sent \cup {Nothing}
      BY <2>1, <3>2, <3>5, SendType DEF tcp_send_ack
    <3>. HIDE DEF d, p
    <3>. QED
      BY <2>1, <3>3, <3>4, <3>5, <3>6, OneChannel, Zenon DEF ChannelInv
  <2>5. CASE SynReceived(seg) /\ ~Ignore(seg)
    <3>. DEFINE d == [c EXCEPT !.state = "ESTABLISHED"]
    <3>1. vc' = [vc EXCEPT ![p] = d] /\ out' = Nothing /\ c.state = "SYN_RECEIVED"
      BY <2>5 DEF SynReceived
    <3>2. ChannelInv(d)
      <4>1. "ESTABLISHED" \in States
        BY DEF States
      <4>. HIDE DEF c
      <4>. QED BY <2>1, <2>2, <3>1, <4>1, StateUpdate, Zenon DEF ChannelInv
    <3>. HIDE DEF d, p
    <3>. QED
      BY <2>1, <3>1, <3>2, OneChannel, Zenon
  <2>6. CASE Established(seg, ok, n) /\ ~Ignore(seg)
    <3>. DEFINE d == Appended(c, seg)
    <3>1. c.state = "ESTABLISHED" /\ c.data_len + seg.len \in 0 .. Window - 1
      BY <2>1, <2>2, <2>6, WindowAssumption, WAssumption DEF Established, Fits, Ignore
    <3>2. (c.ack_num + seg.len) % W \in SeqNums
      BY <2>1, <2>2, DivMod DEF SeqNums
    <3>3. (c.ack_num + seg.len) % W = (c.seq_num + (c.data_len + seg.len)) % W
      <4>1. c.seq_num + c.data_len \in Nat /\ c.ack_num = (c.seq_num + c.data_len) % W
        BY <2>1, <2>2, <3>1 DEF ChannelInv, SeqNums
      <4>2. (((c.seq_num + c.data_len) % W) + seg.len) % W = ((c.seq_num + c.data_len) + seg.len) % W
        <5>. HIDE DEF c
        <5>. QED BY <4>1, <2>1, ModAdd
      <4>3. (c.seq_num + c.data_len) + seg.len = c.seq_num + (c.data_len + seg.len)
        BY <2>1, <2>2 DEF SeqNums
      <4>. QED
        BY <4>1, <4>2, <4>3
    <3>4. /\ d \in Channel /\ d.state = "ESTABLISHED" /\ d.seq_num = c.seq_num
          /\ d.data_len = c.data_len + seg.len /\ d.ack_num = (c.ack_num + seg.len) % W
      <4>. HIDE DEF c
      <4>. QED BY <2>2, <3>1, <3>2, Zenon DEF Appended, Channel
    <3>5. ChannelInv(d)
      BY <3>3, <3>4 DEF ChannelInv
    <3>. HIDE DEF d, p
    <3>6. CASE tcp_send(p, d, {"ACK", "PSH", "FIN"}, n, ok) /\ vc' = [vc EXCEPT ![p] = IF ok THEN Answered(d, n) ELSE d]
      <4>1. out' \in Sent \cup {Nothing}
        BY <2>1, <3>4, <3>6, SendType
      <4>2. (d.seq_num + n + 1) % W \in SeqNums
        BY <2>1, <2>2, <3>4, DivMod DEF SeqNums
      <4>3. ChannelInv(Answered(d, n))
        BY <3>4, <4>2, AnswerUpdate, Zenon DEF ChannelInv, Answered
      <4>. QED
        BY <2>1, <3>5, <3>6, <4>1, <4>3, OneChannel, Zenon
    <3>7. CASE vc' = [vc EXCEPT ![p] = d] /\ (out' = Nothing \/ tcp_send_ack(p, d, {}, ok))
      <4>1. out' \in Sent \cup {Nothing}
        BY <2>1, <3>4, <3>7, SendType DEF tcp_send_ack
      <4>. QED
        BY <2>1, <3>5, <3>7, <4>1, OneChannel, Zenon
    <3>. QED
      BY <2>6, <3>6, <3>7 DEF Established, d, p
  <2>7. CASE CloseWait(seg, ok) /\ ~Ignore(seg)
    <3>. DEFINE d == [c EXCEPT !.ack_num = (c.ack_num + 1) % W, !.state = "LISTEN"]
    <3>1. vc' = [vc EXCEPT ![p] = d] /\ tcp_send_ack(p, d, {}, ok) /\ c.state = "CLOSE_WAIT"
      BY <2>7 DEF CloseWait
    <3>2. (c.ack_num + 1) % W \in SeqNums
      BY <2>2, DivMod DEF SeqNums
    <3>3. ChannelInv(d) /\ d \in Channel
      <4>1. "LISTEN" \in States
        BY DEF States
      <4>. HIDE DEF c
      <4>. QED BY <2>1, <2>2, <3>1, <3>2, <4>1, Zenon DEF ChannelInv, Channel
    <3>4. out' \in Sent \cup {Nothing}
      BY <2>1, <3>1, <3>3, SendType DEF tcp_send_ack
    <3>. HIDE DEF d, p
    <3>. QED
      BY <2>1, <3>1, <3>3, <3>4, OneChannel, Zenon
  <2>. QED
    BY <1>3, <2>3, <2>4, <2>5, <2>6, <2>7 DEF Process
<1>4. CASE UNCHANGED vars
  BY <1>4 DEF vars, IndInv, TypeOK, EmptyBetweenRequests, AcksMatchData
<1>. QED
  BY <1>1, <1>2, <1>3, <1>4 DEF Next, tcp_process

(* Fresh channels satisfy the invariant.                                    *)
LEMMA IndInvInit == Init => IndInv
<1>. SUFFICES ASSUME Init PROVE IndInv
  OBVIOUS
<1>1. 0 \in SeqNums /\ 0 \in 0 .. Window - 1
  BY WAssumption, WindowAssumption DEF SeqNums
<1>. DEFINE g == 8080
            z == 0
            c == [state |-> "CLOSED", ip |-> HostIP, gport |-> g,
                  seq_num |-> z, ack_num |-> z, data_len |-> z]
<1>2. vc = [p \in ListenPorts |-> c] /\ out = Nothing /\ phase = "boot"
  BY DEF Init
<1>3. g \in GuestPorts /\ HostIP \in IPs /\ z = 0
  BY HostAssumption
<1>. HIDE DEF g, z
<1>4. c \in Channel /\ c.state = "CLOSED" /\ c.data_len = 0
  BY <1>1, <1>3 DEF Channel, States
<1>. HIDE DEF c
<1>. QED
  BY <1>2, <1>4 DEF IndInv, TypeOK, EmptyBetweenRequests, AcksMatchData

(* The channels keep IndInv for every stream of segments.                   *)
THEOREM ChannelsCorrect == Spec => []IndInv
  BY IndInvInit, IndInvStep, PTL DEF Spec

(* The collected data never outgrows the buffer (the check before memcpy in *)
(* ESTABLISHED).                                                            *)
THEOREM TypeCorrect == Spec => []TypeOK
<1>1. IndInv => TypeOK
  BY DEF IndInv
<1>. QED
  BY <1>1, ChannelsCorrect, PTL

(* No connection starts with bytes of an earlier one in its request.        *)
THEOREM RequestsStartEmpty == Spec => []EmptyBetweenRequests
<1>1. IndInv => EmptyBetweenRequests
  BY DEF IndInv
<1>. QED
  BY <1>1, ChannelsCorrect, PTL

(* The acknowledgement number always stands for exactly the bytes in the    *)
(* buffer, whatever the width of sequence numbers.                          *)
THEOREM AcksExact == Spec => []AcksMatchData
<1>1. IndInv => AcksMatchData
  BY DEF IndInv
<1>. QED
  BY <1>1, ChannelsCorrect, PTL

-----------------------------------------------------------------------------
(* The test allocator.                                                      *)

(* What the shape of the list says of single blocks.                        *)
LEMMA ListFacts ==
  ASSUME HeapTypeOK, Chained
  PROVE  /\ \A a \in List : a \in Nat /\ next[a] \in List /\ prev[a] \in List
         /\ \A a \in List : prev[next[a]] = a /\ next[prev[a]] = a
         /\ \A a \in List : next[a] = base \/ a < next[a]
         /\ \A a \in List, c \in Free : c <= a \/ (next[a] # base /\ next[a] <= c)
         /\ DOMAIN next = List /\ DOMAIN prev = List /\ base \in List
<1>1. \A a \in List : a \in Nat
  <2>1. \A a \in List : prev[a] \in List /\ next[prev[a]] \in Nat /\ next[prev[a]] = a
    BY DEF HeapTypeOK, Chained
  <2>. QED
    BY <2>1
<1>. QED
  BY <1>1 DEF HeapTypeOK, Chained, Follows, List

(* What the tiling says of single blocks.                                   *)
LEMMA BlockFacts ==
  ASSUME HeapTypeOK, Tiled
  PROVE  /\ \A a \in DOMAIN size : a \in Nat /\ size[a] \in Nat
         /\ \A a \in AllBlocks : a \in DOMAIN size /\ a # base
         /\ \A a \in AllBlocks : size[a] > 0 /\ space <= a
         /\ base \in DOMAIN size /\ size[base] = 0
BY DEF HeapTypeOK, Tiled, AllBlocks

(* The neighbours of a free block are other blocks, and no other blocks     *)
(* have it as a neighbour.                                                  *)
LEMMA Neighbours ==
  ASSUME HeapTypeOK, Chained, NEW p \in Free
  PROVE  /\ prev[p] # p /\ next[p] # p /\ prev[p] < p
         /\ next[p] = base \/ p < next[p]
         /\ \A a \in List : next[a] = p => a = prev[p]
         /\ \A a \in List : prev[a] = p => a = next[p]
<1>1. p \in List /\ p # base /\ p \in Nat
  BY ListFacts DEF Free
<1>2. prev[p] \in List /\ next[prev[p]] = p /\ (next[prev[p]] = base \/ prev[p] < next[prev[p]])
  BY <1>1, ListFacts, Zenon
<1>3. next[p] \in List /\ (next[p] = base \/ p < next[p])
  BY <1>1, ListFacts, Zenon
<1>4. prev[p] < p /\ prev[p] \in Nat /\ next[p] \in Nat
  BY <1>1, <1>2, <1>3, ListFacts, Zenon
<1>. QED
  BY <1>1, <1>2, <1>3, <1>4, ListFacts

-----------------------------------------------------------------------------
(* The list.                                                                *)

(* p is taken out of the list.                                              *)
Removes(p) ==
  /\ next' = Without(With(next, prev[p], next[p]), p)
  /\ prev' = Without(With(prev, next[p], prev[p]), p)

(* Taking out a block keeps the list sorted (test_alloc, test_free).        *)
LEMMA RemoveKeepsChain ==
  ASSUME HeapTypeOK, Chained, NEW p \in Free, Removes(p), freep' = prev[p]
  PROVE  /\ Chained' /\ List' = List \ {p}
         /\ next' \in [List' -> Nat] /\ prev' \in [List' -> Nat]
<1>. DEFINE q == prev[p]
            n == next[p]
<1>1. /\ q \in List /\ n \in List /\ q # p /\ n # p /\ next[q] = p /\ prev[n] = p
      /\ p \in List /\ p # base /\ base \in List
  BY ListFacts, Neighbours DEF Free
<1>2. List' = List \ {p} /\ DOMAIN next' = List \ {p} /\ DOMAIN prev' = List \ {p}
  BY <1>1, ListFacts DEF Removes, With, Without, List
<1>3. \A a \in List \ {p} : next'[a] = IF a = q THEN n ELSE next[a]
  BY <1>1, ListFacts DEF Removes, With, Without, List
<1>4. \A a \in List \ {p} : prev'[a] = IF a = n THEN q ELSE prev[a]
  BY <1>1, ListFacts DEF Removes, With, Without, List
<1>5. Free' = Free \ {p}
  BY <1>2, Zenon DEF Free
<1>6. \A a \in List \ {p} : next'[a] \in List \ {p} /\ prev'[a] \in List \ {p}
  BY <1>1, <1>3, <1>4, ListFacts, Neighbours
<1>7. ASSUME NEW a \in List \ {p}
      PROVE  prev'[next'[a]] = a /\ next'[prev'[a]] = a
  BY <1>1, <1>3, <1>4, <1>6, ListFacts, Neighbours
<1>8. ASSUME NEW a \in List \ {p}
      PROVE  Follows(a, next[a])'
  <2>1. \A c \in Free \ {p} : c <= a \/ (next'[a] # base /\ next'[a] <= c)
    <3>1. CASE a # q
      BY <1>3, <3>1, ListFacts
    <3>2. CASE a = q
      <4>. SUFFICES ASSUME NEW c \in Free \ {p}, ~(c <= q)
           PROVE  n # base /\ n <= c
        BY <1>3, <3>2
      <4>1. c \in Nat /\ q \in Nat /\ p \in Nat /\ n \in Nat
        BY <1>1, ListFacts DEF Free
      <4>2. p <= c
        BY <1>1, <4>1, ListFacts
      <4>3. ~(c <= p)
        BY <4>1, <4>2
      <4>. QED
        BY <1>1, <4>3, ListFacts
    <3>. QED
      BY <3>1, <3>2
  <2>2. next'[a] = base \/ a < next'[a]
    <3>1. CASE a # q
      BY <1>3, <3>1, ListFacts
    <3>2. CASE a = q
      <4>1. n \in Nat /\ q \in Nat /\ p \in Nat
        BY <1>1, ListFacts
      <4>. QED
        BY <1>1, <1>3, <3>2, <4>1, Neighbours
    <3>. QED
      BY <3>1, <3>2
  <2>. QED
    BY <1>5, <2>1, <2>2, Zenon DEF Follows
<1>9. Chained'
  BY <1>1, <1>2, <1>6, <1>7, <1>8 DEF Chained
<1>. QED
  BY <1>2, <1>6, <1>9, ListFacts DEF Removes, With, Without

(* p and n = next[p] are neighbours with b between them.                    *)
Between(p, b, n) ==
  /\ p \in List /\ n = next[p] /\ b \in Nat /\ b \notin List
  /\ p < b /\ (n = base \/ b < n)

(* Putting b between its neighbours keeps the list sorted (test_free).      *)
LEMMA InsertKeepsChain ==
  ASSUME HeapTypeOK, Chained, NEW p, NEW b, NEW n, Between(p, b, n),
         next' = With(With(next, b, n), p, b), prev' = With(With(prev, b, p), n, b), freep' = p
  PROVE  /\ Chained' /\ List' = List \cup {b}
         /\ next' \in [List' -> Nat] /\ prev' \in [List' -> Nat]
<1>1. /\ p \in List /\ n \in List /\ n = next[p] /\ prev[n] = p /\ base \in List
      /\ p \in Nat /\ n \in Nat /\ b \in Nat /\ b \notin List /\ p < b /\ (n = base \/ b < n)
  BY ListFacts DEF Between
<1>2. List' = List \cup {b} /\ DOMAIN next' = List \cup {b} /\ DOMAIN prev' = List \cup {b}
  BY <1>1, ListFacts DEF With, List
<1>3. next'[b] = n /\ \A a \in List : next'[a] = IF a = p THEN b ELSE next[a]
  BY <1>1, ListFacts DEF With, List
<1>4. prev'[b] = p /\ \A a \in List : prev'[a] = IF a = n THEN b ELSE prev[a]
  BY <1>1, ListFacts DEF With, List
<1>5. Free' = Free \cup {b}
  BY <1>1, <1>2 DEF Free, base
<1>6. \A a \in List \cup {b} : next'[a] \in List \cup {b} /\ prev'[a] \in List \cup {b}
  BY <1>1, <1>3, <1>4, ListFacts
<1>7. ASSUME NEW a \in List \cup {b}
      PROVE  prev'[next'[a]] = a /\ next'[prev'[a]] = a
  <2>1. CASE a = b
    BY <1>1, <1>3, <1>4, <2>1
  <2>2. CASE a # b
    <3>1. a \in List /\ next[a] \in List /\ prev[a] \in List /\ prev[next[a]] = a /\ next[prev[a]] = a
      BY <2>2, ListFacts
    <3>2. prev'[next'[a]] = a
      <4>1. CASE a = p
        BY <1>1, <1>3, <1>4, <4>1, Zenon
      <4>2. CASE a # p
        <5>1. next'[a] = next[a] /\ next[a] # n
          BY <1>1, <1>3, <3>1, <4>2, Zenon
        <5>2. prev'[next[a]] = prev[next[a]]
          BY <1>4, <3>1, <5>1, Zenon
        <5>. QED
          BY <3>1, <5>1, <5>2, Zenon
      <4>. QED
        BY <4>1, <4>2, Zenon
    <3>3. next'[prev'[a]] = a
      <4>1. CASE a = n
        BY <1>1, <1>3, <1>4, <4>1, Zenon
      <4>2. CASE a # n
        <5>1. prev'[a] = prev[a] /\ prev[a] # p
          BY <1>1, <1>4, <3>1, <4>2, Zenon
        <5>2. next'[prev[a]] = next[prev[a]]
          BY <1>3, <3>1, <5>1, Zenon
        <5>. QED
          BY <3>1, <5>1, <5>2, Zenon
      <4>. QED
        BY <4>1, <4>2, Zenon
    <3>. QED
      BY <3>2, <3>3
  <2>. QED
    BY <2>1, <2>2
<1>8. ASSUME NEW a \in List \cup {b}
      PROVE  Follows(a, next[a])'
  <2>1. ASSUME NEW c \in Free \cup {b}
        PROVE  c <= a \/ (next'[a] # base /\ next'[a] <= c)
    <3>1. \A d \in Free : d \in Nat /\ d \in List
      BY ListFacts DEF Free
    <3>2. CASE c = b
      <4>1. CASE a = p \/ a = b
        BY <1>1, <1>3, <3>2, <4>1
      <4>2. CASE a # p /\ a # b
        <5>1. a \in List /\ a \in Nat /\ next'[a] = next[a] /\ next[a] # n /\ next[a] \in Nat
          BY <1>1, <1>3, <4>2, ListFacts, Zenon
        <5>2. CASE a = base
          BY <1>1, <3>2, <4>2, <5>1, <5>2, ListFacts DEF Free
        <5>3. CASE a # base /\ a < b
          <6>1. a <= p
            BY <1>1, <4>2, <5>1, <5>3, ListFacts DEF Free
          <6>2. p # base /\ next[a] # base /\ next[a] <= p
            BY <1>1, <4>2, <5>1, <5>3, <6>1, ListFacts DEF Free, base
          <6>. QED
            BY <1>1, <3>2, <5>1, <6>2
        <5>. QED
          BY <1>1, <3>2, <4>2, <5>1, <5>2, <5>3
      <4>. QED
        BY <4>1, <4>2
    <3>3. CASE c # b /\ a = p
      BY <1>1, <1>3, <2>1, <3>1, <3>3, ListFacts
    <3>4. CASE c # b /\ a = b
      BY <1>1, <1>3, <2>1, <3>1, <3>4, ListFacts
    <3>5. CASE c # b /\ a # b /\ a # p
      BY <1>3, <2>1, <3>5, ListFacts
    <3>. QED
      BY <3>2, <3>3, <3>4, <3>5
  <2>2. next'[a] = base \/ a < next'[a]
    BY <1>1, <1>3, ListFacts
  <2>. QED
    BY <1>5, <2>1, <2>2, Zenon DEF Follows
<1>9. Chained'
  BY <1>1, <1>2, <1>6, <1>7, <1>8 DEF Chained
<1>. QED
  BY <1>1, <1>2, <1>6, <1>9, ListFacts, Zenon DEF With

(* So does putting it in the place of the upper one (test_free).            *)
LEMMA ReplaceKeepsChain ==
  ASSUME HeapTypeOK, Chained, NEW p, NEW b, NEW n \in Free, Between(p, b, n),
         next' = Without(With(With(next, b, next[n]), p, b), n),
         prev' = Without(With(With(prev, b, prev[n]), next[n], b), n), freep' = p
  PROVE  /\ Chained' /\ List' = (List \ {n}) \cup {b}
         /\ next' \in [List' -> Nat] /\ prev' \in [List' -> Nat]
<1>. DEFINE m == next[n]
            L == (List \ {n}) \cup {b}
<1>1. /\ p \in List /\ n \in List /\ n = next[p] /\ prev[n] = p /\ base \in List /\ n # base
      /\ p \in Nat /\ n \in Nat /\ b \in Nat /\ b \notin List /\ p < b /\ b < n
      /\ m \in List /\ m \in Nat /\ m # n /\ prev[m] = n /\ (m = base \/ n < m)
  BY ListFacts, Neighbours DEF Between, Free
<1>2. List' = L /\ DOMAIN next' = L /\ DOMAIN prev' = L
  BY <1>1, ListFacts DEF With, Without, List
<1>3. next'[b] = m /\ \A a \in List \ {n} : next'[a] = IF a = p THEN b ELSE next[a]
  BY <1>1, ListFacts, Zenon DEF With, Without, List
<1>4. prev'[b] = p /\ \A a \in List \ {n} : prev'[a] = IF a = m THEN b ELSE prev[a]
  BY <1>1, ListFacts, Zenon DEF With, Without, List
<1>5. Free' = (Free \ {n}) \cup {b}
  BY <1>1, <1>2 DEF Free, base
<1>6. \A a \in L : next'[a] \in L /\ prev'[a] \in L
  BY <1>1, <1>3, <1>4, ListFacts, Neighbours
<1>7. ASSUME NEW a \in L
      PROVE  prev'[next'[a]] = a /\ next'[prev'[a]] = a
  <2>1. CASE a = b
    BY <1>1, <1>3, <1>4, <2>1, Zenon
  <2>2. CASE a # b
    <3>1. /\ a \in List \ {n} /\ next[a] \in List /\ prev[a] \in List
          /\ prev[next[a]] = a /\ next[prev[a]] = a
      BY <2>2, ListFacts
    <3>2. prev'[next'[a]] = a
      <4>1. CASE a = p
        BY <1>1, <1>3, <1>4, <4>1, Zenon
      <4>2. CASE a # p
        <5>1. next'[a] = next[a] /\ next[a] # m /\ next[a] # n
          BY <1>1, <1>3, <3>1, <4>2, Zenon
        <5>2. prev'[next[a]] = prev[next[a]]
          BY <1>4, <3>1, <5>1, Zenon
        <5>. QED
          BY <3>1, <5>1, <5>2, Zenon
      <4>. QED
        BY <4>1, <4>2, Zenon
    <3>3. next'[prev'[a]] = a
      <4>1. CASE a = m
        BY <1>1, <1>3, <1>4, <4>1, Zenon
      <4>2. CASE a # m
        <5>1. prev'[a] = prev[a] /\ prev[a] # p /\ prev[a] # n
          BY <1>1, <1>4, <3>1, <4>2, Zenon
        <5>2. next'[prev[a]] = next[prev[a]]
          BY <1>3, <3>1, <5>1, Zenon
        <5>. QED
          BY <3>1, <5>1, <5>2, Zenon
      <4>. QED
        BY <4>1, <4>2, Zenon
    <3>. QED
      BY <3>2, <3>3
  <2>. QED
    BY <2>1, <2>2, Zenon
<1>8. ASSUME NEW a \in L
      PROVE  Follows(a, next[a])'
  <2>1. ASSUME NEW c \in (Free \ {n}) \cup {b}
        PROVE  c <= a \/ (next'[a] # base /\ next'[a] <= c)
    <3>1. \A d \in Free : d \in Nat /\ d \in List
      BY ListFacts DEF Free
    <3>2. CASE c = b
      <4>1. CASE a = p \/ a = b
        BY <1>1, <1>3, <3>2, <4>1 DEF base
      <4>2. CASE a # p /\ a # b
        <5>1. a \in List /\ a \in Nat /\ next'[a] = next[a] /\ next[a] # n /\ next[a] \in Nat
          BY <1>1, <1>3, <4>2, ListFacts, Zenon
        <5>2. n <= a \/ (next[a] # base /\ next[a] <= n)
          BY <5>1, ListFacts
        <5>3. CASE n <= a
          BY <1>1, <3>2, <5>1, <5>3
        <5>4. CASE next[a] # base /\ next[a] < n /\ ~(n <= a)
          <6>1. next[a] <= p
            BY <1>1, <5>1, <5>4, ListFacts DEF Free
          <6>. QED
            BY <1>1, <3>2, <5>1, <5>4, <6>1
        <5>. QED
          BY <1>1, <5>1, <5>2, <5>3, <5>4
      <4>. QED
        BY <4>1, <4>2
    <3>3. CASE c # b /\ a = p
      BY <1>1, <1>3, <2>1, <3>1, <3>3, ListFacts DEF base
    <3>4. CASE c # b /\ a = b
      <4>1. c \in Free /\ c # n /\ c \in Nat
        BY <2>1, <3>1, <3>4
      <4>2. CASE c <= p
        BY <1>1, <3>4, <4>1, <4>2
      <4>3. CASE ~(c <= p)
        <5>1. n <= c
          BY <1>1, <4>1, <4>3, ListFacts
        <5>2. ~(c <= n)
          BY <1>1, <4>1, <5>1
        <5>. QED
          BY <1>1, <1>3, <3>4, <4>1, <5>2, ListFacts
      <4>. QED
        BY <4>2, <4>3
    <3>5. CASE c # b /\ a # b /\ a # p
      BY <1>3, <2>1, <3>5, ListFacts
    <3>. QED
      BY <3>2, <3>3, <3>4, <3>5
  <2>2. next'[a] = base \/ a < next'[a]
    BY <1>1, <1>3, ListFacts
  <2>. QED
    BY <1>5, <2>1, <2>2, Zenon DEF Follows
<1>9. Chained'
  BY <1>1, <1>2, <1>6, <1>7, <1>8, Zenon DEF Chained, base
<1>. QED
  BY <1>1, <1>2, <1>6, <1>9, ListFacts, Zenon DEF With, Without

-----------------------------------------------------------------------------
(* The tiling of the arena.                                                 *)

(* Cutting the tail off a block.                                            *)
LEMMA SplitKeepsTiles ==
  ASSUME HeapTypeOK, Tiled, NEW p \in AllBlocks, NEW n \in Nat, 0 < n, n < size[p], Split(p, n)
  PROVE  /\ Tiled' /\ size' \in [DOMAIN size' -> Nat] /\ DOMAIN size' \subseteq Nat
         /\ p + size[p] - n \notin DOMAIN size /\ DOMAIN size' = DOMAIN size \cup {p + size[p] - n}
         /\ size'[p] = size[p] - n /\ \A a \in DOMAIN size : a # p => size'[a] = size[a]
<1>. DEFINE q == p + size[p] - n
<1>1. p \in Nat /\ size[p] \in Nat /\ q \in Nat /\ p < q /\ q < p + size[p] /\ p \in DOMAIN size
  BY BlockFacts
<1>2. q \notin DOMAIN size /\ q # base
  BY <1>1, BlockFacts DEF Tiled, AllBlocks, base
<1>3. DOMAIN size' = DOMAIN size \cup {q}
  BY <1>1 DEF Split, With
<1>4. /\ size'[p] = size[p] - n /\ size'[q] = n
      /\ \A a \in DOMAIN size : a # p => size'[a] = size[a]
  BY <1>1, <1>2 DEF Split, With
<1>5. AllBlocks' = AllBlocks \cup {q}
  BY <1>2, <1>3 DEF AllBlocks
<1>6. Tiled'
  <2>1. base \in DOMAIN size' /\ size'[base] = 0
    BY <1>3, <1>4, BlockFacts
  <2>2. ASSUME NEW a \in AllBlocks \cup {q}
        PROVE  size'[a] > 0 /\ space <= a /\ a + size'[a] <= space + SpaceUnits - 1
    BY <1>1, <1>4, BlockFacts, HeapAssumption DEF Tiled, space
  <2>3. ASSUME NEW a \in AllBlocks \cup {q}, NEW b \in AllBlocks \cup {q}, a < b
        PROVE  a + size'[a] <= b
    <3>1. \A c \in AllBlocks : c \in Nat /\ size[c] \in Nat /\ c \in DOMAIN size
      BY BlockFacts
    <3>2. CASE a = q
      <4>1. b \in AllBlocks /\ p < b
        BY <1>1, <2>3, <3>1, <3>2
      <4>2. p + size[p] <= b
        BY <1>1, <4>1 DEF Tiled
      <4>. QED
        BY <1>1, <1>4, <3>2, <4>2
    <3>3. CASE a # q /\ b = q
      <4>1. CASE a = p
        BY <1>1, <1>4, <3>3, <4>1
      <4>2. CASE a < p
        BY <1>1, <1>4, <3>1, <3>3, <4>2 DEF Tiled
      <4>3. CASE a > p
        BY <1>1, <2>3, <3>1, <3>3, <4>3 DEF Tiled
      <4>. QED
        BY <1>1, <3>1, <3>3, <4>1, <4>2, <4>3
    <3>4. CASE a # q /\ b # q
      BY <1>1, <1>4, <2>3, <3>1, <3>4 DEF Tiled
    <3>. QED
      BY <3>2, <3>3, <3>4
  <2>4. ASSUME NEW x \in Arena
        PROVE  \E a \in AllBlocks \cup {q} : a <= x /\ x < a + size'[a]
    <3>1. PICK a \in AllBlocks : a <= x /\ x < a + size[a]
      BY DEF Tiled
    <3>2. a \in DOMAIN size /\ a \in Nat /\ size[a] \in Nat /\ x \in Int
      BY BlockFacts, HeapAssumption DEF Arena, space
    <3>3. CASE a # p
      BY <1>4, <3>1, <3>2, <3>3
    <3>4. CASE a = p /\ x < q
      BY <1>1, <1>4, <3>1, <3>2, <3>4
    <3>5. CASE a = p /\ ~(x < q)
      BY <1>1, <1>4, <3>1, <3>2, <3>5
    <3>. QED
      BY <3>3, <3>4, <3>5
  <2>. QED
    BY <1>5, <2>1, <2>2, <2>3, <2>4, Zenon DEF Tiled, Arena
<1>. QED
  BY <1>1, <1>2, <1>3, <1>4, <1>6, BlockFacts DEF Split, With

(* Joining a block to the one that begins where it ends.                    *)
LEMMA JoinKeepsTiles ==
  ASSUME HeapTypeOK, Tiled, NEW l \in AllBlocks, NEW h \in AllBlocks, h = l + size[l],
         size' = Without(With(size, l, size[l] + size[h]), h)
  PROVE  /\ Tiled' /\ size' \in [DOMAIN size' -> Nat] /\ DOMAIN size' \subseteq Nat
         /\ DOMAIN size' = DOMAIN size \ {h}
         /\ size'[l] = size[l] + size[h] /\ \A a \in DOMAIN size : a \notin {l, h} => size'[a] = size[a]
<1>1. /\ l \in Nat /\ size[l] \in Nat /\ h \in Nat /\ size[h] \in Nat /\ l < h /\ size[h] > 0
      /\ l \in DOMAIN size /\ h \in DOMAIN size /\ l # base /\ h # base
  BY BlockFacts
<1>3. DOMAIN size' = DOMAIN size \ {h}
  BY <1>1 DEF Without, With
<1>4. /\ size'[l] = size[l] + size[h]
      /\ \A a \in DOMAIN size : a \notin {l, h} => size'[a] = size[a]
  BY <1>1 DEF Without, With
<1>5. AllBlocks' = AllBlocks \ {h}
  BY <1>1, <1>3 DEF AllBlocks
<1>6. Tiled'
  <2>0. \A c \in AllBlocks : c \in Nat /\ size[c] \in Nat /\ c \in DOMAIN size
    BY BlockFacts
  <2>1. base \in DOMAIN size' /\ size'[base] = 0
    BY <1>1, <1>3, <1>4, BlockFacts
  <2>2. ASSUME NEW a \in AllBlocks \ {h}
        PROVE  size'[a] > 0 /\ space <= a /\ a + size'[a] <= space + SpaceUnits - 1
    BY <1>1, <1>4, <2>0, HeapAssumption DEF Tiled, space
  <2>3. ASSUME NEW a \in AllBlocks \ {h}, NEW b \in AllBlocks \ {h}, a < b
        PROVE  a + size'[a] <= b
    <3>1. CASE a = l
      <4>1. h <= b /\ h # b
        BY <1>1, <2>0, <2>3, <3>1 DEF Tiled
      <4>2. h + size[h] <= b
        BY <1>1, <2>0, <4>1 DEF Tiled
      <4>. QED
        BY <1>1, <1>4, <2>0, <3>1, <4>2
    <3>2. CASE a # l
      BY <1>1, <1>4, <2>0, <2>3, <3>2 DEF Tiled
    <3>. QED
      BY <3>1, <3>2
  <2>4. ASSUME NEW x \in Arena
        PROVE  \E a \in AllBlocks \ {h} : a <= x /\ x < a + size'[a]
    <3>1. PICK a \in AllBlocks : a <= x /\ x < a + size[a]
      BY DEF Tiled
    <3>2. x \in Int
      BY HeapAssumption DEF Arena, space
    <3>3. CASE a \in {l, h}
      <4>1. l <= x /\ x < l + size'[l]
        BY <1>1, <1>4, <3>1, <3>2, <3>3
      <4>. QED
        BY <1>1, <4>1
    <3>4. CASE a \notin {l, h}
      BY <1>4, <2>0, <3>1, <3>4
    <3>. QED
      BY <3>3, <3>4
  <2>. QED
    BY <1>5, <2>1, <2>2, <2>3, <2>4, Zenon DEF Tiled, Arena
<1>. QED
  BY <1>1, <1>3, <1>4, <1>6, BlockFacts DEF Without, With

(* Three blocks in a row become one.                                        *)
JoinsThree(p, b, n) ==
  /\ b = p + size[p] /\ n = b + size[b]
  /\ size' = Without(Without(With(size, p, size[p] + size[b] + size[n]), b), n)

ThreeJoined(p, b, n) ==
  /\ Tiled' /\ size' \in [DOMAIN size' -> Nat] /\ DOMAIN size' \subseteq Nat
  /\ DOMAIN size' = DOMAIN size \ {b, n}
  /\ size'[p] = size[p] + size[b] + size[n]
  /\ \A a \in DOMAIN size : a \notin {p, b, n} => size'[a] = size[a]

(* Joining a block to both its neighbours.                                  *)
LEMMA JoinBothKeepsTiles ==
  ASSUME HeapTypeOK, Tiled, NEW p \in AllBlocks, NEW b \in AllBlocks, NEW n \in AllBlocks,
         JoinsThree(p, b, n)
  PROVE  ThreeJoined(p, b, n)
<1>0. /\ b = p + size[p] /\ n = b + size[b]
      /\ size' = Without(Without(With(size, p, size[p] + size[b] + size[n]), b), n)
  BY Zenon DEF JoinsThree
<1>1. /\ p \in Nat /\ size[p] \in Nat /\ b \in Nat /\ size[b] \in Nat /\ n \in Nat /\ size[n] \in Nat
      /\ p < b /\ b < n /\ size[n] > 0 /\ p \in DOMAIN size /\ p # base /\ b # base /\ n # base
  BY <1>0, BlockFacts
<1>3. DOMAIN size' = DOMAIN size \ {b, n}
  BY <1>0, <1>1, Zenon DEF Without, With
<1>4. /\ size'[p] = size[p] + size[b] + size[n]
      /\ \A a \in DOMAIN size : a \notin {p, b, n} => size'[a] = size[a]
  BY <1>0, <1>1 DEF Without, With
<1>5. AllBlocks' = AllBlocks \ {b, n}
  BY <1>1, <1>3 DEF AllBlocks
<1>6. Tiled'
  <2>0. \A c \in AllBlocks : c \in Nat /\ size[c] \in Nat /\ c \in DOMAIN size
    BY BlockFacts
  <2>1. base \in DOMAIN size' /\ size'[base] = 0
    BY <1>1, <1>3, <1>4, BlockFacts
  <2>2. ASSUME NEW a \in AllBlocks \ {b, n}
        PROVE  size'[a] > 0 /\ space <= a /\ a + size'[a] <= space + SpaceUnits - 1
    BY <1>0, <1>1, <1>4, <2>0, HeapAssumption DEF Tiled, space
  <2>3. ASSUME NEW a \in AllBlocks \ {b, n}, NEW c \in AllBlocks \ {b, n}, a < c
        PROVE  a + size'[a] <= c
    <3>1. CASE a = p
      <4>1. b <= c /\ b # c
        BY <1>0, <1>1, <2>0, <2>3, <3>1 DEF Tiled
      <4>2. n <= c /\ n # c
        BY <1>0, <1>1, <2>0, <2>3, <4>1 DEF Tiled
      <4>3. n + size[n] <= c
        BY <1>1, <2>0, <4>2 DEF Tiled
      <4>. QED
        BY <1>0, <1>1, <1>4, <2>0, <3>1, <4>3
    <3>2. CASE a # p
      BY <1>1, <1>4, <2>0, <2>3, <3>2 DEF Tiled
    <3>. QED
      BY <3>1, <3>2
  <2>4. ASSUME NEW x \in Arena
        PROVE  \E a \in AllBlocks \ {b, n} : a <= x /\ x < a + size'[a]
    <3>1. PICK a \in AllBlocks : a <= x /\ x < a + size[a]
      BY DEF Tiled
    <3>2. x \in Int
      BY HeapAssumption DEF Arena, space
    <3>3. CASE a \in {p, b, n}
      <4>1. p <= x /\ x < p + size'[p]
        BY <1>0, <1>1, <1>4, <3>1, <3>2, <3>3
      <4>. QED
        BY <1>1, <4>1
    <3>4. CASE a \notin {p, b, n}
      BY <1>4, <2>0, <3>1, <3>4, Zenon
    <3>. QED
      BY <3>3, <3>4, Zenon
  <2>. QED
    BY ONLY <1>5, <2>1, <2>2, <2>3, <2>4 DEF Tiled, Arena
<1>7. size' \in [DOMAIN size' -> Nat] /\ DOMAIN size' \subseteq Nat
  <2>1. size' = [x \in DOMAIN size' |-> size'[x]]
    BY <1>0, Zenon DEF Without
  <2>2. \A a \in DOMAIN size' : size'[a] \in Nat
    BY ONLY <1>1, <1>3, <1>4, HeapTypeOK DEF HeapTypeOK
  <2>3. DOMAIN size' \subseteq Nat
    BY ONLY <1>3, HeapTypeOK DEF HeapTypeOK
  <2>. QED
    BY ONLY <2>1, <2>2, <2>3
<1>. QED
  BY <1>3, <1>4, <1>6, <1>7, Zenon DEF ThreeJoined

-----------------------------------------------------------------------------
(* The steps of the threads.                                                *)

(* The heap once the allocator is in use.                                   *)
Exact == Tiled /\ Chained /\ Apart

(* No block begins at NULL.                                                 *)
LEMMA NotNull ==
  ASSUME HeapTypeOK, Exact
  PROVE  NULL \notin List
BY BlockFacts DEF Exact, Apart, AllBlocks, NULL, space, base

(* Only one thread is between spin_lock and spin_unlock.                    *)
LEMMA OthersIdle ==
  ASSUME LockInv, NEW t \in Threads, pc[t] # "idle"
  PROVE  \A u \in Threads : u # t => pc[u] = "idle"
BY DEF LockInv

(* The thread that unlocks leaves every thread outside.                     *)
LEMMA UnlockStep ==
  ASSUME HeapTypeOK, LockInv, NEW t \in Threads, pc[t] # "idle", spin_unlock(t)
  PROVE  /\ LockInv' /\ \A u \in Threads : SearchInv(u)'
         /\ locked' \in BOOLEAN /\ pc' \in [Threads -> {"idle", "alloc", "fit", "place"}]
         /\ arg' \in [Threads -> Nat] /\ cur' \in [Threads -> Nat]
<1>1. \A u \in Threads : pc'[u] = "idle"
  BY OthersIdle DEF spin_unlock, Goto, HeapTypeOK
<1>2. LockInv' /\ \A u \in Threads : SearchInv(u)'
  BY <1>1 DEF LockInv, SearchInv
<1>. QED
  BY <1>2, Zenon DEF spin_unlock, Goto, HeapTypeOK, NULL

(* A thread that moves on inside the lock, with the heap as it was.         *)
LEMMA InsideStep ==
  ASSUME HeapInv, NEW t \in Threads, pc[t] # "idle", UNCHANGED <<heap, freep, locked, arg>>,
         NEW w \in {"alloc", "fit", "place"}, Goto(t, w),
         NEW c \in Nat, cur' = [cur EXCEPT ![t] = c], SearchInv(t)'
  PROVE  HeapInv'
<1>1. HeapTypeOK'
  BY DEF HeapInv, HeapTypeOK, Goto, heap, List
<1>2. \A u \in Threads : pc'[u] = IF u = t THEN w ELSE "idle"
  BY OthersIdle DEF HeapInv, HeapTypeOK, Goto
<1>3. LockInv'
  BY <1>2, Zenon DEF HeapInv, LockInv
<1>4. \A u \in Threads : SearchInv(u)'
  BY <1>2, Zenon DEF SearchInv
<1>5. Tiled' = Tiled /\ Chained' = Chained /\ Apart' = Apart
  BY Zenon DEF Tiled, Chained, Apart, Follows, Free, List, AllBlocks, Arena, heap
<1>. QED
  BY <1>1, <1>3, <1>4, <1>5 DEF HeapInv, heap, List

(* A thread that takes the lock, with the heap as it was.                   *)
LEMMA LockStep ==
  ASSUME HeapInv, NEW t \in Threads, NEW w \in {"alloc", "place"}, NEW a \in Nat, spin_lock(t, w, a),
         UNCHANGED <<heap, freep>>, cur' \in [Threads -> Nat], SearchInv(t)'
  PROVE  HeapInv'
<1>1. HeapTypeOK'
  BY Zenon DEF HeapInv, HeapTypeOK, spin_lock, Goto, heap, List
<1>2. \A u \in Threads : pc'[u] = IF u = t THEN w ELSE "idle"
  BY DEF HeapInv, HeapTypeOK, LockInv, spin_lock, Goto
<1>3. LockInv'
  BY <1>2, Zenon DEF spin_lock, LockInv
<1>4. \A u \in Threads : SearchInv(u)'
  BY <1>2 DEF SearchInv
<1>5. Tiled' = Tiled /\ Chained' = Chained /\ Apart' = Apart
  BY Zenon DEF Tiled, Chained, Apart, Follows, Free, List, AllBlocks, Arena, heap
<1>. QED
  BY <1>1, <1>3, <1>4, <1>5 DEF HeapInv, heap, List

(* A thread that leaves with the heap changed: it is enough that the heap   *)
(* is exact again.                                                          *)
LEMMA LeaveStep ==
  ASSUME HeapInv, NEW t \in Threads, pc[t] # "idle", spin_unlock(t), Exact', NULL # freep',
         size' \in [DOMAIN size' -> Nat], DOMAIN size' \subseteq Nat,
         next' \in [List' -> Nat], prev' \in [List' -> Nat], freep' \in Nat
  PROVE  HeapInv'
BY UnlockStep, Zenon DEF HeapInv, HeapTypeOK, Exact

(* test_alloc takes the lock.                                               *)
LEMMA AllocLockStep ==
  ASSUME HeapAssumption, HeapInv, NEW t \in Threads, AllocLock(t)
  PROVE  HeapInv'
<1>1. PICK n \in Requests : spin_lock(t, "alloc", n)
  BY DEF AllocLock
<1>2. n \in Nat /\ n > 0
  BY DEF HeapAssumption
<1>3. pc'[t] = "alloc" /\ arg'[t] = n
  BY <1>1 DEF spin_lock, Goto, HeapInv, HeapTypeOK
<1>4. SearchInv(t)'
  BY <1>2, <1>3, Zenon DEF SearchInv
<1>5. UNCHANGED <<heap, freep>> /\ cur' \in [Threads -> Nat]
  BY DEF AllocLock, HeapInv, HeapTypeOK
<1>. QED
  BY <1>1, <1>2, <1>4, <1>5, LockStep

(* The first call lays out the whole space as one free block.               *)
LEMMA FirstUseIsExact ==
  ASSUME HeapAssumption, freep = NULL, HeapInv, FirstUse
  PROVE  /\ Exact' /\ freep' = base /\ next'[base] = space /\ List' = {base, space}
         /\ size' \in [DOMAIN size' -> Nat] /\ DOMAIN size' \subseteq Nat
         /\ next' \in [List' -> Nat] /\ prev' \in [List' -> Nat]
<1>1. /\ size' = [a \in {0, 2} |-> IF a = 2 THEN SpaceUnits - 1 ELSE 0]
      /\ next' = [a \in {0, 2} |-> IF a = 2 THEN 0 ELSE 2]
      /\ prev' = [a \in {0, 2} |-> IF a = 2 THEN 0 ELSE 2]
      /\ freep' = 0
  BY DEF HeapInv, FirstUse, With, base, space
<1>2. SpaceUnits \in Nat /\ SpaceUnits > 1
  BY DEF HeapAssumption
<1>3. List' = {0, 2} /\ Free' = {2} /\ AllBlocks' = {2} /\ DOMAIN size' = {0, 2}
  BY <1>1 DEF List, Free, AllBlocks, base
<1>4. size'[0] = 0 /\ size'[2] = SpaceUnits - 1
  BY <1>1
<1>5. next'[0] = 2 /\ next'[2] = 0 /\ prev'[0] = 2 /\ prev'[2] = 0
  BY <1>1
<1>6. Tiled'
  BY <1>2, <1>3, <1>4 DEF Tiled, Arena, base, space
<1>7. Chained'
  BY <1>1, <1>3, <1>5 DEF Chained, Follows, base
<1>8. Apart'
  BY <1>2, <1>3, <1>4 DEF Apart
<1>. QED
  BY <1>1, <1>2, <1>3, <1>5, <1>6, <1>7, <1>8 DEF Exact, base, space

(* The search begins behind freep: nothing has been passed.                 *)
LEMMA NothingPassed ==
  ASSUME HeapTypeOK, Chained
  PROVE  \A a \in List : ~Passed(freep, a, next[freep])
<1>1. freep \in List /\ freep \in Nat /\ next[freep] \in Nat
  BY ListFacts DEF Chained
<1>2. \A a \in List : a = base \/ a <= freep \/ (next[freep] # base /\ next[freep] <= a)
  BY <1>1, ListFacts DEF Free
<1>3. next[freep] = base \/ freep < next[freep]
  BY <1>1, ListFacts
<1>4. \A a \in List : a \in Nat
  BY ListFacts
<1>. QED
  BY <1>1, <1>2, <1>3, <1>4 DEF Passed, base

(* One step of the search passes the block it was at and no other.          *)
LEMMA OnePassed ==
  ASSUME HeapTypeOK, Chained, NEW p \in List, p # freep
  PROVE  \A a \in List : Passed(freep, a, next[p]) => a = p \/ Passed(freep, a, p)
<1>1. freep \in List /\ freep \in Nat /\ next[p] \in Nat /\ p \in Nat
  BY ListFacts DEF Chained
<1>2. \A a \in List : a = base \/ a <= p \/ (next[p] # base /\ next[p] <= a)
  BY <1>1, ListFacts DEF Free
<1>3. next[p] = base \/ p < next[p]
  BY <1>1, ListFacts
<1>4. \A a \in List : a \in Nat
  BY ListFacts
<1>. QED
  BY <1>1, <1>2, <1>3, <1>4 DEF Passed, base

(* test_alloc lays out the space if need be and begins its search.          *)
LEMMA AllocStartStep ==
  ASSUME HeapAssumption, HeapInv, NEW t \in Threads, AllocStart(t)
  PROVE  HeapInv'
<1>1. /\ pc[t] = "alloc" /\ Goto(t, "fit") /\ cur' = [cur EXCEPT ![t] = next'[freep']]
      /\ UNCHANGED <<locked, arg>> /\ pc[t] # "idle"
  BY DEF AllocStart
<1>2. /\ Exact' /\ freep' \in Nat /\ NULL # freep'
      /\ size' \in [DOMAIN size' -> Nat] /\ DOMAIN size' \subseteq Nat
      /\ next' \in [List' -> Nat] /\ prev' \in [List' -> Nat]
  <2>1. CASE freep = NULL /\ FirstUse
    BY <2>1, FirstUseIsExact DEF NULL, base
  <2>2. CASE freep # NULL /\ UNCHANGED <<heap, freep>>
    <3>1. Exact' = Exact
      BY <2>2 DEF Exact, Tiled, Chained, Apart, Follows, Free, List, AllBlocks, Arena, heap
    <3>2. Exact
      BY <2>2 DEF HeapInv, Exact
    <3>. QED
      BY <2>2, <3>1, <3>2 DEF HeapInv, HeapTypeOK, heap, List
  <2>. QED
    BY <2>1, <2>2 DEF AllocStart
<1>3. next'[freep'] \in List' /\ next'[freep'] \in Nat
  BY <1>2 DEF Exact, Chained
<1>4. HeapTypeOK'
  BY <1>1, <1>2, <1>3 DEF HeapInv, HeapTypeOK, Goto
<1>5. \A u \in Threads : pc'[u] = IF u = t THEN "fit" ELSE "idle"
  BY <1>1, OthersIdle DEF HeapInv, HeapTypeOK, Goto
<1>6. LockInv'
  BY <1>1, <1>5 DEF HeapInv, LockInv
<1>7. \A a \in List' : ~Passed(freep', a, next'[freep'])
  <2>1. (\A a \in List : ~Passed(freep, a, next[freep]))'
    BY <1>2, <1>4, NothingPassed, PTL DEF Exact
  <2>. QED
    BY <2>1
<1>8. arg'[t] > 0 /\ cur'[t] = next'[freep']
  BY <1>1 DEF HeapInv, HeapTypeOK, SearchInv
<1>9. \A u \in Threads : SearchInv(u)'
  BY <1>2, <1>3, <1>5, <1>7, <1>8 DEF SearchInv
<1>. QED
  BY <1>2, <1>4, <1>6, <1>9 DEF HeapInv, Exact

(* test_alloc goes on to the next block of the list.                        *)
LEMMA AllocStepStep ==
  ASSUME HeapInv, NEW t \in Threads, AllocStep(t)
  PROVE  HeapInv'
<1>1. /\ pc[t] = "fit" /\ size[cur[t]] < arg[t] /\ cur[t] # freep
      /\ cur' = [cur EXCEPT ![t] = next[cur[t]]] /\ UNCHANGED <<heap, freep, locked, pc, arg>>
  BY Zenon DEF AllocStep, TooSmall
<1>2. /\ arg[t] > 0 /\ cur[t] \in List /\ freep # NULL
      /\ \A a \in List : Passed(freep, a, cur[t]) => size[a] < arg[t]
  BY <1>1, Zenon DEF HeapInv, SearchInv
<1>3. HeapTypeOK /\ Chained /\ next[cur[t]] \in List /\ next[cur[t]] \in Nat
  BY <1>2, ListFacts, Zenon DEF HeapInv
<1>4. \A a \in List : Passed(freep, a, next[cur[t]]) => size[a] < arg[t]
  BY <1>1, <1>2, <1>3, OnePassed, Zenon
<1>5. cur'[t] = next[cur[t]] /\ Goto(t, "fit")
  BY <1>1, <1>3 DEF HeapTypeOK, Goto
<1>6. SearchInv(t)'
  BY <1>1, <1>2, <1>3, <1>4, <1>5, Zenon DEF SearchInv, heap, List
<1>. QED
  BY <1>1, <1>3, <1>5, <1>6, InsideStep, Zenon

(* test_alloc has been round the list and gives up.                         *)
LEMMA AllocFailsStep ==
  ASSUME HeapInv, NEW t \in Threads, AllocFails(t)
  PROVE  HeapInv'
<1>1. pc[t] = "fit" /\ spin_unlock(t) /\ UNCHANGED <<heap, freep>>
  BY DEF AllocFails, TooSmall
<1>2. freep # NULL
  BY <1>1, Zenon DEF HeapInv, SearchInv
<1>3. Exact' = Exact
  BY <1>1 DEF Exact, Tiled, Chained, Apart, Follows, Free, List, AllBlocks, Arena, heap
<1>4. Exact
  BY <1>2 DEF HeapInv, Exact
<1>. QED
  BY <1>1, <1>2, <1>3, <1>4, LeaveStep, Zenon DEF HeapInv, HeapTypeOK, heap, List

(* test_free takes the lock and begins at freep.                            *)
LEMMA FreeLockStep ==
  ASSUME HeapInv, NEW t \in Threads, FreeLock(t)
  PROVE  HeapInv'
<1>1. PICK b \in Held : spin_lock(t, "place", b)
  BY DEF FreeLock
<1>2. UNCHANGED <<heap, freep>> /\ cur' = [cur EXCEPT ![t] = freep]
  BY DEF FreeLock
<1>3. freep # NULL
  BY <1>1 DEF HeapInv, Held, List
<1>4. freep \in List /\ b \in Nat /\ freep \in Nat
  BY <1>1, <1>3 DEF HeapInv, HeapTypeOK, Held, Chained
<1>5. pc'[t] = "place" /\ arg'[t] = b /\ cur'[t] = freep
  BY <1>1, <1>2 DEF spin_lock, Goto, HeapInv, HeapTypeOK
<1>6. SearchInv(t)'
  BY <1>1, <1>2, <1>3, <1>4, <1>5, Zenon DEF SearchInv, Held, List, heap
<1>7. cur' \in [Threads -> Nat]
  BY <1>2, <1>4 DEF HeapInv, HeapTypeOK
<1>. QED
  BY <1>1, <1>2, <1>4, <1>6, <1>7, LockStep

(* test_free goes on to the next block of the list.                         *)
LEMMA FreeStepStep ==
  ASSUME HeapInv, NEW t \in Threads, FreeStep(t)
  PROVE  HeapInv'
<1>1. /\ pc[t] = "place" /\ cur' = [cur EXCEPT ![t] = next[cur[t]]]
      /\ UNCHANGED <<heap, freep, locked, pc, arg>>
  BY Zenon DEF FreeStep
<1>2. cur[t] \in List /\ arg[t] \in Held /\ freep # NULL
  BY <1>1, Zenon DEF HeapInv, SearchInv
<1>3. next[cur[t]] \in List /\ next[cur[t]] \in Nat /\ HeapTypeOK
  BY <1>2, ListFacts, Zenon DEF HeapInv
<1>4. cur'[t] = next[cur[t]] /\ Goto(t, "place")
  BY <1>1, <1>3 DEF HeapTypeOK, Goto
<1>5. SearchInv(t)'
  BY <1>1, <1>2, <1>3, <1>4, Zenon DEF SearchInv, heap, List, Held
<1>. QED
  BY <1>1, <1>3, <1>4, <1>5, InsideStep, Zenon

-----------------------------------------------------------------------------
(* The steps that change the list and the blocks.                           *)

(* Blocks that nobody changes tile the arena as before.                     *)
LEMMA TilesStay ==
  ASSUME HeapTypeOK, Tiled, UNCHANGED size
  PROVE  Tiled' /\ size' \in [DOMAIN size' -> Nat] /\ DOMAIN size' \subseteq Nat
BY Zenon DEF HeapTypeOK, Tiled, AllBlocks, Arena

(* A list that nobody changes is sorted as before.                          *)
LEMMA ChainStays ==
  ASSUME HeapTypeOK, Chained, UNCHANGED <<next, prev>>, freep' \in List
  PROVE  Chained' /\ List' = List /\ next' \in [List' -> Nat] /\ prev' \in [List' -> Nat]
BY Zenon DEF HeapTypeOK, Chained, Follows, Free, List

(* test_alloc takes a block out of the list, or the tail of one.            *)
LEMMA AllocTakeStep ==
  ASSUME HeapInv, NEW t \in Threads, AllocTake(t)
  PROVE  HeapInv'
<1>. DEFINE p == cur[t]
            n == arg[t]
<1>1. pc[t] = "fit" /\ size[p] >= n /\ freep' = prev[p] /\ spin_unlock(t) /\ pc[t] # "idle"
  BY Zenon DEF AllocTake
<1>2. (size[p] = n /\ Unlink(p)) \/ (size[p] # n /\ Split(p, n))
  BY Zenon DEF AllocTake
<1>3. n > 0 /\ n \in Nat /\ p \in List /\ freep # NULL
  BY <1>1, Zenon DEF HeapInv, SearchInv, HeapTypeOK
<1>4. HeapTypeOK /\ Tiled /\ Chained /\ Apart /\ Exact
  BY <1>3, Zenon DEF HeapInv, Exact
<1>. HIDE DEF p, n
<1>5. p \in DOMAIN size /\ size[p] \in Nat /\ p # base
  BY <1>1, <1>3, <1>4, BlockFacts DEF Apart
<1>6. p \in Free /\ p \in AllBlocks
  BY <1>3, <1>5 DEF Free, AllBlocks
<1>7. prev[p] \in List /\ prev[p] \in Nat /\ freep' \in List /\ NULL # freep' /\ freep' \in Nat
  BY <1>1, <1>3, <1>4, ListFacts, NotNull
<1>8. /\ Tiled' /\ Chained' /\ Apart'
      /\ size' \in [DOMAIN size' -> Nat] /\ DOMAIN size' \subseteq Nat
      /\ next' \in [List' -> Nat] /\ prev' \in [List' -> Nat]
  <2>1. CASE size[p] = n /\ Unlink(p)
    <3>1. Removes(p) /\ size' = size
      BY <2>1, Zenon DEF Unlink, Removes
    <3>2. Chained' /\ List' = List \ {p} /\ next' \in [List' -> Nat] /\ prev' \in [List' -> Nat]
      BY <1>1, <1>4, <1>6, <3>1, RemoveKeepsChain, Zenon
    <3>3. Tiled' /\ size' \in [DOMAIN size' -> Nat] /\ DOMAIN size' \subseteq Nat
      BY <1>4, <3>1, TilesStay
    <3>4. Apart'
      BY <1>4, <3>1, <3>2 DEF Apart, Free
    <3>. QED
      BY <3>2, <3>3, <3>4
  <2>2. CASE size[p] # n /\ Split(p, n)
    <3>1. n < size[p] /\ 0 < n
      BY <1>1, <1>3, <1>5, <2>2
    <3>2. UNCHANGED <<next, prev>>
      BY <2>2 DEF Split
    <3>3. Chained' /\ List' = List /\ next' \in [List' -> Nat] /\ prev' \in [List' -> Nat]
      BY <1>4, <1>7, <3>2, ChainStays
    <3>4. /\ Tiled' /\ size' \in [DOMAIN size' -> Nat] /\ DOMAIN size' \subseteq Nat
          /\ DOMAIN size \subseteq DOMAIN size'
          /\ size'[p] = size[p] - n /\ \A a \in DOMAIN size : a # p => size'[a] = size[a]
      BY <1>3, <1>4, <1>6, <2>2, <3>1, SplitKeepsTiles, Zenon
    <3>5. \A b \in Free : p + size'[p] # b
      <4>. SUFFICES ASSUME NEW b \in Free, p + size'[p] = b PROVE FALSE
        OBVIOUS
      <4>1. b \in AllBlocks /\ b \in Nat /\ p \in Nat
        BY <1>4, <1>5, BlockFacts DEF Free, Apart, AllBlocks
      <4>2. p < b /\ b < p + size[p]
        BY <1>3, <1>5, <3>1, <3>4, <4>1
      <4>3. p + size[p] <= b
        BY <1>4, <1>6, <4>1, <4>2 DEF Tiled
      <4>. QED
        BY <1>5, <4>1, <4>2, <4>3
    <3>6. Apart'
      <4>1. \A a, b \in Free : a + size'[a] # b
        <5>. SUFFICES ASSUME NEW a \in Free, NEW b \in Free PROVE a + size'[a] # b
          OBVIOUS
        <5>1. a \in DOMAIN size
          BY <1>4 DEF Free, Apart
        <5>. QED
          BY <1>4, <3>4, <3>5, <5>1 DEF Apart
      <4>. QED
        BY <1>4, <3>3, <3>4, <4>1 DEF Apart, Free
    <3>. QED
      BY <3>3, <3>4, <3>6
  <2>. QED
    BY <1>2, <2>1, <2>2
<1>9. Exact'
  BY <1>8 DEF Exact
<1>. QED
  BY <1>1, <1>7, <1>8, <1>9, LeaveStep

(* The free blocks that can touch b are its neighbours in the list.         *)
LEMMA GapFacts ==
  ASSUME HeapTypeOK, Exact, NEW p, NEW b \in AllBlocks, NEW n, Between(p, b, n)
  PROVE  /\ \A a \in Free : a + size[a] = b => a = p
         /\ \A c \in Free : b + size[b] = c => c = n
<1>1. Tiled /\ Chained /\ Apart
  BY DEF Exact
<1>2. /\ p \in List /\ n = next[p] /\ p < b /\ (n = base \/ b < n) /\ n \in List
      /\ p \in Nat /\ b \in Nat /\ n \in Nat /\ size[b] \in Nat /\ size[b] > 0
  BY <1>1, ListFacts, BlockFacts DEF Between
<1>3. \A a \in Free : a \in AllBlocks /\ a \in Nat /\ size[a] \in Nat /\ size[a] > 0
  BY <1>1, BlockFacts DEF Free, Apart, AllBlocks
<1>4. \A c \in Free : c <= p \/ (n # base /\ n <= c)
  BY <1>1, <1>2, ListFacts
<1>5. \A c, d \in AllBlocks : c < d => c + size[c] <= d
  BY <1>1 DEF Tiled
<1>6. ASSUME NEW a \in Free, a + size[a] = b PROVE a = p
  <2>1. a < b /\ a <= p
    BY <1>2, <1>3, <1>4, <1>6
  <2>2. ASSUME a < p PROVE FALSE
    <3>1. p \in AllBlocks
      BY <1>1, <1>2, <1>3, <2>2 DEF Apart, AllBlocks, base
    <3>2. a + size[a] <= p
      BY <1>3, <1>5, <2>2, <3>1
    <3>. QED
      BY <1>2, <1>3, <1>6, <3>2
  <2>. QED
    BY <1>2, <1>3, <2>1, <2>2
<1>7. ASSUME NEW c \in Free, b + size[b] = c PROVE c = n
  <2>1. b < c /\ n # base /\ n <= c /\ b < n
    BY <1>2, <1>3, <1>4, <1>7
  <2>2. n \in AllBlocks
    BY <1>1, <1>2, <2>1 DEF Apart, AllBlocks
  <2>3. b + size[b] <= n
    BY <1>5, <2>1, <2>2
  <2>. QED
    BY <1>2, <1>3, <1>7, <2>1, <2>3
<1>. QED
  BY <1>6, <1>7

(* Where the search of test_free stops is where the block belongs.          *)
LEMMA PlaceIsBetween ==
  ASSUME HeapTypeOK, Exact, NEW p \in List, NEW b \in Held, IsPlace(p, next[p], b)
  PROVE  Between(p, b, next[p]) /\ b \in AllBlocks
<1>1. Tiled /\ Chained /\ Apart
  BY DEF Exact
<1>2. p \in Nat /\ next[p] \in Nat /\ (next[p] = base \/ p < next[p]) /\ base \in List
  BY <1>1, ListFacts
<1>3. b \in DOMAIN size /\ b \notin List /\ b \in AllBlocks /\ b \in Nat
  BY <1>1, <1>2, BlockFacts DEF Held, AllBlocks
<1>4. p < b /\ (next[p] = base \/ b < next[p])
  BY <1>2, <1>3 DEF IsPlace, base
<1>. QED
  BY <1>3, <1>4 DEF Between

(* The heap is exact again after a step.                                    *)
Restored ==
  /\ Tiled' /\ Chained' /\ Apart'
  /\ size' \in [DOMAIN size' -> Nat] /\ DOMAIN size' \subseteq Nat
  /\ next' \in [List' -> Nat] /\ prev' \in [List' -> Nat]

(* test_free joins the block to both neighbours.                            *)
LEMMA JoinBothRestores ==
  ASSUME HeapTypeOK, Exact, NEW p \in Free, NEW b \in AllBlocks, NEW n \in Free, Between(p, b, n),
         b + size[b] = n, p + size[p] = b, JoinBoth(p, b, n), freep' = p
  PROVE  Restored
<1>1. Tiled /\ Chained /\ Apart
  BY DEF Exact
<1>2. p \in AllBlocks /\ n \in AllBlocks /\ b \notin List /\ prev[n] = p
  BY <1>1, ListFacts, Zenon DEF Free, Apart, AllBlocks, Between
<1>3. Removes(n)
  BY <1>2, Zenon DEF JoinBoth, Removes
<1>4. Chained' /\ List' = List \ {n} /\ next' \in [List' -> Nat] /\ prev' \in [List' -> Nat]
  BY <1>1, <1>2, <1>3, RemoveKeepsChain
<1>5. /\ Tiled' /\ size' \in [DOMAIN size' -> Nat] /\ DOMAIN size' \subseteq Nat
      /\ DOMAIN size' = DOMAIN size \ {b, n}
      /\ size'[p] = size[p] + size[b] + size[n]
      /\ \A a \in DOMAIN size : a \notin {p, b, n} => size'[a] = size[a]
  <2>1. JoinsThree(p, b, n)
    BY Zenon DEF JoinBoth, JoinsThree
  <2>2. ThreeJoined(p, b, n)
    BY <1>1, <1>2, <2>1, JoinBothKeepsTiles, Zenon
  <2>. QED
    BY <2>2, Zenon DEF ThreeJoined
<1>6. /\ p \in Nat /\ size[p] \in Nat /\ b \in Nat /\ size[b] \in Nat /\ n \in Nat /\ size[n] \in Nat
  BY <1>1, <1>2, BlockFacts
<1>7. p + size'[p] = n + size[n]
  BY <1>5, <1>6
<1>8. \A a, c \in Free \ {n} : a + size'[a] # c
  <2>. SUFFICES ASSUME NEW a \in Free \ {n}, NEW c \in Free \ {n} PROVE a + size'[a] # c
    OBVIOUS
  <2>1. a \in DOMAIN size /\ a # b /\ a + size[a] # c /\ n + size[n] # c
    BY <1>1, <1>2 DEF Free, Apart
  <2>. QED
    BY <1>5, <1>7, <2>1
<1>9. Apart'
  BY <1>1, <1>2, <1>4, <1>5, <1>8 DEF Apart, Free
<1>. QED
  BY <1>4, <1>5, <1>9, Zenon DEF Restored

(* test_free joins the block to its upper neighbour.                        *)
LEMMA JoinUpperRestores ==
  ASSUME HeapTypeOK, Exact, NEW p, NEW b \in AllBlocks, NEW n \in Free, Between(p, b, n),
         b + size[b] = n, p + size[p] # b, JoinUpper(p, b, n), freep' = p
  PROVE  Restored
<1>1. Tiled /\ Chained /\ Apart
  BY DEF Exact
<1>2. n \in AllBlocks /\ b \notin List /\ b # base
  BY <1>1 DEF Free, Apart, AllBlocks, Between
<1>3. /\ Chained' /\ List' = (List \ {n}) \cup {b}
      /\ next' \in [List' -> Nat] /\ prev' \in [List' -> Nat]
  BY <1>1, ReplaceKeepsChain, Zenon DEF JoinUpper
<1>4. /\ Tiled' /\ size' \in [DOMAIN size' -> Nat] /\ DOMAIN size' \subseteq Nat
      /\ DOMAIN size' = DOMAIN size \ {n}
      /\ size'[b] = size[b] + size[n] /\ \A a \in DOMAIN size : a \notin {b, n} => size'[a] = size[a]
  <2>1. size' = Without(With(size, b, size[b] + size[n]), n) /\ n = b + size[b]
    BY Zenon DEF JoinUpper
  <2>. QED
    BY <1>1, <1>2, <2>1, JoinKeepsTiles, Zenon
<1>5. /\ b \in Nat /\ size[b] \in Nat /\ n \in Nat /\ size[n] \in Nat /\ size[b] > 0
      /\ b \in DOMAIN size /\ n \in DOMAIN size /\ b # n
  BY <1>1, <1>2, BlockFacts
<1>6. b + size'[b] = n + size[n] /\ b + size'[b] # b
  BY <1>4, <1>5
<1>7. \A a \in Free : a + size[a] # b
  BY GapFacts
<1>8. \A a, c \in (Free \ {n}) \cup {b} : a + size'[a] # c
  <2>. SUFFICES ASSUME NEW a \in (Free \ {n}) \cup {b}, NEW c \in (Free \ {n}) \cup {b}
                PROVE  a + size'[a] # c
    OBVIOUS
  <2>1. CASE a = b
    <3>1. c \in Free => n + size[n] # c
      BY <1>1 DEF Apart
    <3>. QED
      BY <1>6, <2>1, <3>1
  <2>2. CASE a # b
    <3>1. a \in Free /\ a \in DOMAIN size /\ a \notin {b, n}
      BY <1>1, <2>2 DEF Free, Apart
    <3>2. size'[a] = size[a]
      BY <1>4, <3>1
    <3>3. a + size[a] # c
      BY <1>1, <1>7, <3>1 DEF Apart
    <3>. QED
      BY <3>2, <3>3
  <2>. QED
    BY <2>1, <2>2
<1>9. Apart'
  <2>1. Free' = (Free \ {n}) \cup {b}
    BY <1>2, <1>3 DEF Free
  <2>2. List' \subseteq DOMAIN size'
    BY <1>1, <1>3, <1>4, <1>5 DEF Apart
  <2>. QED
    BY <1>8, <2>1, <2>2 DEF Apart
<1>. QED
  BY <1>3, <1>4, <1>9 DEF Restored

(* test_free joins the block to its lower neighbour.                        *)
LEMMA JoinLowerRestores ==
  ASSUME HeapTypeOK, Exact, NEW p \in Free, NEW b \in AllBlocks, NEW n, Between(p, b, n),
         b + size[b] # n, p + size[p] = b, JoinLower(p, b), freep' = p
  PROVE  Restored
<1>1. Tiled /\ Chained /\ Apart
  BY DEF Exact
<1>2. p \in AllBlocks /\ b \notin List /\ p \in List
  BY <1>1 DEF Free, Apart, AllBlocks, Between
<1>3. Chained' /\ List' = List /\ next' \in [List' -> Nat] /\ prev' \in [List' -> Nat]
  BY <1>1, <1>2, ChainStays DEF JoinLower
<1>4. /\ Tiled' /\ size' \in [DOMAIN size' -> Nat] /\ DOMAIN size' \subseteq Nat
      /\ DOMAIN size' = DOMAIN size \ {b}
      /\ size'[p] = size[p] + size[b] /\ \A a \in DOMAIN size : a \notin {p, b} => size'[a] = size[a]
  <2>1. size' = Without(With(size, p, size[p] + size[b]), b) /\ b = p + size[p]
    BY Zenon DEF JoinLower
  <2>. QED
    BY <1>1, <1>2, <2>1, JoinKeepsTiles, Zenon
<1>5. p \in Nat /\ size[p] \in Nat /\ b \in Nat /\ size[b] \in Nat
  BY <1>1, <1>2, BlockFacts
<1>6. p + size'[p] = b + size[b]
  BY <1>4, <1>5
<1>7. \A c \in Free : b + size[b] # c
  BY GapFacts
<1>8. \A a, c \in Free : a + size'[a] # c
  <2>. SUFFICES ASSUME NEW a \in Free, NEW c \in Free PROVE a + size'[a] # c
    OBVIOUS
  <2>1. a \in DOMAIN size /\ a # b /\ a + size[a] # c
    BY <1>1, <1>2 DEF Free, Apart
  <2>. QED
    BY <1>4, <1>6, <1>7, <2>1, Zenon
<1>9. Apart'
  BY <1>1, <1>2, <1>3, <1>4, <1>8, Zenon DEF Apart, Free
<1>. QED
  BY <1>3, <1>4, <1>9 DEF Restored

(* test_free puts the block between two that do not touch it.               *)
LEMMA InsertRestores ==
  ASSUME HeapTypeOK, Exact, NEW p, NEW b \in AllBlocks, NEW n, Between(p, b, n),
         b + size[b] # n, p + size[p] # b, Insert(p, b, n), freep' = p
  PROVE  Restored
<1>1. Tiled /\ Chained /\ Apart
  BY DEF Exact
<1>2. /\ Chained' /\ List' = List \cup {b}
      /\ next' \in [List' -> Nat] /\ prev' \in [List' -> Nat]
  BY <1>1, InsertKeepsChain, Zenon DEF Insert
<1>3. size' = size
  BY DEF Insert
<1>4. Tiled' /\ size' \in [DOMAIN size' -> Nat] /\ DOMAIN size' \subseteq Nat
  BY <1>1, <1>3, TilesStay
<1>5. b \in Nat /\ size[b] \in Nat /\ size[b] > 0 /\ b \in DOMAIN size /\ b # base
  BY <1>1, BlockFacts
<1>6. (\A a \in Free : a + size[a] # b) /\ (\A c \in Free : b + size[b] # c) /\ b + size[b] # b
  BY <1>5, GapFacts
<1>7. Free' = Free \cup {b} /\ List' \subseteq DOMAIN size'
  BY <1>1, <1>2, <1>3, <1>5 DEF Free, Apart
<1>8. \A a, c \in Free \cup {b} : a + size[a] # c
  BY <1>1, <1>6 DEF Apart
<1>9. Apart'
  BY <1>3, <1>7, <1>8 DEF Apart
<1>. QED
  BY <1>2, <1>4, <1>9 DEF Restored

(* test_free has found the place and puts the block back.                   *)
LEMMA FreePutStep ==
  ASSUME HeapInv, NEW t \in Threads, FreePut(t)
  PROVE  HeapInv'
<1>. DEFINE p == cur[t]
            b == arg[t]
            n == next[p]
<1>1. /\ pc[t] = "place" /\ pc[t] # "idle" /\ IsPlace(p, n, b) /\ LinkBack(p, b, n)
      /\ freep' = p /\ spin_unlock(t)
  BY Zenon DEF FreePut
<1>2. p \in List /\ b \in Held /\ freep # NULL
  BY <1>1, Zenon DEF HeapInv, SearchInv
<1>3. HeapTypeOK /\ Tiled /\ Chained /\ Apart /\ Exact
  BY <1>2, Zenon DEF HeapInv, Exact
<1>4. Between(p, b, n) /\ b \in AllBlocks
  BY <1>1, <1>2, <1>3, PlaceIsBetween, Zenon
<1>5. n \in List /\ p \in Nat /\ p # NULL
  BY <1>2, <1>3, ListFacts, NotNull, Zenon
<1>. HIDE DEF p, b, n
<1>6. b \in Nat /\ size[b] \in Nat /\ space <= b /\ size[base] = 0
  BY <1>3, <1>4, BlockFacts
<1>7. b + size[b] = n => n \in Free
  BY <1>5, <1>6 DEF Free, base, space
<1>8. p + size[p] = b => p \in Free
  BY <1>2, <1>6 DEF Free, base, space
<1>9. Restored
  <2>1. CASE b + size[b] = n /\ p + size[p] = b /\ JoinBoth(p, b, n)
    BY <1>1, <1>3, <1>4, <1>7, <1>8, <2>1, JoinBothRestores
  <2>2. CASE b + size[b] = n /\ p + size[p] # b /\ JoinUpper(p, b, n)
    BY <1>1, <1>3, <1>4, <1>7, <2>2, JoinUpperRestores
  <2>3. CASE b + size[b] # n /\ p + size[p] = b /\ JoinLower(p, b)
    BY <1>1, <1>3, <1>4, <1>8, <2>3, JoinLowerRestores
  <2>4. CASE b + size[b] # n /\ p + size[p] # b /\ Insert(p, b, n)
    BY <1>1, <1>3, <1>4, <2>4, InsertRestores
  <2>. QED
    BY <1>1, <2>1, <2>2, <2>3, <2>4, Zenon DEF LinkBack
<1>10. Exact'
  BY <1>9 DEF Restored, Exact
<1>. QED
  BY <1>1, <1>5, <1>9, <1>10, LeaveStep DEF Restored

-----------------------------------------------------------------------------
(* The allocator before its first use.                                      *)
LEMMA HeapBase ==
  ASSUME HeapAssumption, HeapInit
  PROVE  HeapInv
<1>1. HeapTypeOK
  <2>1. List = {base} /\ DOMAIN size = {base} /\ size[base] = 0
    BY DEF HeapInit, List
  <2>2. size \in [DOMAIN size -> Nat] /\ DOMAIN size \subseteq Nat
    BY <2>1 DEF HeapInit, base
  <2>3. next \in [List -> Nat] /\ prev \in [List -> Nat]
    BY <2>1 DEF HeapInit, space
  <2>4. freep \in Nat /\ locked \in BOOLEAN
    BY Zenon DEF HeapInit, NULL
  <2>5. /\ pc \in [Threads -> {"idle", "alloc", "fit", "place"}]
        /\ arg \in [Threads -> Nat] /\ cur \in [Threads -> Nat]
    BY DEF HeapInit, NULL
  <2>. QED
    BY <2>2, <2>3, <2>4, <2>5, Zenon DEF HeapTypeOK
<1>2. LockInv /\ \A t \in Threads : SearchInv(t)
  BY DEF HeapInit, LockInv, SearchInv
<1>. QED
  BY <1>1, <1>2 DEF HeapInit, HeapInv

(* Every step keeps the invariant.                                          *)
LEMMA HeapStep ==
  ASSUME HeapAssumption, HeapInv, [HeapNext]_heapVars
  PROVE  HeapInv'
<1>1. CASE HeapNext
  <2>. PICK t \in Threads : \/ AllocLock(t) \/ AllocStart(t) \/ AllocStep(t) \/ AllocFails(t)
                            \/ AllocTake(t) \/ FreeLock(t) \/ FreeStep(t) \/ FreePut(t)
    BY <1>1 DEF HeapNext
  <2>. QED
    BY AllocLockStep, AllocStartStep, AllocStepStep, AllocFailsStep, AllocTakeStep,
       FreeLockStep, FreeStepStep, FreePutStep
<1>2. CASE UNCHANGED heapVars
  <2>1. UNCHANGED <<size, next, prev, freep, locked, pc, arg, cur>>
    BY <1>2, Zenon DEF heapVars, heap
  <2>2. HeapTypeOK' /\ LockInv'
    BY <2>1, Zenon DEF HeapInv, HeapTypeOK, LockInv, List
  <2>3. \A t \in Threads : SearchInv(t)'
    BY <2>1, Zenon DEF HeapInv, SearchInv, Held, List
  <2>4. Tiled' = Tiled
    BY <2>1, Zenon DEF Tiled, AllBlocks
  <2>5. Chained' = Chained
    BY <2>1, Zenon DEF Chained, Follows, Free, List
  <2>6. Apart' = Apart
    BY <2>1, Zenon DEF Apart, Free, List
  <2>. QED
    BY <2>1, <2>2, <2>3, <2>4, <2>5, <2>6, Zenon DEF HeapInv
<1>. QED
  BY <1>1, <1>2

(* A search that has come back to where it began has passed every free      *)
(* block, and the other parts of HeapExact are parts of the invariant.      *)
LEMMA HeapInvIsExact ==
  ASSUME HeapAssumption, HeapInv
  PROVE  HeapExact
<1>. SUFFICES ASSUME freep # NULL
              PROVE  /\ UNION {Units(a) : a \in AllBlocks} = Arena
                     /\ \A a, b \in AllBlocks : a # b => Units(a) \cap Units(b) = {}
                     /\ \A a, b \in Free : a + size[a] # b
                     /\ freep \in List
                     /\ \A a \in List : Follows(a, next[a]) /\ prev[next[a]] = a
                     /\ \A t \in Threads :
                          TooSmall(t) /\ cur[t] = freep => \A a \in Free : size[a] < arg[t]
  BY Zenon DEF HeapExact
<1>1. HeapTypeOK /\ Tiled /\ Chained /\ Apart
  BY DEF HeapInv
<1>2. \A a \in AllBlocks : a \in Nat /\ size[a] \in Nat
  BY <1>1, BlockFacts
<1>3. SpaceUnits \in Nat
  BY DEF HeapAssumption
<1>4. UNION {Units(a) : a \in AllBlocks} = Arena
  <2>1. ASSUME NEW a \in AllBlocks PROVE Units(a) \subseteq Arena
    BY <1>1, <1>2, <1>3 DEF Tiled, Units, Arena, space
  <2>2. ASSUME NEW x \in Arena PROVE \E a \in AllBlocks : x \in Units(a)
    <3>1. PICK a \in AllBlocks : a <= x /\ x < a + size[a]
      BY <1>1 DEF Tiled
    <3>2. x \in Int
      BY <1>3 DEF Arena, space
    <3>. QED
      BY <1>2, <3>1, <3>2 DEF Units
  <2>. QED
    BY <2>1, <2>2
<1>5. ASSUME NEW a \in AllBlocks, NEW b \in AllBlocks, a # b PROVE Units(a) \cap Units(b) = {}
  <2>1. a < b \/ b < a
    BY <1>2, <1>5
  <2>2. a + size[a] <= b \/ b + size[b] <= a
    BY <1>1, <2>1 DEF Tiled
  <2>. QED
    BY <1>2, <2>2 DEF Units
<1>6. ASSUME NEW t \in Threads, TooSmall(t), cur[t] = freep, NEW a \in Free PROVE size[a] < arg[t]
  <2>1. pc[t] = "fit" /\ size[freep] < arg[t]
    BY <1>6, Zenon DEF TooSmall
  <2>2. Passed(freep, a, freep) => size[a] < arg[t]
    BY <1>6, <2>1, Zenon DEF HeapInv, SearchInv, Free
  <2>3. a \in Nat /\ freep \in Nat
    BY <1>1, ListFacts, Zenon DEF Free, Chained
  <2>4. a # freep => Passed(freep, a, freep)
    BY <2>3 DEF Passed
  <2>. QED
    BY <2>1, <2>2, <2>4, Zenon
<1>. QED
  BY <1>1, <1>4, <1>5, <1>6, Zenon DEF Chained, Apart

(* Whatever the number of threads, the size of the arena and the requests,  *)
(* test_alloc and test_free keep the blocks tiling the arena, the list      *)
(* sorted and free blocks apart, one thread at a time.                      *)
THEOREM HeapIsSound == HeapSpec => []HeapInv
<1>1. HeapInit => HeapInv
  BY HeapAssumption, HeapBase
<1>2. HeapInv /\ [HeapNext]_heapVars => HeapInv'
  BY HeapAssumption, HeapStep
<1>. QED
  BY <1>1, <1>2, PTL DEF HeapSpec

(* Free and allocated blocks make up the arena, the list is the free blocks *)
(* in order with links check_list accepts, and test_alloc returns NULL only *)
(* when no free block is large enough.                                      *)
THEOREM HeapStaysExact == HeapSpec => []HeapExact
<1>1. HeapInv => HeapExact
  BY HeapAssumption, HeapInvIsExact
<1>. QED
  BY <1>1, HeapIsSound, PTL

-----------------------------------------------------------------------------
(* The sanitizer's runtime: the activities that can be inside a handler for  *)
(* one place, and the logarithms of the widths its types have.               *)
CONSTANTS Contexts, Logs
VARIABLE ub
Ub == INSTANCE Ubsan

(* The fields of the runtime's state, and their types.                       *)
UbFields == {"call", "mark", "ctx", "said", "reason", "panic"}
UbRecord == ub = [f \in UbFields |-> ub[f]]
UbType ==
  /\ UbRecord
  /\ ub.mark \in BOOLEAN
  /\ ub.ctx \in [Contexts -> [at : {"out", "swap", "report"}, old : BOOLEAN]]
  /\ ub.said \in {0, 1}

(* The activities is_already_reported has let through and that have not      *)
(* reported yet.  There is one at most, none before the mark is set, and     *)
(* none once the place was reported.                                         *)
Reporting == {c \in Contexts : ub.ctx[c].at = "report"}
OneReporter ==
  /\ ~ ub.mark => ub.said = 0 /\ Reporting = {}
  /\ ub.said = 1 => Reporting = {}
  /\ \A c, d \in Reporting : c = d
UbInv == UbType /\ OneReporter

(* Nothing is marked and nobody is in a handler at first.                    *)
LEMMA UbBase == Ub!Init => UbInv
<1>. SUFFICES ASSUME Ub!Init PROVE UbInv
  OBVIOUS
<1>1. /\ UbRecord /\ ub.mark = FALSE /\ ub.said = 0
      /\ ub.ctx = [c \in Contexts |-> [at |-> "out", old |-> FALSE]]
  BY DEF Ub!Init, UbRecord, UbFields
<1>2. \A c \in Contexts : ub.ctx[c].at = "out"
  BY <1>1
<1>3. ub.ctx \in [Contexts -> [at : {"out", "swap", "report"}, old : BOOLEAN]]
  BY <1>1
<1>4. Reporting = {}
  BY <1>2 DEF Reporting
<1>. QED
  BY <1>1, <1>3, <1>4 DEF UbInv, UbType, OneReporter

(* Entering a handler reads mLine and lets nobody through.                   *)
LEMMA EnterKeepsOne ==
  ASSUME UbInv, NEW c \in Contexts, Ub!Enter(c)
  PROVE  UbInv'
<1>1. /\ UbRecord' /\ ub'.mark = ub.mark /\ ub'.said = ub.said
      /\ ub'.ctx = [ub.ctx EXCEPT ![c] = [at |-> "swap", old |-> ub.mark]]
  BY DEF UbInv, UbType, UbRecord, UbFields, Ub!Enter
<1>. QED
  BY <1>1 DEF UbInv, UbType, OneReporter, Reporting

(* __sync_val_compare_and_swap sets the mark for one activity only: one that *)
(* read mLine before another marked it fails and reads it again.             *)
LEMMA SwapKeepsOne ==
  ASSUME UbInv, NEW c \in Contexts, Ub!IsAlreadyReported(c)
  PROVE  UbInv'
<1>1. CASE ub.mark # ub.ctx[c].old
  <2>1. /\ UbRecord' /\ ub'.mark = ub.mark /\ ub'.said = ub.said
        /\ ub'.ctx = [ub.ctx EXCEPT ![c].old = ub.mark]
    BY <1>1 DEF UbInv, UbType, UbRecord, UbFields, Ub!IsAlreadyReported, Ub!Swap
  <2>. QED
    BY <2>1 DEF UbInv, UbType, OneReporter, Reporting
<1>2. CASE ub.mark = ub.ctx[c].old
  <2>1. /\ UbRecord' /\ ub'.mark = TRUE /\ ub'.said = ub.said
        /\ ub'.ctx = [ub.ctx EXCEPT ![c].at = IF ub.mark THEN "out" ELSE "report"]
    BY <1>2 DEF UbInv, UbType, UbRecord, UbFields, Ub!IsAlreadyReported, Ub!Swap
  <2>2. UbType'
    BY <2>1 DEF UbInv, UbType
  <2>3. \A d \in Contexts \ {c} : ub'.ctx[d] = ub.ctx[d]
    BY <2>1 DEF UbInv, UbType
  <2>4. ub'.ctx[c].at = IF ub.mark THEN "out" ELSE "report"
    BY <2>1 DEF UbInv, UbType
  <2>5. CASE ub.mark
    <3>1. Reporting' \subseteq Reporting
      BY <2>3, <2>4, <2>5 DEF Reporting
    <3>. QED
      BY <2>1, <2>2, <3>1 DEF UbInv, OneReporter
  <2>6. CASE ~ ub.mark
    <3>1. Reporting = {} /\ ub.said = 0
      BY <2>6 DEF UbInv, OneReporter
    <3>2. \A d \in Reporting' : d = c
      BY <2>3, <3>1 DEF Reporting
    <3>. QED
      BY <2>1, <2>2, <3>1, <3>2 DEF UbInv, OneReporter
  <2>. QED
    BY <2>5, <2>6
<1>. QED
  BY <1>1, <1>2

(* The activity that reports is the only one let through, and the last.      *)
LEMMA ReportKeepsOne ==
  ASSUME UbInv, NEW c \in Contexts, Ub!Report(c)
  PROVE  UbInv'
<1>1. c \in Reporting /\ ub.mark = TRUE /\ ub.said = 0
  BY DEF UbInv, UbType, OneReporter, Reporting, Ub!Report
<1>2. /\ UbRecord' /\ ub'.mark = ub.mark /\ ub'.said = ub.said + 1
      /\ ub'.ctx = [ub.ctx EXCEPT ![c].at = "out"]
  BY DEF UbInv, UbType, UbRecord, UbFields, Ub!Report
<1>. QED
  BY <1>1, <1>2 DEF UbInv, UbType, OneReporter, Reporting

(* Every step of the runtime keeps the invariant.                            *)
LEMMA UbStep == UbInv /\ [Ub!Next]_ub => UbInv'
<1>. SUFFICES ASSUME UbInv, [Ub!Next]_ub PROVE UbInv'
  OBVIOUS
<1>1. CASE Ub!Next
  BY <1>1, EnterKeepsOne, SwapKeepsOne, ReportKeepsOne, Zenon DEF Ub!Next
<1>2. CASE ub' = ub
  BY <1>2, Zenon DEF UbInv, UbType, UbRecord, OneReporter, Reporting
<1>. QED
  BY <1>1, <1>2

(* is_already_reported lets a place be reported once, however many           *)
(* activities are inside the handlers and whichever way they interleave.     *)
THEOREM ReportedOnlyOnce == Ub!Init /\ [][Ub!Next]_ub => []Ub!ReportedOnce
<1>1. UbInv => Ub!ReportedOnce
  BY DEF UbInv, UbType, Ub!ReportedOnce
<1>. QED
  BY <1>1, UbBase, UbStep, PTL
=============================================================================

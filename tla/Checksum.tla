------------------------------ MODULE Checksum ------------------------------
(***************************************************************************)
(* The Internet checksum as the stack computes and patches it:             *)
(* ip_checksum (kern/ip.c), its use on IP headers, and the shortcuts of    *)
(* icmp_echo_reply (kern/icmp.c) and tcp_send (kern/tcp.c).                *)
(*                                                                         *)
(* The code's bytes are base 256 and its words base 65536; here bytes are  *)
(* base B and words base B * B, so M stands for 0xffff.  Every message is  *)
(* a choice of bytes, and a behaviour is one call on one message.          *)
(***************************************************************************)
EXTENDS Naturals, Sequences, SequencesExt

CONSTANTS B,          \* 256
          HdrLen,     \* bytes of a header in front of its checksum
          BodyLens,   \* bytes of the messages behind it
          Echo,       \* ECHO_REQUEST, 8
          HostPort    \* host_side.port of the channel

M == B * B - 1
Bytes == 0 .. B - 1
Words == 0 .. M
ByteSeqs(n) == [1 .. n -> Bytes]

(* The call made last, what it put on the wire or read from it, whether     *)
(* ip_recv went past the checksum, whether a patched checksum left the      *)
(* range of a word.                                                         *)
VARIABLE ck

Made(kind, msg, accepted, wrapped) ==
  [kind |-> kind, msg |-> msg, accepted |-> accepted, wrapped |-> wrapped]

(* A word in network order.                                                 *)
BytesOf(w) == <<w \div B, w % B>>

(* The words of data; an odd last byte is the upper half of one more.       *)
WordsOf(data) ==
  [k \in 1 .. (Len(data) + 1) \div 2 |->
     data[2 * k - 1] * B + (IF 2 * k <= Len(data) THEN data[2 * k] ELSE 0)]

AddNoCarry(acc, w) == (acc + w) % (M + 1)

Add(acc, w) == IF acc + w > M THEN acc + w - M ELSE acc + w

ip_checksum(data) == M - FoldLeft(Add, M, WordsOf(data))

-----------------------------------------------------------------------------
Init == ck = Made("none", <<>>, FALSE, FALSE)

(* ip_send: the checksum field is zero while the sum is taken.              *)
ip_send(hdr) ==
  ck' = Made("ip_send", hdr \o BytesOf(ip_checksum(hdr \o BytesOf(0))), FALSE, FALSE)

(* ip_recv: the field is saved, cleared and compared.                       *)
ip_recv(hdr, c) ==
  ck' = Made("ip_recv", hdr \o BytesOf(c), c = ip_checksum(hdr \o BytesOf(0)), FALSE)

(* A message is right when its words add up to all ones, carries included   *)
(* (RFC 1071).                                                              *)
FoldCarries(n) == IF n = 0 THEN 0 ELSE 1 + ((n - 1) % M)
Right(data) == FoldCarries(FoldLeft(+, 0, WordsOf(data))) = M

EchoPatch(c) == (c + Echo * B) % (M + 1)

(* icmp_echo_reply on a request with checksum c: the type becomes 0 and the *)
(* checksum is advanced by what the type lost.                              *)
icmp_echo_reply(c, body) ==
  /\ Right(<<Echo, 0>> \o BytesOf(c) \o body)
  /\ ck' = Made("icmp", <<0, 0>> \o BytesOf(EchoPatch(c)) \o body, FALSE, c + Echo * B > M)

(* tcp_send: the length written into the pseudo header is four bytes wide   *)
(* and clears the source port behind it, so the sum is taken without the    *)
(* port and the port subtracted from the result.                            *)
PortPatch(c) == (c + M + 1 - HostPort) % (M + 1)

tcp_send(pseudo, rest) ==
  LET sum == ip_checksum(pseudo \o BytesOf(0) \o BytesOf(0) \o rest)
  IN ck' = Made("tcp", pseudo \o BytesOf(HostPort) \o BytesOf(PortPatch(sum)) \o rest,
                FALSE, sum < HostPort)

(* Headers start with IP_VER_LEN, which is not zero.                        *)
Headers == {<<1>> \o h : h \in ByteSeqs(HdrLen - 1)}

Next ==
  /\ ck.kind = "none"
  /\ \/ \E hdr \in Headers : ip_send(hdr)
     \/ \E hdr \in Headers, c \in Words : ip_recv(hdr, c)
     \/ \E c \in Words, n \in BodyLens : \E body \in ByteSeqs(n) : icmp_echo_reply(c, body)
     \/ \E n \in BodyLens : \E rest \in ByteSeqs(n) : tcp_send(<<1, 2>>, rest)

-----------------------------------------------------------------------------
(* Every IP header this machine sends passes the receiver's sum; ip_recv    *)
(* accepts exactly the headers whose words add up to all ones, whatever     *)
(* bytes they consist of (the checksum all ones is left out: no sender      *)
(* produces it); and the checksums icmp_echo_reply and tcp_send patch are   *)
(* right exactly when adding the echo type or subtracting the port stayed   *)
(* in the range of a word, so those shortcuts are the only wrong ones.      *)
ChecksumsRight ==
  LET field == SubSeq(ck.msg, HdrLen + 1, HdrLen + 2)
  IN /\ ck.kind = "ip_send" => Right(ck.msg)
     /\ ck.kind = "ip_recv" /\ field # BytesOf(M) => (ck.accepted <=> Right(ck.msg))
     /\ ck.kind \in {"icmp", "tcp"} => (Right(ck.msg) <=> ~ck.wrapped)
=============================================================================

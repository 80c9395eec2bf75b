--------------------------- MODULE PipeLibProofs ---------------------------
(***************************************************************************)
(* The invariant of the library of pipes, for any number of processes,     *)
(* descriptors and pipes, buffers of any size, and processes that make any *)
(* calls in any order.  PipesProofs builds on it.                          *)
(***************************************************************************)
EXTENDS PipeLib, TLAPS

(* The values the library works with.                                       *)
LEMMA Pages ==
  /\ \A k \in PipeIds, e \in Ends : <<k, e>> \in PipePages
  /\ \A x \in PipePages : x = <<x[1], x[2]>> /\ x[1] \in PipeIds /\ x[2] \in Ends
  /\ NoFd \notin PipePages /\ Cons \notin PipePages
  /\ NoFd \in FdPages /\ Cons \in FdPages /\ PipePages \subseteq FdPages
  /\ \A x \in FdPages : x # NoFd /\ x # Cons => x \in PipePages
BY PipeIdsAssumption DEF PipePages, FdPages, NoFd, Cons

LEMMA SmallFds == 0 \in Fds /\ 1 \in Fds
BY MAXFDSAssumption DEF Fds

LEMMA InFields ==
  ASSUME NEW op, NEW i, NEW to, NEW n, NEW b
  PROVE  /\ In(op, i, to, n, b).op = op /\ In(op, i, to, n, b).fd = i
         /\ In(op, i, to, n, b).to = to /\ In(op, i, to, n, b).n = n
         /\ In(op, i, to, n, b).byte = b
BY DEF In

LEMMA InType ==
  ASSUME NEW op \in LibOps, NEW i \in Fds, NEW to \in Fds \cup Procs, NEW n \in Nat,
         NEW b \in PipeBytes
  PROVE  In(op, i, to, n, b) \in LibRec
BY DEF In, LibRec

LEMMA UserType == User \in LibRec /\ User.op = "user"
BY SmallFds, PipeBytesAssumption DEF User, In, LibRec, LibOps

LEMMA LibFields ==
  ASSUME NEW r \in LibRec
  PROVE  /\ r.op \in LibOps /\ r.fd \in Fds /\ r.to \in Fds \cup Procs
         /\ r.n \in Nat /\ r.byte \in PipeBytes
BY DEF LibRec

(* What holds of a process does not depend on the others.                   *)
LEMMA SameProcess ==
  ASSUME NEW r \in Procs, lib'[r] = lib[r], fd'[r] = fd[r], data'[r] = data[r]
  PROVE  /\ MapsRight(r) => MapsRight(r)'
         /\ Backed(r) => Backed(r)'
<1>1. MapsRight(r) => MapsRight(r)'
  BY DEF MapsRight
<1>2. Backed(r) => Backed(r)'
  BY DEF Backed
<1>. QED
  BY <1>1, <1>2

(* A step of one process that is not spawning leaves the others alone.      *)
LEMMA OneProcess ==
  ASSUME LibInv, LibTypeOK', NEW p \in Procs,
         status[p] = "runnable", lib[p].op # "share", lib'[p].op # "share",
         UNCHANGED status,
         \A q \in Procs : q # p => lib'[q] = lib[q] /\ fd'[q] = fd[q] /\ data'[q] = data[q],
         Backed(p)', MapsRight(p)'
  PROVE  LibInv'
<1>1. ProcInv'
  <2>. SUFFICES ASSUME NEW q \in Procs
       PROVE /\ status'[q] # "runnable" => lib'[q].op = "user"
             /\ status'[q] = "free" => \A i \in Fds : fd'[q][i] = NoFd /\ data'[q][i] = 0
             /\ status'[q] # "notrunnable" => Backed(q)'
             /\ MapsRight(q)'
    BY DEF ProcInv
  <2>1. CASE q = p
    BY <2>1
  <2>2. CASE q # p
    BY <2>2, SameProcess DEF LibInv, ProcInv
  <2>. QED
    BY <2>1, <2>2
<1>2. SpawnInv'
  <2>1. ASSUME NEW r \in Procs, lib'[r].op = "share"
        PROVE  /\ r # p /\ lib'[r] = lib[r] /\ lib[r].to # p
               /\ lib[r].to \in Procs /\ status[lib[r].to] = "notrunnable"
               /\ PassedOn(r, lib[r].to)
    BY <2>1 DEF LibInv, SpawnInv
  <2>2. ASSUME NEW r \in Procs, lib'[r].op = "share"
        PROVE  /\ lib'[r].to \in Procs /\ status'[lib'[r].to] = "notrunnable"
               /\ PassedOn(r, lib[r].to)'
    BY <2>1, <2>2 DEF PassedOn
  <2>3. ASSUME NEW r \in Procs, NEW q \in Procs
        PROVE  Passes(r, q)' <=> Passes(r, q)
    BY DEF Passes
  <2>. QED
    BY <2>1, <2>2, <2>3 DEF LibInv, SpawnInv
<1>. QED
  BY <1>1, <1>2 DEF LibInv

BytesTypeOK ==
  /\ pipe \in [PipeIds -> [rpos : Nat, wpos : Nat, buf : [0 .. PIPEBUFSIZ - 1 -> PipeBytes]]]
  /\ sent \in [PipeIds -> Seq(PipeBytes)] /\ got \in [PipeIds -> Seq(PipeBytes)]

(* A step inside read, write or pipeisclosed maps and unmaps nothing.       *)
LEMMA LibOnly ==
  ASSUME LibInv, BytesTypeOK', NEW p \in Procs, NEW w \in LibRec,
         status[p] = "runnable", lib[p].op # "share",
         lib' = [lib EXCEPT ![p] = w], UNCHANGED <<status, maps>>,
         \/ w.op = "user"
         \/ w.op \in ReadOps /\ w.n # 0 /\ \E k \in PipeIds : fd[p][w.fd] = <<k, "read">>
         \/ w.op \in WriteOps /\ w.n # 0 /\ \E k \in PipeIds : fd[p][w.fd] = <<k, "write">>
         \/ w.op = "poll" /\ fd[p][w.fd] \in PipePages
  PROVE  LibInv'
<1>1. lib \in [Procs -> LibRec] /\ lib'[p] = w
  BY DEF LibInv, LibTypeOK
<1>2. LibTypeOK'
  BY <1>1 DEF LibInv, LibTypeOK, BytesTypeOK, maps
<1>3. \A q \in Procs : q # p => lib'[q] = lib[q] /\ fd'[q] = fd[q] /\ data'[q] = data[q]
  BY <1>1 DEF maps
<1>4. Backed(p)'
  BY DEF LibInv, ProcInv, Backed, maps
<1>5. lib'[p].op # "share"
  BY <1>1 DEF ReadOps, WriteOps
<1>6. MapsRight(p)'
  <2>1. fd' = fd /\ data' = data
    BY DEF maps
  <2>. QED
    BY <1>1, <2>1 DEF MapsRight, ReadOps, WriteOps
<1>. QED
  BY <1>2, <1>3, <1>4, <1>5, <1>6, OneProcess

(* The same for a step to op with n bytes to go, in a read or a write.      *)
LEMMA LibOnlyRead ==
  ASSUME LibInv, BytesTypeOK', NEW p \in Procs, NEW op \in ReadOps, NEW i \in Fds, NEW n \in Nat \ {0},
         status[p] = "runnable", lib[p].op # "share",
         lib' = [lib EXCEPT ![p] = In(op, i, 0, n, 0)], UNCHANGED <<status, maps>>,
         \E k \in PipeIds : fd[p][i] = <<k, "read">>
  PROVE  LibInv'
<1>. DEFINE w == In(op, i, 0, n, 0)
<1>1. w \in LibRec
  <2>1. op \in LibOps /\ 0 \in Fds \cup Procs
    BY SmallFds DEF LibOps
  <2>. QED
    BY <2>1, InType, PipeBytesAssumption
<1>2. w.op = op /\ w.fd = i /\ w.n = n
  BY InFields
<1>3. lib' = [lib EXCEPT ![p] = w]
  OBVIOUS
<1>. HIDE DEF w
<1>. QED
  BY <1>1, <1>2, <1>3, LibOnly, Zenon

LEMMA LibOnlyWrite ==
  ASSUME LibInv, BytesTypeOK', NEW p \in Procs, NEW op \in WriteOps, NEW i \in Fds, NEW n \in Nat \ {0},
         NEW b \in PipeBytes,
         status[p] = "runnable", lib[p].op # "share",
         lib' = [lib EXCEPT ![p] = In(op, i, 0, n, b)], UNCHANGED <<status, maps>>,
         \E k \in PipeIds : fd[p][i] = <<k, "write">>
  PROVE  LibInv'
<1>. DEFINE w == In(op, i, 0, n, b)
<1>1. w \in LibRec
  <2>1. op \in LibOps /\ 0 \in Fds \cup Procs
    BY SmallFds DEF LibOps
  <2>. QED
    BY <2>1, InType
<1>2. w.op = op /\ w.fd = i /\ w.n = n
  BY InFields
<1>3. lib' = [lib EXCEPT ![p] = w]
  OBVIOUS
<1>. HIDE DEF w
<1>. QED
  BY <1>1, <1>2, <1>3, LibOnly, Zenon

LEMMA LibOnlyReturn ==
  ASSUME LibInv, BytesTypeOK', NEW p \in Procs,
         status[p] = "runnable", lib[p].op # "share", Returns(p), UNCHANGED <<status, maps>>
  PROVE  LibInv'
BY UserType, LibOnly, Zenon DEF Returns, Goes

(* What a process has mapped in the middle of a read or a write.            *)
LEMMA Reading ==
  ASSUME LibInv, NEW p \in Procs, status[p] = "runnable", lib[p].op \in ReadOps
  PROVE  /\ lib[p].fd \in Fds /\ lib[p].n \in Nat \ {0} /\ lib[p].op # "share"
         /\ \E k \in PipeIds : fd[p][lib[p].fd] = <<k, "read">> /\ PipeOf(p) = k
<1>1. PICK k \in PipeIds : fd[p][lib[p].fd] = <<k, "read">>
  BY DEF LibInv, ProcInv, MapsRight
<1>2. <<k, "read">> \in PipePages /\ <<k, "read">>[1] = k
  BY Pages, Zenon DEF Ends
<1>3. lib[p].fd \in Fds /\ lib[p].n \in Nat
  BY LibFields DEF LibInv, LibTypeOK
<1>4. lib[p].n # 0
  BY DEF LibInv, ProcInv, MapsRight
<1>. QED
  BY <1>1, <1>2, <1>3, <1>4 DEF LibInv, ProcInv, Backed, PipeOf, ReadOps

LEMMA Writing ==
  ASSUME LibInv, NEW p \in Procs, status[p] = "runnable", lib[p].op \in WriteOps
  PROVE  /\ lib[p].fd \in Fds /\ lib[p].n \in Nat \ {0} /\ lib[p].op # "share"
         /\ \E k \in PipeIds : fd[p][lib[p].fd] = <<k, "write">> /\ PipeOf(p) = k
<1>1. PICK k \in PipeIds : fd[p][lib[p].fd] = <<k, "write">>
  BY DEF LibInv, ProcInv, MapsRight
<1>2. <<k, "write">> \in PipePages /\ <<k, "write">>[1] = k
  BY Pages, Zenon DEF Ends
<1>3. lib[p].fd \in Fds /\ lib[p].n \in Nat
  BY LibFields DEF LibInv, LibTypeOK
<1>4. lib[p].n # 0
  BY DEF LibInv, ProcInv, MapsRight
<1>. QED
  BY <1>1, <1>2, <1>3, <1>4 DEF LibInv, ProcInv, Backed, PipeOf, WriteOps

LEMMA BytesType ==
  ASSUME LibInv
  PROVE  BytesTypeOK /\ (UNCHANGED bytes => BytesTypeOK')
BY DEF LibInv, LibTypeOK, BytesTypeOK, bytes

LEMMA ReadSteps ==
  ASSUME LibInv, NEW p \in Procs,
         \/ ReadCheck(p) \/ ReadEmpty(p) \/ ReadTake(p) \/ ReadNext(p)
         \/ \E i \in Fds, n \in Nat \ {0} : readn(p, i, n)
  PROVE  LibInv'
<1>1. CASE ReadCheck(p)
  <2>1. status[p] = "runnable" /\ lib[p].op \in ReadOps
    BY <1>1 DEF ReadCheck, At, ReadOps
  <2>2. PICK op \in ReadOps : lib' = [lib EXCEPT ![p] = In(op, lib[p].fd, 0, lib[p].n, 0)]
    BY <1>1, Zenon DEF ReadCheck, Doing, Goes, ReadOps
  <2>3. UNCHANGED <<status, maps>> /\ UNCHANGED bytes
    BY <1>1 DEF ReadCheck, OnlyLib
  <2>. QED
    BY <2>1, <2>2, <2>3, Reading, BytesType, LibOnlyRead, Zenon
<1>2. CASE ReadEmpty(p)
  <2>1. lib[p].op \in ReadOps /\ status[p] = "runnable"
    BY <1>2 DEF ReadEmpty, At, ReadOps
  <2>2. UNCHANGED <<status, maps>> /\ UNCHANGED bytes
    BY <1>2 DEF ReadEmpty, OnlyLib
  <2>3. \/ Returns(p)
        \/ lib' = [lib EXCEPT ![p] = In("read", lib[p].fd, 0, lib[p].n, 0)] /\ "read" \in ReadOps
    BY <1>2 DEF ReadEmpty, Doing, Goes, ReadOps
  <2>4. CASE Returns(p)
    BY <2>1, <2>2, <2>4, Reading, BytesType, LibOnlyReturn
  <2>5. CASE lib' = [lib EXCEPT ![p] = In("read", lib[p].fd, 0, lib[p].n, 0)] /\ "read" \in ReadOps
    <3>1. BytesTypeOK' /\ lib[p].fd \in Fds /\ lib[p].n \in Nat \ {0} /\ lib[p].op # "share"
      BY <2>1, <2>2, Reading, BytesType
    <3>2. \E k \in PipeIds : fd[p][lib[p].fd] = <<k, "read">>
      BY <2>1, Reading
    <3>. QED
      BY <2>1, <2>2, <2>5, <3>1, <3>2, LibOnlyRead, Zenon
  <2>. QED
    BY <2>3, <2>4, <2>5
<1>3. CASE ReadTake(p)
  <2>1. lib[p].op \in ReadOps /\ status[p] = "runnable"
    BY <1>3 DEF ReadTake, At, ReadOps
  <2>2. UNCHANGED <<status, maps>>
    BY <1>3 DEF ReadTake
  <2>3. BytesTypeOK'
    <3>1. PICK k \in PipeIds : PipeOf(p) = k
      BY <2>1, Reading
    <3>2. pipe[k].rpos \in Nat /\ pipe[k].buf \in [0 .. PIPEBUFSIZ - 1 -> PipeBytes]
      BY BytesType DEF BytesTypeOK
    <3>3. pipe[k].rpos % PIPEBUFSIZ \in 0 .. PIPEBUFSIZ - 1
      BY <3>2, PIPEBUFSIZAssumption
    <3>4. pipe[k].buf[pipe[k].rpos % PIPEBUFSIZ] \in PipeBytes
      BY <3>2, <3>3, Zenon
    <3>5. got' = [got EXCEPT ![k] = Append(@, pipe[k].buf[pipe[k].rpos % PIPEBUFSIZ])]
      BY <1>3, <3>1 DEF ReadTake
    <3>6. got' \in [PipeIds -> Seq(PipeBytes)]
      BY <3>4, <3>5, BytesType DEF BytesTypeOK
    <3>. QED
      BY <3>6, <1>3, BytesType DEF BytesTypeOK, ReadTake
  <2>4. lib' = [lib EXCEPT ![p] = In("rpos", lib[p].fd, 0, lib[p].n, 0)] /\ "rpos" \in ReadOps
    BY <1>3 DEF ReadTake, Doing, Goes, ReadOps
  <2>. QED
    BY <2>1, <2>2, <2>3, <2>4, Reading, LibOnlyRead, Zenon
<1>4. CASE ReadNext(p)
  <2>1. lib[p].op \in ReadOps /\ status[p] = "runnable"
    BY <1>4 DEF ReadNext, At, ReadOps
  <2>2. UNCHANGED <<status, maps>>
    BY <1>4 DEF ReadNext
  <2>3. BytesTypeOK'
    <3>1. PICK k \in PipeIds : PipeOf(p) = k
      BY <2>1, Reading
    <3>2. pipe' = [pipe EXCEPT ![k].rpos = @ + 1] /\ UNCHANGED <<sent, got>>
      BY <1>4, <3>1 DEF ReadNext
    <3>3. pipe[k].rpos + 1 \in Nat
      BY BytesType DEF BytesTypeOK
    <3>. QED
      BY <3>2, <3>3, BytesType, Zenon DEF BytesTypeOK
  <2>4. \/ Returns(p)
        \/ /\ lib' = [lib EXCEPT ![p] = In("read", lib[p].fd, 0, lib[p].n - 1, 0)]
           /\ "read" \in ReadOps /\ lib[p].n # 1
    BY <1>4 DEF ReadNext, Doing, Goes, ReadOps
  <2>5. lib[p].n # 1 => lib[p].n - 1 \in Nat \ {0}
    BY <2>1, Reading
  <2>6. CASE Returns(p)
    BY <2>1, <2>2, <2>3, <2>6, Reading, LibOnlyReturn
  <2>7. CASE /\ lib' = [lib EXCEPT ![p] = In("read", lib[p].fd, 0, lib[p].n - 1, 0)]
             /\ "read" \in ReadOps /\ lib[p].n # 1
    <3>1. lib[p].fd \in Fds /\ lib[p].op # "share"
          /\ \E k \in PipeIds : fd[p][lib[p].fd] = <<k, "read">>
      BY <2>1, Reading
    <3>. QED
      BY <2>1, <2>2, <2>3, <2>5, <2>7, <3>1, LibOnlyRead, Zenon
  <2>. QED
    BY <2>4, <2>6, <2>7
<1>5. CASE \E i \in Fds, n \in Nat \ {0} : readn(p, i, n)
  <2>1. PICK i \in Fds, n \in Nat \ {0} : readn(p, i, n)
    BY <1>5
  <2>2. PICK op \in ReadOps : lib' = [lib EXCEPT ![p] = In(op, i, 0, n, 0)]
    BY <2>1, Zenon DEF readn, Goes, ReadOps
  <2>3. UNCHANGED <<status, maps>> /\ UNCHANGED bytes
    BY <2>1 DEF readn, OnlyLib
  <2>4. status[p] = "runnable" /\ lib[p].op # "share" /\ \E k \in PipeIds : fd[p][i] = <<k, "read">>
    BY <2>1 DEF readn, Calls, At
  <2>. QED
    BY <2>2, <2>3, <2>4, BytesType, LibOnlyRead, Zenon
<1>. QED
  BY <1>1, <1>2, <1>3, <1>4, <1>5
LEMMA WriteSteps ==
  ASSUME LibInv, NEW p \in Procs,
         \/ WriteCheck(p) \/ WriteFull(p) \/ (\E b \in PipeBytes : WritePut(p, b)) \/ WriteNext(p)
         \/ \E i \in Fds, n \in Nat \ {0} : write(p, i, n)
  PROVE  LibInv'
<1>1. CASE WriteCheck(p)
  <2>1. status[p] = "runnable" /\ lib[p].op \in WriteOps
    BY <1>1 DEF WriteCheck, At, WriteOps
  <2>2. PICK op \in WriteOps : lib' = [lib EXCEPT ![p] = In(op, lib[p].fd, 0, lib[p].n, 0)]
    BY <1>1, Zenon DEF WriteCheck, Doing, Goes, WriteOps
  <2>3. UNCHANGED <<status, maps>> /\ UNCHANGED bytes
    BY <1>1 DEF WriteCheck, OnlyLib
  <2>. QED
    BY <2>1, <2>2, <2>3, Writing, BytesType, PipeBytesAssumption, LibOnlyWrite, Zenon
<1>2. CASE WriteFull(p)
  <2>1. lib[p].op \in WriteOps /\ status[p] = "runnable"
    BY <1>2 DEF WriteFull, At, WriteOps
  <2>2. UNCHANGED <<status, maps>> /\ UNCHANGED bytes
    BY <1>2 DEF WriteFull, OnlyLib
  <2>3. \/ Returns(p)
        \/ lib' = [lib EXCEPT ![p] = In("write", lib[p].fd, 0, lib[p].n, 0)] /\ "write" \in WriteOps
    BY <1>2 DEF WriteFull, Doing, Goes, WriteOps
  <2>4. CASE Returns(p)
    BY <2>1, <2>2, <2>4, Writing, BytesType, LibOnlyReturn
  <2>5. CASE lib' = [lib EXCEPT ![p] = In("write", lib[p].fd, 0, lib[p].n, 0)] /\ "write" \in WriteOps
    <3>1. BytesTypeOK' /\ lib[p].fd \in Fds /\ lib[p].n \in Nat \ {0} /\ lib[p].op # "share"
      BY <2>1, <2>2, Writing, BytesType
    <3>2. \E k \in PipeIds : fd[p][lib[p].fd] = <<k, "write">>
      BY <2>1, Writing
    <3>. QED
      BY <2>1, <2>2, <2>5, <3>1, <3>2, PipeBytesAssumption, LibOnlyWrite, Zenon
  <2>. QED
    BY <2>3, <2>4, <2>5
<1>3. CASE \E b \in PipeBytes : WritePut(p, b)
  <2>. PICK b \in PipeBytes : WritePut(p, b)
    BY <1>3
  <2>1. lib[p].op \in WriteOps /\ status[p] = "runnable"
    BY DEF WritePut, At, WriteOps
  <2>2. UNCHANGED <<status, maps>>
    BY DEF WritePut
  <2>3. BytesTypeOK'
    <3>1. PICK k \in PipeIds : PipeOf(p) = k
      BY <2>1, Writing
    <3>2. pipe' = [pipe EXCEPT ![k].buf[pipe[k].wpos % PIPEBUFSIZ] = b] /\ UNCHANGED <<sent, got>>
      BY <3>1 DEF WritePut
    <3>. QED
      BY <3>2, BytesType, Zenon DEF BytesTypeOK
  <2>4. lib' = [lib EXCEPT ![p] = In("wpos", lib[p].fd, 0, lib[p].n, b)] /\ "wpos" \in WriteOps
    BY DEF WritePut, Goes, WriteOps
  <2>. QED
    BY <2>1, <2>2, <2>3, <2>4, Writing, LibOnlyWrite, Zenon
<1>4. CASE WriteNext(p)
  <2>1. lib[p].op \in WriteOps /\ status[p] = "runnable"
    BY <1>4 DEF WriteNext, At, WriteOps
  <2>2. UNCHANGED <<status, maps>>
    BY <1>4 DEF WriteNext
  <2>3. BytesTypeOK'
    <3>1. PICK k \in PipeIds : PipeOf(p) = k
      BY <2>1, Writing
    <3>2. /\ pipe' = [pipe EXCEPT ![k].wpos = @ + 1] /\ UNCHANGED got
          /\ sent' = [sent EXCEPT ![k] = Append(@, lib[p].byte)]
      BY <1>4, <3>1 DEF WriteNext
    <3>3. pipe[k].wpos + 1 \in Nat /\ lib[p].byte \in PipeBytes
      BY BytesType, LibFields DEF BytesTypeOK, LibInv, LibTypeOK
    <3>4. sent' \in [PipeIds -> Seq(PipeBytes)]
      BY <3>2, <3>3, BytesType DEF BytesTypeOK
    <3>. QED
      BY <3>2, <3>3, <3>4, BytesType, Zenon DEF BytesTypeOK
  <2>4. \/ Returns(p)
        \/ /\ lib' = [lib EXCEPT ![p] = In("write", lib[p].fd, 0, lib[p].n - 1, 0)]
           /\ "write" \in WriteOps /\ lib[p].n # 1
    BY <1>4 DEF WriteNext, Doing, Goes, WriteOps
  <2>5. lib[p].n # 1 => lib[p].n - 1 \in Nat \ {0}
    BY <2>1, Writing
  <2>6. CASE Returns(p)
    BY <2>1, <2>2, <2>3, <2>6, Writing, LibOnlyReturn
  <2>7. CASE /\ lib' = [lib EXCEPT ![p] = In("write", lib[p].fd, 0, lib[p].n - 1, 0)]
             /\ "write" \in WriteOps /\ lib[p].n # 1
    <3>1. lib[p].fd \in Fds /\ lib[p].op # "share"
          /\ \E k \in PipeIds : fd[p][lib[p].fd] = <<k, "write">>
      BY <2>1, Writing
    <3>. QED
      BY <2>1, <2>2, <2>3, <2>5, <2>7, <3>1, PipeBytesAssumption, LibOnlyWrite, Zenon
  <2>. QED
    BY <2>4, <2>6, <2>7
<1>5. CASE \E i \in Fds, n \in Nat \ {0} : write(p, i, n)
  <2>1. PICK i \in Fds, n \in Nat \ {0} : write(p, i, n)
    BY <1>5
  <2>2. PICK op \in WriteOps : lib' = [lib EXCEPT ![p] = In(op, i, 0, n, 0)]
    BY <2>1, Zenon DEF write, Goes, WriteOps
  <2>3. UNCHANGED <<status, maps>> /\ UNCHANGED bytes
    BY <2>1 DEF write, OnlyLib
  <2>4. status[p] = "runnable" /\ lib[p].op # "share" /\ \E k \in PipeIds : fd[p][i] = <<k, "write">>
    BY <2>1 DEF write, Calls, At
  <2>. QED
    BY <2>2, <2>3, <2>4, BytesType, PipeBytesAssumption, LibOnlyWrite, Zenon
<1>. QED
  BY <1>1, <1>2, <1>3, <1>4, <1>5

LEMMA PollSteps ==
  ASSUME LibInv, NEW p \in Procs, PollAnswer(p) \/ \E i \in Fds : pipeisclosed(p, i)
  PROVE  LibInv'
<1>1. CASE PollAnswer(p)
  BY <1>1, BytesType, LibOnlyReturn DEF PollAnswer, At, OnlyLib
<1>2. CASE \E i \in Fds : pipeisclosed(p, i)
  <2>1. PICK i \in Fds : pipeisclosed(p, i)
    BY <1>2
  <2>. DEFINE w == In("poll", i, 0, 0, 0)
  <2>2. w \in LibRec
    BY InType, SmallFds, PipeBytesAssumption DEF LibOps
  <2>3. w.op = "poll" /\ w.fd = i
    BY InFields
  <2>4. /\ lib' = [lib EXCEPT ![p] = w] /\ UNCHANGED <<status, maps>> /\ UNCHANGED bytes
        /\ status[p] = "runnable" /\ lib[p].op # "share" /\ fd[p][i] \in PipePages
    BY <2>1 DEF pipeisclosed, Goes, OnlyLib, Calls, At
  <2>. HIDE DEF w
  <2>. QED
    BY <2>2, <2>3, <2>4, BytesType, LibOnly, Zenon
<1>. QED
  BY <1>1, <1>2

(* A step in close, dup or pipe leaves the process with the descriptors f   *)
(* and the pipes d.                                                         *)
LEMMA OwnMaps ==
  ASSUME LibInv, BytesTypeOK', NEW p \in Procs, NEW w \in LibRec,
         NEW f \in [Fds -> FdPages], NEW d \in [Fds -> PipeIds \cup {0}],
         status[p] = "runnable", lib[p].op # "share", UNCHANGED status,
         lib' = [lib EXCEPT ![p] = w], fd' = [fd EXCEPT ![p] = f], data' = [data EXCEPT ![p] = d],
         \A i \in Fds : f[i] \in PipePages => d[i] = f[i][1],
         \/ w.op = "user"
         \/ w.op = "closing" /\ f[w.fd] = NoFd
         \/ w.op \in {"dupclosing", "dup"} /\ w.to \in Fds /\ f[w.to] = NoFd
         \/ w.op = "dupfd" /\ w.to \in Fds /\ f[w.to] = NoFd /\ d[w.to] = d[w.fd]
  PROVE  LibInv'
<1>1. /\ lib \in [Procs -> LibRec] /\ fd \in [Procs -> [Fds -> FdPages]]
      /\ data \in [Procs -> [Fds -> PipeIds \cup {0}]]
  BY DEF LibInv, LibTypeOK
<1>2. lib'[p] = w /\ fd'[p] = f /\ data'[p] = d
  BY <1>1
<1>3. LibTypeOK'
  BY <1>1 DEF LibInv, LibTypeOK, BytesTypeOK
<1>4. \A q \in Procs : q # p => lib'[q] = lib[q] /\ fd'[q] = fd[q] /\ data'[q] = data[q]
  BY <1>1
<1>5. Backed(p)'
  BY <1>2 DEF Backed
<1>6. lib'[p].op # "share"
  BY <1>2
<1>7. MapsRight(p)'
  BY <1>2, Zenon DEF MapsRight, ReadOps, WriteOps
<1>. QED
  BY <1>3, <1>4, <1>5, <1>6, <1>7, OneProcess

(* What a process that is not being spawned has mapped.                     *)
LEMMA OwnTypes ==
  ASSUME LibInv, NEW p \in Procs, status[p] = "runnable"
  PROVE  /\ fd \in [Procs -> [Fds -> FdPages]] /\ data \in [Procs -> [Fds -> PipeIds \cup {0}]]
         /\ fd[p] \in [Fds -> FdPages] /\ data[p] \in [Fds -> PipeIds \cup {0}]
         /\ \A i \in Fds : fd[p][i] \in PipePages => data[p][i] = fd[p][i][1]
         /\ lib \in [Procs -> LibRec] /\ lib[p] \in LibRec
         /\ lib[p].fd \in Fds /\ lib[p].to \in Fds \cup Procs
BY LibFields, Zenon DEF LibInv, LibTypeOK, ProcInv, Backed

LEMMA CloseSteps ==
  ASSUME LibInv, NEW p \in Procs, CloseRest(p) \/ \E i \in Fds : close(p, i)
  PROVE  LibInv'
<1>1. CASE CloseRest(p)
  <2>. DEFINE i == lib[p].fd
              f == [fd[p] EXCEPT ![i] = NoFd]
              d == [data[p] EXCEPT ![i] = 0]
  <2>1. status[p] = "runnable" /\ lib[p].op # "share" /\ UNCHANGED status /\ UNCHANGED bytes
    BY <1>1 DEF CloseRest, At, SameBytes
  <2>2. lib' = [lib EXCEPT ![p] = User] /\ fd' = [fd EXCEPT ![p] = f] /\ data' = [data EXCEPT ![p] = d]
    BY <1>1, <2>1, OwnTypes DEF CloseRest, UnmapRest, Returns, Goes
  <2>3. f \in [Fds -> FdPages] /\ d \in [Fds -> PipeIds \cup {0}]
    BY <2>1, OwnTypes, Pages
  <2>4. \A j \in Fds : f[j] \in PipePages => d[j] = f[j][1]
    BY <2>1, OwnTypes, Pages
  <2>. HIDE DEF f, d
  <2>. QED
    BY <2>1, <2>2, <2>3, <2>4, BytesType, UserType, OwnMaps, Zenon
<1>2. CASE \E i \in Fds : close(p, i)
  <2>. PICK i \in Fds : close(p, i)
    BY <1>2
  <2>. DEFINE f == [fd[p] EXCEPT ![i] = NoFd]
              w == IF fd[p][i] = Cons THEN User ELSE In("closing", i, 0, 0, 0)
  <2>1. status[p] = "runnable" /\ lib[p].op # "share" /\ UNCHANGED status /\ UNCHANGED bytes
    BY DEF close, Calls, At, SameBytes
  <2>2. lib' = [lib EXCEPT ![p] = w] /\ fd' = [fd EXCEPT ![p] = f] /\ data' = [data EXCEPT ![p] = data[p]]
    BY <2>1, OwnTypes DEF close, Unmap, Goes
  <2>3. f \in [Fds -> FdPages]
    BY <2>1, OwnTypes, Pages
  <2>4. \A j \in Fds : f[j] \in PipePages => data[p][j] = f[j][1]
    BY <2>1, OwnTypes, Pages
  <2>5. f[i] = NoFd
    BY <2>1, OwnTypes
  <2>6. w \in LibRec /\ (w.op = "user" \/ (w.op = "closing" /\ w.fd = i))
    <3>1. In("closing", i, 0, 0, 0) \in LibRec
      BY InType, SmallFds, PipeBytesAssumption DEF LibOps
    <3>2. In("closing", i, 0, 0, 0).op = "closing" /\ In("closing", i, 0, 0, 0).fd = i
      BY InFields
    <3>3. w = User \/ w = In("closing", i, 0, 0, 0)
      OBVIOUS
    <3>. HIDE DEF w
    <3>. QED
      BY <3>1, <3>2, <3>3, UserType
  <2>. HIDE DEF f, w
  <2>. QED
    BY <2>1, <2>2, <2>3, <2>4, <2>5, <2>6, BytesType, OwnTypes, OwnMaps, Zenon
<1>. QED
  BY <1>1, <1>2

(* dup from the moment the new descriptor is closed.                        *)
LEMMA DupMapStep ==
  ASSUME LibInv, NEW p \in Procs, NEW o \in Fds, NEW n \in Fds,
         status[p] = "runnable", lib[p].op # "share", fd[p][n] = NoFd,
         DupMap(p, o, n), UNCHANGED status, UNCHANGED bytes
  PROVE  LibInv'
<1>1. CASE data[p][o] # 0
  <2>. DEFINE d == [data[p] EXCEPT ![n] = data[p][o]]
              w == In("dupfd", o, n, 0, 0)
  <2>2. lib' = [lib EXCEPT ![p] = w] /\ fd' = [fd EXCEPT ![p] = fd[p]] /\ data' = [data EXCEPT ![p] = d]
    BY <1>1, OwnTypes DEF DupMap, Goes
  <2>3. d \in [Fds -> PipeIds \cup {0}] /\ d[n] = d[o]
    BY OwnTypes
  <2>4. \A j \in Fds : fd[p][j] \in PipePages => d[j] = fd[p][j][1]
    BY OwnTypes, Pages
  <2>5. w \in LibRec
    BY InType, PipeBytesAssumption DEF LibOps
  <2>6. w.op = "dupfd" /\ w.fd = o /\ w.to = n
    BY InFields
  <2>. HIDE DEF d, w
  <2>. QED
    BY <2>2, <2>3, <2>4, <2>5, <2>6, BytesType, OwnTypes, OwnMaps, Zenon
<1>2. CASE data[p][o] = 0
  <2>. DEFINE f == [fd[p] EXCEPT ![n] = fd[p][o]]
  <2>1. fd[p][o] \notin PipePages
    BY <1>2, OwnTypes, Pages, PipeIdsAssumption
  <2>2. lib' = [lib EXCEPT ![p] = User] /\ fd' = [fd EXCEPT ![p] = f] /\ data' = [data EXCEPT ![p] = data[p]]
    BY <1>2, OwnTypes DEF DupMap, Goes, Returns
  <2>3. f \in [Fds -> FdPages]
    BY OwnTypes
  <2>4. \A j \in Fds : f[j] \in PipePages => data[p][j] = f[j][1]
    BY <2>1, OwnTypes
  <2>. HIDE DEF f
  <2>. QED
    BY <2>2, <2>3, <2>4, BytesType, UserType, OwnTypes, OwnMaps, Zenon
<1>. QED
  BY <1>1, <1>2

LEMMA DupSteps ==
  ASSUME LibInv, NEW p \in Procs,
         \/ DupCloseRest(p) \/ DupData(p) \/ DupFd(p)
         \/ \E o, n \in Fds : dup(p, o, n)
  PROVE  LibInv'
<1>0. lib[p].op \in {"dupclosing", "dup", "dupfd"} => lib[p].to \in Fds /\ fd[p][lib[p].to] = NoFd
  BY Zenon DEF LibInv, ProcInv, MapsRight
<1>1. CASE DupCloseRest(p)
  <2>. DEFINE o == lib[p].fd
              n == lib[p].to
              f == [fd[p] EXCEPT ![n] = NoFd]
              d == [data[p] EXCEPT ![n] = 0]
              w == In("dup", o, n, 0, 0)
  <2>1. /\ status[p] = "runnable" /\ lib[p].op # "share" /\ UNCHANGED status /\ UNCHANGED bytes
        /\ o \in Fds /\ n \in Fds
    BY <1>0, <1>1, OwnTypes, Zenon DEF DupCloseRest, At, SameBytes
  <2>2. lib' = [lib EXCEPT ![p] = w] /\ fd' = [fd EXCEPT ![p] = f] /\ data' = [data EXCEPT ![p] = d]
    BY <1>1, <2>1, OwnTypes DEF DupCloseRest, UnmapRest, Goes
  <2>3. f \in [Fds -> FdPages] /\ d \in [Fds -> PipeIds \cup {0}] /\ f[n] = NoFd
    BY <2>1, OwnTypes, Pages
  <2>4. \A j \in Fds : f[j] \in PipePages => d[j] = f[j][1]
    BY <2>1, OwnTypes, Pages
  <2>5. w \in LibRec
    BY <2>1, InType, PipeBytesAssumption, Zenon DEF LibOps
  <2>6. w.op = "dup" /\ w.to = n
    BY InFields
  <2>. HIDE DEF f, d, w, n, o
  <2>. QED
    BY <2>1, <2>2, <2>3, <2>4, <2>5, <2>6, BytesType, OwnMaps, Zenon
<1>2. CASE DupData(p)
  <2>1. /\ status[p] = "runnable" /\ lib[p].op = "dup" /\ UNCHANGED status /\ UNCHANGED bytes
        /\ DupMap(p, lib[p].fd, lib[p].to)
    BY <1>2 DEF DupData, At, SameBytes
  <2>2. lib[p].fd \in Fds /\ lib[p].to \in Fds /\ fd[p][lib[p].to] = NoFd
    BY <1>0, <2>1, OwnTypes
  <2>. QED
    BY <2>1, <2>2, DupMapStep
<1>3. CASE DupFd(p)
  <2>. DEFINE o == lib[p].fd
              n == lib[p].to
              f == [fd[p] EXCEPT ![n] = fd[p][o]]
  <2>1. /\ status[p] = "runnable" /\ lib[p].op = "dupfd" /\ UNCHANGED status /\ UNCHANGED bytes
        /\ o \in Fds /\ n \in Fds
    BY <1>0, <1>3, OwnTypes DEF DupFd, At, SameBytes
  <2>2. lib' = [lib EXCEPT ![p] = User] /\ fd' = [fd EXCEPT ![p] = f] /\ data' = [data EXCEPT ![p] = data[p]]
    BY <1>3, <2>1, OwnTypes DEF DupFd, Returns, Goes
  <2>3. f \in [Fds -> FdPages]
    BY <2>1, OwnTypes, Pages
  <2>4. data[p][n] = data[p][o]
    BY <2>1, Zenon DEF LibInv, ProcInv, MapsRight
  <2>5. \A j \in Fds : f[j] \in PipePages => data[p][j] = f[j][1]
    BY <2>1, <2>4, OwnTypes, Zenon
  <2>. HIDE DEF f, n, o
  <2>. QED
    BY <2>1, <2>2, <2>3, <2>5, BytesType, UserType, OwnTypes, OwnMaps, Zenon
<1>4. CASE \E o, n \in Fds : dup(p, o, n)
  <2>. PICK o \in Fds, n \in Fds : dup(p, o, n)
    BY <1>4
  <2>1. status[p] = "runnable" /\ lib[p].op # "share" /\ UNCHANGED status /\ UNCHANGED bytes
    BY Zenon DEF dup, Calls, At, SameBytes
  <2>2. CASE fd[p][n] = NoFd
    BY <2>1, <2>2, DupMapStep, Zenon DEF dup
  <2>3. CASE fd[p][n] # NoFd
    <3>. DEFINE op == IF fd[p][n] = Cons THEN "dup" ELSE "dupclosing"
                f == [fd[p] EXCEPT ![n] = NoFd]
                w == In(op, o, n, 0, 0)
    <3>1. lib' = [lib EXCEPT ![p] = w] /\ fd' = [fd EXCEPT ![p] = f] /\ data' = [data EXCEPT ![p] = data[p]]
      BY <2>1, <2>3, OwnTypes DEF dup, Unmap, Goes
    <3>2. f \in [Fds -> FdPages] /\ f[n] = NoFd
      BY <2>1, OwnTypes, Pages
    <3>3. \A j \in Fds : f[j] \in PipePages => data[p][j] = f[j][1]
      BY <2>1, OwnTypes, Pages
    <3>4. op \in {"dup", "dupclosing"}
      OBVIOUS
    <3>. HIDE DEF op
    <3>5. w \in LibRec
      BY <3>4, InType, PipeBytesAssumption DEF LibOps
    <3>6. w.op = op /\ w.to = n
      BY InFields
    <3>. HIDE DEF f, w
    <3>. QED
      BY <2>1, <3>1, <3>2, <3>3, <3>4, <3>5, <3>6, BytesType, OwnTypes, OwnMaps, Zenon
  <2>. QED
    BY <2>2, <2>3
<1>. QED
  BY <1>1, <1>2, <1>3, <1>4

LEMMA PipeStep ==
  ASSUME LibInv, NEW p \in Procs, NEW k \in PipeIds, NEW i \in Fds, NEW j \in Fds, pipe_call(p, k, i, j)
  PROVE  LibInv'
<1>. DEFINE f == [fd[p] EXCEPT ![i] = <<k, "read">>, ![j] = <<k, "write">>]
            d == [data[p] EXCEPT ![i] = k, ![j] = k]
<1>1. status[p] = "runnable" /\ lib[p].op = "user" /\ UNCHANGED status
  BY DEF pipe_call, Calls, At
<1>2. lib' = [lib EXCEPT ![p] = lib[p]] /\ fd' = [fd EXCEPT ![p] = f] /\ data' = [data EXCEPT ![p] = d]
  BY <1>1, OwnTypes DEF pipe_call
<1>3. /\ <<k, "read">> \in FdPages /\ <<k, "write">> \in FdPages
      /\ <<k, "read">>[1] = k /\ <<k, "write">>[1] = k
  BY Pages DEF Ends
<1>4. f \in [Fds -> FdPages] /\ d \in [Fds -> PipeIds \cup {0}]
  BY <1>1, <1>3, OwnTypes, Zenon
<1>5. \A l \in Fds : f[l] \in PipePages => d[l] = f[l][1]
  BY <1>1, <1>3, OwnTypes, Zenon
<1>6. BytesTypeOK'
  <2>1. EmptyPipe \in [rpos : Nat, wpos : Nat, buf : [0 .. PIPEBUFSIZ - 1 -> PipeBytes]]
    BY PipeBytesAssumption DEF EmptyPipe
  <2>. QED
    BY <2>1, BytesType DEF BytesTypeOK, pipe_call
<1>. HIDE DEF f, d
<1>. QED
  BY <1>1, <1>2, <1>4, <1>5, <1>6, OwnTypes, OwnMaps, Zenon

(* A process that is in no call has its descriptors as it likes.            *)
LEMMA UserMaps ==
  ASSUME NEW p \in Procs, lib[p].op = "user"
  PROVE  MapsRight(p)
BY DEF MapsRight, ReadOps, WriteOps

LEMMA ForkStep ==
  ASSUME LibInv, NEW p \in Procs, NEW q \in Procs, fork(p, q)
  PROVE  LibInv'
<1>1. /\ status[p] = "runnable" /\ status[q] = "free" /\ p # q /\ lib[q].op = "user"
      /\ status' = [status EXCEPT ![q] = "runnable"] /\ lib' = lib
      /\ fd' = [fd EXCEPT ![q] = fd[p]] /\ data' = [data EXCEPT ![q] = data[p]] /\ UNCHANGED bytes
  BY DEF fork, Calls, At, FreeEnv, SameBytes, LibInv, ProcInv
<1>2. /\ status \in [Procs -> {"free", "runnable", "notrunnable", "blocked"}]
      /\ fd \in [Procs -> [Fds -> FdPages]] /\ data \in [Procs -> [Fds -> PipeIds \cup {0}]]
  BY DEF LibInv, LibTypeOK
<1>3. LibTypeOK'
  BY <1>1, <1>2, BytesType, Zenon DEF LibInv, LibTypeOK, BytesTypeOK
<1>4. ProcInv'
  <2>. SUFFICES ASSUME NEW r \in Procs
       PROVE /\ status'[r] # "runnable" => lib'[r].op = "user"
             /\ status'[r] = "free" => \A i \in Fds : fd'[r][i] = NoFd /\ data'[r][i] = 0
             /\ status'[r] # "notrunnable" => Backed(r)'
             /\ MapsRight(r)'
    BY Zenon DEF ProcInv
  <2>1. CASE r = q
    <3>1. status'[q] = "runnable" /\ fd'[q] = fd[p] /\ data'[q] = data[p]
      BY <1>1, <1>2
    <3>2. Backed(q)'
      BY <1>1, <3>1, OwnTypes DEF Backed
    <3>. QED
      BY <1>1, <2>1, <3>1, <3>2, Zenon DEF MapsRight, ReadOps, WriteOps
  <2>2. CASE r # q
    <3>1. status'[r] = status[r] /\ fd'[r] = fd[r] /\ data'[r] = data[r]
      BY <1>1, <1>2, <2>2
    <3>. QED
      BY <1>1, <3>1, SameProcess DEF LibInv, ProcInv
  <2>. QED
    BY <2>1, <2>2, Zenon
<1>5. SpawnInv'
  <2>1. ASSUME NEW r \in Procs, lib[r].op = "share"
        PROVE  /\ lib[r].to \in Procs /\ lib[r].to # q /\ r # q
               /\ status'[lib[r].to] = "notrunnable" /\ PassedOn(r, lib[r].to)'
    <3>1. lib[r].to \in Procs /\ lib[r].to # q /\ r # q /\ PassedOn(r, lib[r].to)
          /\ status'[lib[r].to] = "notrunnable"
      BY <1>1, <1>2, <2>1, Zenon DEF LibInv, SpawnInv
    <3>2. fd'[r] = fd[r] /\ data'[r] = data[r] /\ fd'[lib[r].to] = fd[lib[r].to]
          /\ data'[lib[r].to] = data[lib[r].to]
      BY <1>1, <1>2, <3>1
    <3>. QED
      BY <1>1, <3>1, <3>2 DEF PassedOn
  <2>2. \A r \in Procs : status'[r] = "notrunnable" => status[r] = "notrunnable"
    BY <1>1, <1>2
  <2>. QED
    BY <1>1, <2>1, <2>2 DEF LibInv, SpawnInv, Passes
<1>. QED
  BY <1>3, <1>4, <1>5 DEF LibInv

(* The status of a process that is in no call and that is not being spawned *)
(* may change, and it may lose what it has mapped.                          *)
LEMMA EndsStep ==
  ASSUME LibInv, NEW p \in Procs, Block(p) \/ Destroy(p)
  PROVE  LibInv'
<1>. PICK s \in {"blocked", "free"} : status' = [status EXCEPT ![p] = s]
  BY DEF Block, Destroy
<1>1. /\ status[p] = "runnable" /\ lib[p].op = "user" /\ lib' = lib /\ UNCHANGED bytes
  BY DEF Block, Destroy, Calls, At, SameBytes
<1>2. /\ status \in [Procs -> {"free", "runnable", "notrunnable", "blocked"}]
      /\ fd \in [Procs -> [Fds -> FdPages]] /\ data \in [Procs -> [Fds -> PipeIds \cup {0}]]
  BY DEF LibInv, LibTypeOK
<1>3. /\ fd' \in [Procs -> [Fds -> FdPages]] /\ data' \in [Procs -> [Fds -> PipeIds \cup {0}]]
      /\ \A q \in Procs : q # p => fd'[q] = fd[q] /\ data'[q] = data[q]
      /\ s = "free" => \A i \in Fds : fd'[p][i] = NoFd /\ data'[p][i] = 0
      /\ s # "free" => fd'[p] = fd[p] /\ data'[p] = data[p]
  <2>1. CASE Block(p)
    BY <1>1, <1>2, <2>1 DEF Block, maps
  <2>2. CASE Destroy(p)
    BY <1>1, <1>2, <2>2, Pages DEF Destroy
  <2>. QED
    BY <2>1, <2>2, Zenon
<1>4. LibTypeOK'
  BY <1>1, <1>2, <1>3, BytesType, Zenon DEF LibInv, LibTypeOK, BytesTypeOK
<1>5. ProcInv'
  <2>. SUFFICES ASSUME NEW r \in Procs
       PROVE /\ status'[r] # "runnable" => lib'[r].op = "user"
             /\ status'[r] = "free" => \A i \in Fds : fd'[r][i] = NoFd /\ data'[r][i] = 0
             /\ status'[r] # "notrunnable" => Backed(r)'
             /\ MapsRight(r)'
    BY DEF ProcInv
  <2>1. CASE r = p
    <3>1. Backed(p)'
      BY <1>1, <1>3, OwnTypes, Pages DEF Backed
    <3>2. MapsRight(p)'
      BY <1>1, Zenon DEF MapsRight, ReadOps, WriteOps
    <3>3. status'[p] = s
      BY <1>2
    <3>. QED
      BY <1>1, <1>3, <2>1, <3>1, <3>2, <3>3, Zenon
  <2>2. CASE r # p
    <3>1. status'[r] = status[r]
      BY <1>2, <2>2
    <3>. QED
      BY <1>1, <1>3, <2>2, <3>1, SameProcess DEF LibInv, ProcInv
  <2>. QED
    BY <2>1, <2>2, Zenon
<1>6. SpawnInv'
  <2>1. ASSUME NEW r \in Procs, lib[r].op = "share"
        PROVE  /\ lib[r].to \in Procs /\ status'[lib[r].to] = "notrunnable" /\ PassedOn(r, lib[r].to)'
    <3>1. lib[r].to \in Procs /\ lib[r].to # p /\ r # p /\ PassedOn(r, lib[r].to)
          /\ status'[lib[r].to] = "notrunnable"
      BY <1>1, <1>2, <2>1, Zenon DEF LibInv, SpawnInv
    <3>. QED
      BY <1>1, <1>3, <3>1, Zenon DEF PassedOn
  <2>2. \A r \in Procs : status'[r] = "notrunnable" => status[r] = "notrunnable"
    BY <1>2
  <2>. QED
    BY <1>1, <2>1, <2>2 DEF LibInv, SpawnInv, Passes
<1>. QED
  BY <1>4, <1>5, <1>6 DEF LibInv

(* A page the search for the next shared page skips is not mapped.          *)
LEMMA Skipped ==
  ASSUME NEW p \in Procs, NEW n \in Nat, NEW m \in Nat, NextShared(p, n, m)
  PROVE  /\ m \in 0 .. 2 * MAXFDS /\ n <= m
         /\ \A j \in Fds : n <= j /\ j < m => fd[p][j] = NoFd
         /\ \A j \in Fds : n <= MAXFDS + j /\ MAXFDS + j < m => data[p][j] = 0
<1>1. m \in n .. 2 * MAXFDS /\ \A j \in n .. m - 1 : ~Present(p, j)
  BY DEF NextShared
<1>2. ASSUME NEW j \in Fds, n <= j, j < m
      PROVE  fd[p][j] = NoFd
  <2>1. j \in n .. m - 1 /\ j < MAXFDS
    BY <1>2, MAXFDSAssumption DEF Fds
  <2>. QED
    BY <1>1, <2>1 DEF Present
<1>3. ASSUME NEW j \in Fds, n <= MAXFDS + j, MAXFDS + j < m
      PROVE  data[p][j] = 0
  <2>1. PICK l \in n .. m - 1 : l = MAXFDS + j
    BY <1>3, MAXFDSAssumption DEF Fds
  <2>2. ~(l < MAXFDS) /\ l - MAXFDS = j
    BY <2>1, MAXFDSAssumption DEF Fds
  <2>3. data[p][l - MAXFDS] = 0
    BY <1>1, <2>2 DEF Present
  <2>. QED
    BY <2>2, <2>3
<1>. QED
  BY <1>1, <1>2, <1>3, MAXFDSAssumption

(* A step of p in a spawn of q after which m is the next page to pass on.   *)
SpawnsTo(p, q, m) ==
  /\ status[p] = "runnable" /\ p # q
  /\ lib[q].op = "user" /\ status'[q] = "notrunnable"
  /\ (lib[p].op = "user" /\ status[q] = "free") \/ Passes(p, q)
  /\ \A r \in Procs : r # q => fd'[r] = fd[r] /\ data'[r] = data[r] /\ status'[r] = status[r]
  /\ lib' = [lib EXCEPT ![p] = In("share", 0, q, m, 0)]

(* Any step of a spawning process: it passes to one child, which is not yet *)
(* runnable, and has passed on what the child has.                          *)
LEMMA Spawning ==
  ASSUME LibInv, NEW p \in Procs, NEW q \in Procs, NEW m \in Nat,
         LibTypeOK', SpawnsTo(p, q, m), PassedOn(p, q)'
  PROVE  LibInv'
<1>1. lib \in [Procs -> LibRec] /\ lib' = [lib EXCEPT ![p] = In("share", 0, q, m, 0)]
  BY Zenon DEF LibInv, LibTypeOK, SpawnsTo
<1>2. /\ lib'[p].op = "share" /\ lib'[p].to = q /\ lib'[p].n = m
      /\ \A r \in Procs : r # p => lib'[r] = lib[r]
  BY <1>1, InFields
<1>a. /\ status[p] = "runnable" /\ p # q /\ lib[q].op = "user" /\ status'[q] = "notrunnable"
      /\ (lib[p].op = "user" /\ status[q] = "free") \/ Passes(p, q)
  BY Zenon DEF SpawnsTo
<1>b. \A r \in Procs : r # q => fd'[r] = fd[r] /\ data'[r] = data[r] /\ status'[r] = status[r]
  BY Zenon DEF SpawnsTo
<1>c. \A r \in Procs :
        /\ status[r] # "runnable" => lib[r].op = "user"
        /\ status[r] = "free" => \A i \in Fds : fd[r][i] = NoFd /\ data[r][i] = 0
        /\ status[r] # "notrunnable" => Backed(r)
        /\ MapsRight(r)
  BY Zenon DEF LibInv, ProcInv
<1>3. ProcInv'
  <2>. SUFFICES ASSUME NEW r \in Procs
       PROVE /\ status'[r] # "runnable" => lib'[r].op = "user"
             /\ status'[r] = "free" => \A i \in Fds : fd'[r][i] = NoFd /\ data'[r][i] = 0
             /\ status'[r] # "notrunnable" => Backed(r)'
             /\ MapsRight(r)'
    BY Zenon DEF ProcInv
  <2>1. CASE r = p
    <3>1. fd'[p] = fd[p] /\ data'[p] = data[p] /\ status'[p] = "runnable" /\ Backed(p)
      BY <1>a, <1>b, <1>c
    <3>2. Backed(p)'
      BY <3>1, Zenon DEF Backed
    <3>3. MapsRight(p)'
      BY <1>2, Zenon DEF MapsRight, ReadOps, WriteOps
    <3>. QED
      BY <2>1, <3>1, <3>2, <3>3
  <2>2. CASE r = q
    <3>1. lib'[q].op = "user" /\ status'[q] = "notrunnable"
      BY <1>2, <1>a, Zenon
    <3>2. MapsRight(q)'
      BY <3>1, Zenon DEF MapsRight, ReadOps, WriteOps
    <3>. QED
      BY <2>2, <3>1, <3>2
  <2>3. CASE r # p /\ r # q
    <3>1. lib'[r] = lib[r] /\ fd'[r] = fd[r] /\ data'[r] = data[r] /\ status'[r] = status[r]
      BY <1>2, <1>b, <2>3, Zenon
    <3>2. (MapsRight(r) => MapsRight(r)') /\ (Backed(r) => Backed(r)')
      BY <3>1, SameProcess, Zenon
    <3>. QED
      BY <1>c, <3>1, <3>2, Zenon
  <2>. QED
    BY <2>1, <2>2, <2>3, Zenon
<1>d. \A r \in Procs : lib[r].op = "share" =>
        lib[r].to \in Procs /\ status[lib[r].to] = "notrunnable" /\ PassedOn(r, lib[r].to)
  BY Zenon DEF LibInv, SpawnInv
<1>e. /\ \A s \in Procs : status[s] = "notrunnable" => \E r \in Procs : Passes(r, s)
      /\ \A r, s, t \in Procs : Passes(r, t) /\ Passes(s, t) => r = s
  BY Zenon DEF LibInv, SpawnInv
<1>4. SpawnInv'
  <2>1. ASSUME NEW r \in Procs, lib[r].op = "share", r # p
        PROVE  lib[r].to # q /\ r # q
    <3>1. r # q
      BY <1>a, <2>1
    <3>2. CASE status[q] = "free"
      BY <1>d, <2>1, <3>1, <3>2
    <3>3. CASE Passes(p, q)
      <4>1. lib[r].to = q => Passes(r, q)
        BY <2>1, Zenon DEF Passes
      <4>. QED
        BY <1>e, <2>1, <3>1, <3>3, <4>1, Zenon
    <3>. QED
      BY <1>a, <3>2, <3>3, Zenon
  <2>2. ASSUME NEW r \in Procs, lib'[r].op = "share"
        PROVE  /\ lib'[r].to \in Procs /\ status'[lib'[r].to] = "notrunnable"
               /\ PassedOn(r, lib[r].to)'
    <3>1. CASE r = p
      BY <1>2, <1>a, <3>1, Zenon
    <3>2. CASE r # p
      <4>1. lib'[r] = lib[r] /\ lib[r].op = "share"
        BY <1>2, <2>2, <3>2
      <4>2. lib[r].to # q /\ r # q
        BY <2>1, <3>2, <4>1, Zenon
      <4>3. PICK t \in Procs : t = lib[r].to /\ status[t] = "notrunnable" /\ PassedOn(r, t)
        BY <1>d, <4>1, Zenon
      <4>4. /\ fd'[r] = fd[r] /\ data'[r] = data[r] /\ fd'[t] = fd[t] /\ data'[t] = data[t]
            /\ status'[t] = status[t]
        BY <1>b, <4>2, <4>3, Zenon
      <4>5. PassedOn(r, t)'
        BY <4>1, <4>3, <4>4, Zenon DEF PassedOn
      <4>. QED
        BY <4>1, <4>3, <4>4, <4>5, Zenon
    <3>. QED
      BY <3>1, <3>2, Zenon
  <2>3. \A s \in Procs : status'[s] = "notrunnable" => \E r \in Procs : Passes(r, s)'
    <3>1. ASSUME NEW s \in Procs, s # q, status'[s] = "notrunnable"
          PROVE  \E r \in Procs : Passes(r, s)'
      <4>1. PICK r \in Procs : Passes(r, s)
        BY <1>b, <1>e, <3>1, Zenon
      <4>2. r # p
        BY <1>a, <3>1, <4>1 DEF Passes
      <4>. QED
        BY <1>2, <4>1, <4>2, Zenon DEF Passes
    <3>2. Passes(p, q)'
      BY <1>2, Zenon DEF Passes
    <3>. QED
      BY <3>1, <3>2, Zenon
  <2>4. \A r, s, t \in Procs : Passes(r, t)' /\ Passes(s, t)' => r = s
    <3>1. ASSUME NEW r \in Procs, NEW t \in Procs, r # p, Passes(r, t)'
          PROVE  Passes(r, t) /\ t # q
      <4>1. lib'[r] = lib[r] /\ Passes(r, t)
        BY <1>2, <3>1, Zenon DEF Passes
      <4>2. lib[r].op = "share" /\ lib[r].to = t
        BY <4>1, Zenon DEF Passes
      <4>. QED
        BY <2>1, <3>1, <4>1, <4>2, Zenon
    <3>2. \A t \in Procs : Passes(p, t)' => t = q
      BY <1>2, Zenon DEF Passes
    <3>3. ASSUME NEW r \in Procs, NEW s \in Procs, NEW t \in Procs, Passes(r, t)', Passes(s, t)'
          PROVE  r = s
      <4>1. CASE r = p \/ s = p
        BY <3>1, <3>2, <3>3, <4>1, Zenon
      <4>2. CASE r # p /\ s # p
        BY <1>e, <3>1, <3>3, <4>2, Zenon
      <4>. QED
        BY <4>1, <4>2, Zenon
    <3>. QED
      BY <3>3, Zenon
  <2>. QED
    BY <2>2, <2>3, <2>4, Zenon DEF SpawnInv
<1>. QED
  BY <1>3, <1>4, Zenon DEF LibInv

LEMMA SpawnStep ==
  ASSUME LibInv, NEW p \in Procs, NEW q \in Procs, spawn(p, q)
  PROVE  LibInv'
<1>1. /\ status[p] = "runnable" /\ status[q] = "free" /\ p # q /\ lib[q].op = "user" /\ lib[p].op = "user"
      /\ status' = [status EXCEPT ![q] = "notrunnable"] /\ fd' = fd /\ data' = data /\ UNCHANGED bytes
  BY DEF spawn, Calls, At, FreeEnv, SameBytes, LibInv, ProcInv, maps
<1>2. PICK m \in 0 .. 2 * MAXFDS : NextShared(p, 0, m) /\ lib' = [lib EXCEPT ![p] = In("share", 0, q, m, 0)]
  BY Zenon DEF spawn, Goes
<1>3. m \in Nat /\ m <= 2 * MAXFDS
  BY MAXFDSAssumption
<1>4. /\ status \in [Procs -> {"free", "runnable", "notrunnable", "blocked"}]
      /\ lib \in [Procs -> LibRec]
  BY DEF LibInv, LibTypeOK
<1>5. In("share", 0, q, m, 0) \in LibRec
  BY <1>3, InType, SmallFds, PipeBytesAssumption DEF LibOps
<1>6. LibTypeOK'
  BY <1>1, <1>2, <1>4, <1>5, BytesType DEF LibInv, LibTypeOK, BytesTypeOK
<1>7. PassedOn(p, q)'
  <2>1. lib'[p].n = m
    BY <1>2, <1>4, InFields
  <2>2. \A j \in Fds : fd[q][j] = NoFd /\ data[q][j] = 0
    BY <1>1 DEF LibInv, ProcInv
  <2>3. \A j \in Fds : j < m => fd[p][j] = NoFd
    BY <1>2, <1>3, Skipped, MAXFDSAssumption DEF Fds
  <2>4. \A j \in Fds : MAXFDS + j < m => data[p][j] = 0
    BY <1>2, <1>3, Skipped, MAXFDSAssumption DEF Fds
  <2>. QED
    BY <1>1, <2>1, <2>2, <2>3, <2>4, Zenon DEF PassedOn
<1>8. /\ status'[q] = "notrunnable"
      /\ \A r \in Procs : r # q => fd'[r] = fd[r] /\ data'[r] = data[r] /\ status'[r] = status[r]
  BY <1>1, <1>4
<1>9. SpawnsTo(p, q, m)
  BY <1>1, <1>2, <1>8, Zenon DEF SpawnsTo
<1>. QED
  BY <1>3, <1>6, <1>7, <1>9, Spawning, Zenon

(* p is spawning q, and n is the next page it passes on.                    *)
Shares(p, q, n) ==
  status[p] = "runnable" /\ lib[p].op = "share" /\ lib[p].to = q /\ lib[p].n = n

LEMMA SharesFacts ==
  ASSUME LibInv, NEW p \in Procs, NEW q, NEW n, Shares(p, q, n)
  PROVE  /\ q \in Procs /\ status[q] = "notrunnable" /\ PassedOn(p, q) /\ Passes(p, q)
         /\ p # q /\ lib[q].op = "user" /\ n \in Nat
<1>1. q \in Procs /\ status[q] = "notrunnable" /\ PassedOn(p, q)
  BY Zenon DEF LibInv, SpawnInv, Shares
<1>2. lib[q].op = "user"
  BY <1>1 DEF LibInv, ProcInv
<1>3. lib[p].n \in 0 .. 2 * MAXFDS
  BY <1>1, Zenon DEF PassedOn
<1>4. n \in Nat
  BY <1>3, MAXFDSAssumption DEF Shares
<1>. QED
  BY <1>1, <1>2, <1>4 DEF Shares, Passes

LEMMA PassStep ==
  ASSUME LibInv, NEW p \in Procs, copy_shared_region(p)
  PROVE  LibInv'
<1>. SUFFICES ASSUME NEW q, NEW n, Shares(p, q, n)
     PROVE  LibInv'
  BY DEF copy_shared_region, At, Shares
<1>1. status[p] = "runnable" /\ n < 2 * MAXFDS /\ status' = status /\ UNCHANGED bytes
  BY DEF copy_shared_region, SameBytes, Shares
<1>2. /\ q \in Procs /\ status[q] = "notrunnable" /\ PassedOn(p, q) /\ p # q /\ lib[q].op = "user"
      /\ Passes(p, q)
  BY SharesFacts, Zenon
<1>a. n \in Nat /\ n < 2 * MAXFDS
  BY <1>1, SharesFacts, Zenon
<1>3. PICK m \in 0 .. 2 * MAXFDS :
        NextShared(p, n + 1, m) /\ lib' = [lib EXCEPT ![p] = In("share", 0, q, m, 0)]
  BY Zenon DEF copy_shared_region, Goes, Shares
<1>4. /\ fd \in [Procs -> [Fds -> FdPages]] /\ data \in [Procs -> [Fds -> PipeIds \cup {0}]]
      /\ lib \in [Procs -> LibRec] /\ m \in Nat
  BY MAXFDSAssumption DEF LibInv, LibTypeOK
<1>5. In("share", 0, q, m, 0) \in LibRec
  BY <1>2, <1>4, InType, SmallFds, PipeBytesAssumption, Zenon DEF LibOps
<1>6. /\ fd' \in [Procs -> [Fds -> FdPages]] /\ data' \in [Procs -> [Fds -> PipeIds \cup {0}]]
      /\ \A r \in Procs : r # q => fd'[r] = fd[r] /\ data'[r] = data[r]
      /\ \A j \in Fds : fd'[q][j] = IF j = n THEN fd[p][j] ELSE fd[q][j]
      /\ \A j \in Fds : data'[q][j] = IF MAXFDS + j = n THEN data[p][j] ELSE data[q][j]
  <2>1. CASE n < MAXFDS
    <3>1. fd' = [fd EXCEPT ![q] = [fd[q] EXCEPT ![n] = fd[p][n]]] /\ data' = data
      BY <2>1 DEF copy_shared_region, Shares
    <3>2. n \in Fds /\ \A j \in Fds : MAXFDS + j # n
      BY <1>a, <2>1, MAXFDSAssumption DEF Fds
    <3>. QED
      BY <1>2, <1>4, <3>1, <3>2
  <2>2. CASE ~(n < MAXFDS)
    <3>1. data' = [data EXCEPT ![q] = [data[q] EXCEPT ![n - MAXFDS] = data[p][n - MAXFDS]]] /\ fd' = fd
      BY <2>2 DEF copy_shared_region, Shares
    <3>2. n - MAXFDS \in Fds /\ \A j \in Fds : j # n /\ (MAXFDS + j = n <=> j = n - MAXFDS)
      BY <1>a, <2>2, MAXFDSAssumption DEF Fds
    <3>. QED
      BY <1>2, <1>4, <3>1, <3>2
  <2>. QED
    BY <2>1, <2>2, Zenon
<1>7. LibTypeOK'
  BY <1>1, <1>3, <1>4, <1>5, <1>6, BytesType, Zenon DEF LibInv, LibTypeOK, BytesTypeOK
<1>8. PassedOn(p, q)'
  <2>1. lib'[p].n = m /\ lib'[p].to = q
    BY <1>3, <1>4, InFields
  <2>2. /\ \A j \in Fds : n + 1 <= j /\ j < m => fd[p][j] = NoFd
        /\ \A j \in Fds : n + 1 <= MAXFDS + j /\ MAXFDS + j < m => data[p][j] = 0
        /\ n + 1 <= m /\ m \in 0 .. 2 * MAXFDS
    <3>1. n + 1 \in Nat
      BY <1>a
    <3>. QED
      BY <1>3, <1>4, <3>1, Skipped
  <2>3. /\ \A j \in Fds : fd[q][j] = IF j < n THEN fd[p][j] ELSE NoFd
        /\ \A j \in Fds : data[q][j] = IF MAXFDS + j < n THEN data[p][j] ELSE 0
    BY <1>2, Zenon DEF PassedOn, Shares
  <2>4. ASSUME NEW j \in Fds
        PROVE  fd'[q][j] = IF j < m THEN fd[p][j] ELSE NoFd
    <3>1. n + 1 <= m /\ n \in Int /\ m \in Int /\ j \in Int
      BY <1>4, <1>a, <2>2, MAXFDSAssumption DEF Fds
    <3>2. fd[q][j] = IF j < n THEN fd[p][j] ELSE NoFd
      BY <2>3, Zenon
    <3>3. fd'[q][j] = IF j = n THEN fd[p][j] ELSE fd[q][j]
      BY <1>6, Zenon
    <3>4. n + 1 <= j /\ j < m => fd[p][j] = NoFd
      BY <2>2, Zenon
    <3>. QED
      BY <3>1, <3>2, <3>3, <3>4
  <2>6. ASSUME NEW j \in Fds
        PROVE  data'[q][j] = IF MAXFDS + j < m THEN data[p][j] ELSE 0
    <3>1. n + 1 <= m /\ n \in Int /\ m \in Int /\ MAXFDS + j \in Int
      BY <1>4, <1>a, <2>2, MAXFDSAssumption DEF Fds
    <3>2. data[q][j] = IF MAXFDS + j < n THEN data[p][j] ELSE 0
      BY <2>3, Zenon
    <3>3. data'[q][j] = IF MAXFDS + j = n THEN data[p][j] ELSE data[q][j]
      BY <1>6, Zenon
    <3>4. n + 1 <= MAXFDS + j /\ MAXFDS + j < m => data[p][j] = 0
      BY <2>2, Zenon
    <3>. QED
      BY <3>1, <3>2, <3>3, <3>4
  <2>5. fd'[p] = fd[p] /\ data'[p] = data[p]
    BY <1>2, <1>6, Zenon
  <2>. QED
    BY <2>1, <2>2, <2>4, <2>5, <2>6, Zenon DEF PassedOn
<1>9. SpawnsTo(p, q, m)
  BY <1>1, <1>2, <1>3, <1>6, Zenon DEF SpawnsTo
<1>. QED
  BY <1>2, <1>4, <1>7, <1>8, <1>9, Spawning, Zenon

LEMMA StartStep ==
  ASSUME LibInv, NEW p \in Procs, StartChild(p)
  PROVE  LibInv'
<1>. SUFFICES ASSUME NEW q, Shares(p, q, 2 * MAXFDS)
     PROVE  LibInv'
  BY DEF StartChild, At, Shares
<1>1. /\ status[p] = "runnable" /\ lib[p].n = 2 * MAXFDS
      /\ status' = [status EXCEPT ![q] = "runnable"] /\ lib' = [lib EXCEPT ![p] = User]
      /\ fd' = fd /\ data' = data /\ UNCHANGED bytes
  BY Zenon DEF StartChild, At, SameBytes, Returns, Goes, maps, Shares
<1>2. /\ q \in Procs /\ status[q] = "notrunnable" /\ PassedOn(p, q) /\ p # q /\ lib[q].op = "user"
      /\ Passes(p, q)
  BY SharesFacts, Zenon
<1>3. /\ status \in [Procs -> {"free", "runnable", "notrunnable", "blocked"}]
      /\ lib \in [Procs -> LibRec]
  BY DEF LibInv, LibTypeOK
<1>4. /\ status'[q] = "runnable" /\ \A r \in Procs : r # q => status'[r] = status[r]
      /\ lib'[p].op = "user" /\ \A r \in Procs : r # p => lib'[r] = lib[r]
  BY <1>1, <1>2, <1>3, UserType
<1>5. LibTypeOK'
  BY <1>1, <1>3, BytesType, UserType, Zenon DEF LibInv, LibTypeOK, BytesTypeOK
<1>6. ProcInv'
  <2>. SUFFICES ASSUME NEW r \in Procs
       PROVE /\ status'[r] # "runnable" => lib'[r].op = "user"
             /\ status'[r] = "free" => \A i \in Fds : fd'[r][i] = NoFd /\ data'[r][i] = 0
             /\ status'[r] # "notrunnable" => Backed(r)'
             /\ MapsRight(r)'
    BY Zenon DEF ProcInv
  <2>1. CASE r = p
    <3>1. Backed(p)'
      BY <1>1, OwnTypes, Zenon DEF Backed
    <3>2. MapsRight(p)'
      BY <1>4, Zenon DEF MapsRight, ReadOps, WriteOps
    <3>. QED
      BY <1>1, <1>2, <1>4, <2>1, <3>1, <3>2, Zenon
  <2>2. CASE r = q
    <3>1. \A j \in Fds : fd[q][j] = fd[p][j] /\ data[q][j] = data[p][j]
      <4>1. ASSUME NEW j \in Fds PROVE j < 2 * MAXFDS /\ MAXFDS + j < 2 * MAXFDS
        BY MAXFDSAssumption DEF Fds
      <4>. QED
        BY <1>1, <1>2, <4>1, Zenon DEF PassedOn
    <3>2. Backed(q)'
      BY <1>1, <3>1, OwnTypes DEF Backed
    <3>3. MapsRight(q)'
      BY <1>2, <1>4, Zenon DEF MapsRight, ReadOps, WriteOps
    <3>. QED
      BY <1>4, <2>2, <3>2, <3>3, Zenon
  <2>3. CASE r # p /\ r # q
    BY <1>1, <1>4, <2>3, SameProcess, Zenon DEF LibInv, ProcInv
  <2>. QED
    BY <2>1, <2>2, <2>3, Zenon
<1>7. SpawnInv'
  <2>1. ASSUME NEW r \in Procs, lib'[r].op = "share"
        PROVE  /\ lib'[r].to \in Procs /\ status'[lib'[r].to] = "notrunnable"
               /\ PassedOn(r, lib[r].to)'
    <3>1. r # p /\ lib'[r] = lib[r] /\ lib[r].op = "share"
      BY <1>4, <2>1
    <3>2. lib[r].to # q
      BY <1>2, <3>1, Zenon DEF LibInv, SpawnInv, Passes
    <3>3. lib[r].to \in Procs /\ status[lib[r].to] = "notrunnable" /\ PassedOn(r, lib[r].to)
      BY <3>1, Zenon DEF LibInv, SpawnInv
    <3>. QED
      BY <1>1, <1>4, <3>1, <3>2, <3>3 DEF PassedOn
  <2>2. \A r, s \in Procs : Passes(r, s)' <=> Passes(r, s) /\ r # p
    BY <1>4 DEF Passes
  <2>3. \A s \in Procs : status'[s] = "notrunnable" => \E r \in Procs : Passes(r, s)'
    <3>1. ASSUME NEW s \in Procs, status'[s] = "notrunnable"
          PROVE  \E r \in Procs : Passes(r, s)'
      <4>1. s # q /\ status[s] = "notrunnable"
        BY <1>4, <3>1
      <4>2. PICK r \in Procs : Passes(r, s)
        BY <4>1 DEF LibInv, SpawnInv
      <4>3. r # p
        BY <4>1, <4>2 DEF Passes, Shares
      <4>. QED
        BY <2>2, <4>2, <4>3
    <3>. QED
      BY <3>1
  <2>. QED
    BY <2>1, <2>2, <2>3, Zenon DEF LibInv, SpawnInv
<1>. QED
  BY <1>5, <1>6, <1>7 DEF LibInv

LEMMA InitInv == LibInit => LibInv
<1>. SUFFICES ASSUME LibInit PROVE LibInv
  OBVIOUS
<1>1. LibTypeOK
  <2>1. EmptyPipe \in [rpos : Nat, wpos : Nat, buf : [0 .. PIPEBUFSIZ - 1 -> PipeBytes]]
    BY PipeBytesAssumption DEF EmptyPipe
  <2>. QED
    BY <2>1, UserType, Pages DEF LibInit, LibTypeOK
<1>2. \A p \in Procs : lib[p].op = "user"
  BY UserType DEF LibInit
<1>3. ProcInv
  <2>1. \A p \in Procs : MapsRight(p)
    BY <1>2, UserMaps
  <2>2. \A p \in Procs : Backed(p)
    BY Pages DEF LibInit, Backed
  <2>. QED
    BY <1>2, <2>1, <2>2 DEF LibInit, ProcInv
<1>4. SpawnInv
  BY <1>2 DEF LibInit, SpawnInv, Passes
<1>. QED
  BY <1>1, <1>3, <1>4 DEF LibInv

LEMMA NextInv == LibInv /\ [LibNext]_libVars => LibInv'
<1>. SUFFICES ASSUME LibInv, [LibNext]_libVars PROVE LibInv'
  OBVIOUS
<1>1. CASE UNCHANGED libVars
  <2>1. UNCHANGED <<status, lib, fd, data, pipe, sent, got>>
    BY <1>1 DEF libVars, maps, bytes
  <2>2. LibTypeOK'
    BY <2>1 DEF LibInv, LibTypeOK
  <2>3. ProcInv'
    BY <2>1, SameProcess, Zenon DEF LibInv, ProcInv
  <2>4. SpawnInv'
    BY <2>1 DEF LibInv, SpawnInv, Passes, PassedOn
  <2>. QED
    BY <2>2, <2>3, <2>4 DEF LibInv
<1>2. ASSUME NEW p \in Procs, InCall(p)
      PROVE  LibInv'
  BY <1>2, CloseSteps, DupSteps, PassStep, StartStep, ReadSteps, WriteSteps, PollSteps DEF InCall
<1>3. ASSUME NEW p \in Procs, MakesCall(p)
      PROVE  LibInv'
  BY <1>3, CloseSteps, PollSteps, DupSteps, PipeStep, ForkStep, SpawnStep, ReadSteps, WriteSteps, EndsStep
     DEF MakesCall
<1>. QED
  BY <1>1, <1>2, <1>3 DEF LibNext

(* Whatever calls the processes make, in any order and interleaving: behind *)
(* the descriptors of a pipe is its page, except at a child that is just    *)
(* being spawned, which has exactly what its parent passed on so far (close *)
(* and dup in lib/fd.c, copy_shared_region in lib/spawn.c).                 *)
THEOREM LibCorrect == LibSpec => []LibInv
<1>1. LibInit => LibInv
  BY InitInv
<1>2. LibInv /\ [LibNext]_libVars => LibInv'
  BY NextInv
<1>. QED
  BY <1>1, <1>2, PTL DEF LibSpec
=============================================================================

---------------------------- MODULE PipesProofs ----------------------------
(***************************************************************************)
(* The library of pipes answers "closed" rightly and delivers the bytes in *)
(* order; the programs that use pipes are behaviours of the library.       *)
(***************************************************************************)
EXTENDS Pipes, PipeLibProofs, FiniteSetTheorems, TLAPS

LEMMA OtherEnd == \A e \in Ends : Other(e) \in Ends /\ Other(e) # e
<1>. SUFFICES ASSUME NEW e \in Ends PROVE Other(e) \in Ends /\ Other(e) # e
  OBVIOUS
<1>1. \E x \in Ends : x # e
  BY DEF Ends
<1>. QED
  BY <1>1 DEF Other

LEMMA FinitePlaces == IsFiniteSet(Procs \X Fds)
<1>1. IsFiniteSet(Fds)
  BY MAXFDSAssumption, FS_Interval DEF Fds
<1>. QED
  BY <1>1, ProcsAssumption, FS_Product

(* As many descriptors of this end as mappings of the pipe: then there is a *)
(* descriptor of this end at every mapping, and none of the other end.  A   *)
(* child that is being spawned and has a descriptor of the other end got it *)
(* from a parent that still has it.                                         *)
LEMMA ClosedTrue == LibInv /\ AskedWhole => ClosedIsTrue
<1>. SUFFICES ASSUME LibInv, AskedWhole, NEW p \in Procs, Asks(p), _pipeisclosed(p, lib[p].fd)
     PROVE  FdsAt(<<PipeOf(p), Other(fd[p][lib[p].fd][2])>>) = {}
  BY DEF ClosedIsTrue
<1>. SUFFICES ASSUME NEW i, i = lib[p].fd, NEW page, page = fd[p][i]
     PROVE  FdsAt(<<PipeOf(p), Other(page[2])>>) = {}
  OBVIOUS
<1>1. status[p] = "runnable" /\ lib[p].op \in {"rempty", "wfull", "poll"}
  BY DEF Asks, At
<1>2. page \in PipePages
  <2>1. \/ \E k \in PipeIds : fd[p][i] = <<k, "read">>
        \/ \E k \in PipeIds : fd[p][i] = <<k, "write">>
        \/ fd[p][i] \in PipePages
    BY <1>1, Zenon DEF LibInv, ProcInv, MapsRight, ReadOps, WriteOps
  <2>. QED
    BY <2>1, Pages, Zenon DEF Ends
<1>3. PICK k \in PipeIds, e \in Ends : page = <<k, e>> /\ page[1] = k /\ page[2] = e
  BY <1>2, Pages, Zenon
<1>4. i \in Fds /\ data[p][i] = k /\ PipeOf(p) = k
  BY <1>1, <1>2, <1>3, OwnTypes, Zenon DEF PipeOf
<1>5. FdsAt(page) \subseteq DataAt(k)
  <2>1. \A q \in Procs, j \in Fds : fd[q][j] = page => data[q][j] = k
    <3>1. ~HalfPassed(page)
      BY DEF AskedWhole
    <3>. QED
      BY <1>3, <3>1 DEF HalfPassed
  <2>. QED
    BY <2>1 DEF FdsAt, DataAt
<1>6. Cardinality(DataAt(k)) = Cardinality(FdsAt(page))
  BY <1>4 DEF _pipeisclosed, FdRefs, DataRefs
<1>7. IsFiniteSet(DataAt(k))
  BY FinitePlaces, FS_Subset DEF DataAt
<1>8. DataAt(k) = FdsAt(page)
  BY <1>5, <1>6, <1>7, FS_Subset
<1>9. ASSUME NEW q \in Procs, NEW j \in Fds, data[q][j] = k
      PROVE  fd[q][j] = page
  <2>1. <<q, j>> \in DataAt(k)
    BY <1>9 DEF DataAt
  <2>. QED
    BY <1>8, <2>1 DEF FdsAt
<1>10. ASSUME NEW q \in Procs, NEW j \in Fds
       PROVE  fd[q][j] # <<k, Other(e)>>
  <2>. SUFFICES ASSUME fd[q][j] = <<k, Other(e)>> PROVE FALSE
    OBVIOUS
  <2>1. /\ <<k, Other(e)>> \in PipePages /\ <<k, Other(e)>> # page
        /\ <<k, Other(e)>> # NoFd /\ <<k, Other(e)>>[1] = k
    BY <1>3, OtherEnd, Pages
  <2>2. CASE status[q] # "notrunnable"
    BY <1>9, <2>1, <2>2 DEF LibInv, ProcInv, Backed
  <2>3. CASE status[q] = "notrunnable"
    <3>1. PICK r \in Procs : Passes(r, q)
      BY <2>3 DEF LibInv, SpawnInv
    <3>2. PassedOn(r, q) /\ status[r] = "runnable"
      BY <3>1 DEF LibInv, SpawnInv, Passes, ProcInv
    <3>3. fd[r][j] = <<k, Other(e)>>
      BY <2>1, <3>2 DEF PassedOn
    <3>. QED
      BY <1>9, <2>1, <3>2, <3>3 DEF LibInv, ProcInv, Backed
  <2>. QED
    BY <2>2, <2>3
<1>. QED
  BY <1>3, <1>4, <1>10 DEF FdsAt

(* _pipeisclosed (lib/pipe.c) is right for every process that asks, while   *)
(* others are anywhere in close, dup, fork, spawn, pipe, read or write, as  *)
(* long as the end it asks with is not just being passed on by spawn.       *)
THEOREM ClosedAnswerTrue == LibSpec => [](AskedWhole => ClosedIsTrue)
<1>1. LibInv => (AskedWhole => ClosedIsTrue)
  BY ClosedTrue
<1>. QED
  BY <1>1, LibCorrect, PTL

(* The two orders of close and dup are all the reference counts need: with  *)
(* no spawn under way the answer is right with no further condition.        *)
THEOREM ClosedTrueUnlessSpawning ==
  LibSpec => []((\A r \in Procs : lib[r].op # "share") => ClosedIsTrue)
<1>1. ASSUME LibInv, \A r \in Procs : lib[r].op # "share"
      PROVE  ClosedIsTrue
  <2>1. \A q \in Procs : Backed(q)
    BY <1>1, Zenon DEF LibInv, SpawnInv, ProcInv, Passes
  <2>2. \A p \in Procs : Asks(p) => fd[p][lib[p].fd] \in PipePages
    <3>. SUFFICES ASSUME NEW p \in Procs, Asks(p) PROVE fd[p][lib[p].fd] \in PipePages
      OBVIOUS
    <3>1. lib[p].op \in {"rempty", "wfull", "poll"}
      BY DEF Asks, At
    <3>2. \/ \E k \in PipeIds : fd[p][lib[p].fd] = <<k, "read">>
          \/ \E k \in PipeIds : fd[p][lib[p].fd] = <<k, "write">>
          \/ fd[p][lib[p].fd] \in PipePages
      BY <1>1, <3>1, Zenon DEF LibInv, ProcInv, MapsRight, ReadOps, WriteOps
    <3>. QED
      BY <3>2, Pages, Zenon DEF Ends
  <2>3. AskedWhole
    BY <2>1, <2>2, Zenon DEF AskedWhole, HalfPassed, Backed
  <2>. QED
    BY <1>1, <2>3, ClosedTrue
<1>. QED
  BY <1>1, LibCorrect, PTL

-----------------------------------------------------------------------------
(* The buffer.                                                              *)

(* Positions less than a buffer apart are at different places in it.        *)
LEMMA PlacesDiffer ==
  ASSUME NEW a \in Nat, NEW b \in Nat, a < b, b < a + PIPEBUFSIZ
  PROVE  a % PIPEBUFSIZ # b % PIPEBUFSIZ
<1>. SUFFICES ASSUME NEW S, S = PIPEBUFSIZ, S \in Nat \ {0}, a % S = b % S
     PROVE  FALSE
  BY PIPEBUFSIZAssumption
<1>1. /\ a \div S \in Int /\ a % S \in Int /\ a = S * (a \div S) + (a % S)
      /\ b \div S \in Int /\ b % S \in Int /\ b = S * (b \div S) + (b % S)
  <2>1. \A x \in Nat : x \div S \in Int /\ x % S \in Int
    OBVIOUS
  <2>2. \A x \in Nat : x = S * (x \div S) + (x % S)
    OBVIOUS
  <2>. QED
    BY <2>1, <2>2
<1>2. PICK d \in Int : d = (b \div S) - (a \div S)
  <2>1. \A x, y \in Int : x - y \in Int
    OBVIOUS
  <2>. QED
    BY <1>1, <2>1, Zenon
<1>3. S * d = b - a
  <2>1. \A x, y, z \in Int : x * (y - z) = x * y - x * z
    OBVIOUS
  <2>2. S * d = S * (b \div S) - S * (a \div S)
    BY <1>1, <1>2, <2>1
  <2>3. S * (b \div S) \in Int /\ S * (a \div S) \in Int
    BY <1>1
  <2>. QED
    BY <1>1, <2>2, <2>3
<1>4. \A x \in Nat, y \in Int : (y >= 1 => x * y >= x) /\ (y <= 0 => x * y <= 0)
  OBVIOUS
<1>5. d >= 1 => S * d >= S
  BY <1>4
<1>6. d <= 0 => S * d <= 0
  BY <1>4
<1>. QED
  BY <1>3, <1>5, <1>6

(* What Append makes of a sequence.                                         *)
LEMMA AppendFacts ==
  ASSUME NEW s \in Seq(PipeBytes), NEW b \in PipeBytes
  PROVE  /\ Len(Append(s, b)) = Len(s) + 1 /\ Append(s, b)[Len(s) + 1] = b
         /\ \A n \in 1 .. Len(s) : Append(s, b)[n] = s[n]
OBVIOUS

(* A sequence that agrees with the beginning of another is a prefix of it.  *)
LEMMA PrefixFacts ==
  ASSUME NEW s \in Seq(PipeBytes), NEW t \in Seq(PipeBytes), Len(t) <= Len(s),
         \A n \in 1 .. Len(t) : t[n] = s[n]
  PROVE  t = SubSeq(s, 1, Len(t))
OBVIOUS

HandOps == {"take", "rpos", "put", "wpos"}

LEMMA HandInPipe ==
  ASSUME LibInv, NEW q \in Procs, lib[q].op \in HandOps
  PROVE  status[q] = "runnable" /\ PipeOf(q) \in PipeIds
<1>1. status[q] = "runnable"
  BY DEF LibInv, ProcInv, HandOps
<1>2. lib[q].op \in ReadOps \/ lib[q].op \in WriteOps
  BY DEF HandOps, ReadOps, WriteOps
<1>. QED
  BY <1>1, <1>2, Reading, Writing

LEMMA PipeTypes ==
  ASSUME LibInv, NEW k \in PipeIds
  PROVE  /\ pipe[k].rpos \in Nat /\ pipe[k].wpos \in Nat
         /\ pipe[k].buf \in [0 .. PIPEBUFSIZ - 1 -> PipeBytes]
         /\ sent[k] \in Seq(PipeBytes) /\ got[k] \in Seq(PipeBytes)
         /\ Len(sent[k]) \in Nat /\ Len(got[k]) \in Nat
<1>1. BytesTypeOK
  BY BytesType
<1>2. sent[k] \in Seq(PipeBytes) /\ got[k] \in Seq(PipeBytes)
  BY <1>1 DEF BytesTypeOK
<1>3. pipe[k] \in [rpos : Nat, wpos : Nat, buf : [0 .. PIPEBUFSIZ - 1 -> PipeBytes]]
  BY <1>1 DEF BytesTypeOK
<1>. QED
  BY <1>2, <1>3

(* A step that stores and takes nothing, of a process that had nothing in   *)
(* its hand.                                                                *)
LEMMA RingFrame ==
  ASSUME LibInv, PipeInv, NEW p \in Procs, UNCHANGED bytes, lib[p].op \notin HandOps,
         \A q \in Procs : q # p => lib'[q] = lib[q],
         \A q \in Procs : q # p /\ lib[q].op \in HandOps => data'[q] = data[q],
         HandInv(p)'
  PROVE  PipeInv'
<1>1. pipe' = pipe /\ sent' = sent /\ got' = got
  BY DEF bytes
<1>2. ASSUME NEW q \in Procs, q # p, lib[q].op \in HandOps
      PROVE  lib'[q] = lib[q] /\ PipeOf(q)' = PipeOf(q)
  BY <1>2 DEF PipeOf
<1>3. ASSUME NEW k \in PipeIds
      PROVE  RingInv(k)'
  <2>1. RingInv(k)
    BY DEF PipeInv
  <2>2. (\E q \in Procs : lib[q].op = "rpos" /\ PipeOf(q) = k)
          => \E q \in Procs : lib'[q].op = "rpos" /\ PipeOf(q)' = k
    BY <1>2 DEF HandOps
  <2>. QED
    BY <1>1, <2>1, <2>2 DEF RingInv
<1>4. ASSUME NEW q \in Procs
      PROVE  HandInv(q)'
  <2>1. CASE q = p
    BY <2>1
  <2>2. CASE q # p /\ lib[q].op \in HandOps
    <3>1. HandInv(q)
      BY DEF PipeInv
    <3>. QED
      BY <1>1, <1>2, <2>2, <3>1, Zenon DEF HandInv
  <2>3. CASE q # p /\ lib[q].op \notin HandOps
    BY <2>3 DEF HandInv, HandOps
  <2>. QED
    BY <2>1, <2>2, <2>3
<1>. QED
  BY <1>3, <1>4 DEF PipeInv

(* Before a byte is taken or stored, the pipe was seen not empty, not full. *)
LEMMA LookSteps ==
  ASSUME LibInv, PipeInv, NEW p \in Procs,
         \/ ReadCheck(p) \/ WriteCheck(p)
         \/ \E i \in Fds, n \in Nat \ {0} : readn(p, i, n) \/ write(p, i, n)
  PROVE  PipeInv'
<1>1. /\ fd' = fd /\ data' = data /\ UNCHANGED bytes /\ lib[p].op \notin HandOps
      /\ status[p] = "runnable" /\ pipe' = pipe
  BY DEF ReadCheck, WriteCheck, readn, write, Calls, At, OnlyLib, HandOps, maps, bytes
<1>2. lib \in [Procs -> LibRec]
  BY DEF LibInv, LibTypeOK
<1>3. PICK op \in {"rempty", "take", "wfull", "put"}, i \in Fds, n \in Nat :
        /\ lib' = [lib EXCEPT ![p] = In(op, i, 0, n, 0)]
        /\ op = "take" => ~PipeEmpty(data[p][i])
        /\ op = "put" => ~PipeFull(data[p][i])
        /\ op \in {"take", "put"} => data[p][i] \in PipeIds
  <2>1. CASE ReadCheck(p)
    <3>1. lib[p].fd \in Fds /\ lib[p].n \in Nat /\ PipeOf(p) \in PipeIds
      BY <1>1, <2>1, Reading DEF ReadCheck, At, ReadOps
    <3>. QED
      BY <2>1, <3>1, Zenon DEF ReadCheck, Doing, Goes, PipeOf
  <2>2. CASE WriteCheck(p)
    <3>1. lib[p].fd \in Fds /\ lib[p].n \in Nat /\ PipeOf(p) \in PipeIds
      BY <1>1, <2>2, Writing DEF WriteCheck, At, WriteOps
    <3>. QED
      BY <2>2, <3>1, Zenon DEF WriteCheck, Doing, Goes, PipeOf
  <2>3. ASSUME NEW i \in Fds, fd[p][i] \in PipePages PROVE data[p][i] \in PipeIds
    BY <1>1, <2>3, OwnTypes, Pages
  <2>4. ASSUME NEW i \in Fds, NEW n \in Nat \ {0}, readn(p, i, n)
        PROVE  \E op \in {"rempty", "take"} :
                 /\ lib' = [lib EXCEPT ![p] = In(op, i, 0, n, 0)] /\ data[p][i] \in PipeIds
                 /\ op = "take" => ~PipeEmpty(data[p][i])
    <3>1. data[p][i] \in PipeIds
      BY <2>3, <2>4, Pages, Zenon DEF readn, Ends
    <3>. QED
      BY <2>4, <3>1, Zenon DEF readn, Goes
  <2>5. ASSUME NEW i \in Fds, NEW n \in Nat \ {0}, write(p, i, n)
        PROVE  \E op \in {"wfull", "put"} :
                 /\ lib' = [lib EXCEPT ![p] = In(op, i, 0, n, 0)] /\ data[p][i] \in PipeIds
                 /\ op = "put" => ~PipeFull(data[p][i])
    <3>1. data[p][i] \in PipeIds
      BY <2>3, <2>5, Pages, Zenon DEF write, Ends
    <3>. QED
      BY <2>5, <3>1, Zenon DEF write, Goes
  <2>. QED
    BY <2>1, <2>2, <2>4, <2>5
<1>4. lib'[p].op = op /\ lib'[p].fd = i /\ \A q \in Procs : q # p => lib'[q] = lib[q]
  BY <1>2, <1>3, InFields
<1>5. PipeOf(p)' = data[p][i]
  BY <1>1, <1>4 DEF PipeOf
<1>6. HandInv(p)'
  <2>1. CASE op = "take"
    <3>1. data[p][i] \in PipeIds /\ pipe[data[p][i]].rpos # pipe[data[p][i]].wpos
      BY <1>3, <2>1 DEF PipeEmpty
    <3>2. pipe[data[p][i]].rpos <= pipe[data[p][i]].wpos
      BY <3>1, Zenon DEF PipeInv, RingInv
    <3>3. pipe[data[p][i]].rpos < pipe[data[p][i]].wpos
      BY <3>1, <3>2, PipeTypes
    <3>. QED
      BY <1>1, <1>4, <1>5, <2>1, <3>3 DEF HandInv
  <2>2. CASE op = "put"
    <3>1. data[p][i] \in PipeIds /\ ~(pipe[data[p][i]].wpos >= pipe[data[p][i]].rpos + PIPEBUFSIZ)
      BY <1>3, <2>2 DEF PipeFull
    <3>2. pipe[data[p][i]].wpos < pipe[data[p][i]].rpos + PIPEBUFSIZ
      BY <3>1, PipeTypes, PIPEBUFSIZAssumption
    <3>. QED
      BY <1>1, <1>4, <1>5, <2>2, <3>2 DEF HandInv
  <2>3. CASE op \notin {"take", "put"}
    BY <1>3, <1>4, <2>3 DEF HandInv
  <2>. QED
    BY <2>1, <2>2, <2>3
<1>. QED
  BY <1>1, <1>4, <1>6, RingFrame

LEMMA TakeStep ==
  ASSUME LibInv, PipeInv, OneAtEachEnd, NEW p \in Procs, ReadTake(p)
  PROVE  PipeInv'
<1>1. lib[p].op = "take" /\ status[p] = "runnable" /\ data' = data /\ pipe' = pipe /\ sent' = sent
  BY DEF ReadTake, At, maps
<1>2. lib[p].op \in HandOps
  BY <1>1 DEF HandOps
<1>3. PICK k \in PipeIds : PipeOf(p) = k
  BY <1>2, HandInPipe
<1>. DEFINE P == pipe[k]
            b == P.buf[P.rpos % PIPEBUFSIZ]
<1>4. P.rpos \in Nat /\ P.wpos \in Nat /\ sent[k] \in Seq(PipeBytes) /\ got[k] \in Seq(PipeBytes)
  BY PipeTypes
<1>5. RingInv(k) /\ P.rpos < P.wpos
  BY <1>1, <1>3 DEF PipeInv, HandInv
<1>6. Len(got[k]) = P.rpos
  BY <1>1, <1>3, <1>5 DEF RingInv, OneAtEachEnd, InPipe
<1>7. b = sent[k][P.rpos + 1]
  <2>1. P.rpos \in P.rpos .. P.wpos - 1
    BY <1>4, <1>5
  <2>. QED
    BY <1>5, <2>1, Zenon DEF RingInv
<1>8. b \in PipeBytes
  <2>1. P.rpos % PIPEBUFSIZ \in 0 .. PIPEBUFSIZ - 1
    BY <1>4, PIPEBUFSIZAssumption
  <2>. QED
    BY <2>1, PipeTypes, Zenon
<1>9. got' = [got EXCEPT ![k] = Append(got[k], b)]
  BY <1>3 DEF ReadTake
<1>10. got'[k] = Append(got[k], b) /\ \A l \in PipeIds : l # k => got'[l] = got[l]
  BY <1>9, BytesType DEF BytesTypeOK
<1>11. /\ Len(got'[k]) = P.rpos + 1 /\ got'[k][P.rpos + 1] = b
       /\ \A n \in 1 .. P.rpos : got'[k][n] = got[k][n]
  <2>1. /\ Len(Append(got[k], b)) = Len(got[k]) + 1 /\ Append(got[k], b)[Len(got[k]) + 1] = b
        /\ \A n \in 1 .. Len(got[k]) : Append(got[k], b)[n] = got[k][n]
    BY <1>4, <1>8, AppendFacts, Zenon
  <2>. QED
    BY <1>6, <1>10, <2>1, Zenon
<1>12. /\ lib'[p].op = "rpos" /\ lib'[p].fd = lib[p].fd
       /\ \A q \in Procs : q # p => lib'[q] = lib[q]
  BY InFields DEF ReadTake, Doing, Goes, LibInv, LibTypeOK
<1>13. \A q \in Procs : PipeOf(q)' = PipeOf(q)
  BY <1>1, <1>12 DEF PipeOf
<1>. HIDE DEF b
<1>14. ASSUME NEW l \in PipeIds PROVE RingInv(l)'
  <2>1. CASE l = k
    <3>1. \A n \in 1 .. Len(got'[k]) : got'[k][n] = sent[k][n]
      <4>1. \A n \in 1 .. P.rpos : got[k][n] = sent[k][n]
        BY <1>5, <1>6 DEF RingInv
      <4>2. \A n \in 1 .. P.rpos + 1 : n \in 1 .. P.rpos \/ n = P.rpos + 1
        BY <1>4
      <4>3. \A n \in 1 .. P.rpos + 1 : got'[k][n] = sent[k][n]
        BY <1>7, <1>11, <4>1, <4>2, Zenon
      <4>. QED
        BY <1>11, <4>3, Zenon
    <3>2. P.rpos <= Len(got'[k]) /\ Len(got'[k]) <= P.wpos
      BY <1>4, <1>5, <1>11
    <3>3. \E q \in Procs : lib'[q].op = "rpos" /\ PipeOf(q)' = k
      BY <1>3, <1>12, <1>13
    <3>. QED
      BY <1>1, <1>5, <2>1, <3>1, <3>2, <3>3 DEF RingInv
  <2>2. CASE l # k
    <3>1. RingInv(l) /\ got'[l] = got[l]
      BY <1>10, <2>2 DEF PipeInv
    <3>2. (\E q \in Procs : lib[q].op = "rpos" /\ PipeOf(q) = l)
            => \E q \in Procs : lib'[q].op = "rpos" /\ PipeOf(q)' = l
      BY <1>1, <1>12, <1>13
    <3>. QED
      BY <1>1, <3>1, <3>2, Zenon DEF RingInv
  <2>. QED
    BY <2>1, <2>2
<1>15. ASSUME NEW q \in Procs PROVE HandInv(q)'
  <2>1. CASE q = p
    BY <1>1, <1>3, <1>11, <1>12, <1>13, <2>1, Zenon DEF HandInv
  <2>2. CASE q # p /\ lib[q].op \in HandOps
    <3>1. HandInv(q) /\ lib'[q] = lib[q] /\ PipeOf(q) \in PipeIds
      BY <1>12, <2>2, HandInPipe DEF PipeInv
    <3>2. lib[q].op = "rpos" => PipeOf(q) # k
      BY <1>1, <1>3, <2>2 DEF OneAtEachEnd, InPipe
    <3>. QED
      BY <1>1, <1>10, <1>13, <3>1, <3>2, Zenon DEF HandInv
  <2>3. CASE q # p /\ lib[q].op \notin HandOps
    BY <1>12, <2>3 DEF HandInv, HandOps
  <2>. QED
    BY <2>1, <2>2, <2>3
<1>. QED
  BY <1>14, <1>15 DEF PipeInv

LEMMA AdvanceStep ==
  ASSUME LibInv, PipeInv, OneAtEachEnd, NEW p \in Procs, ReadNext(p)
  PROVE  PipeInv'
<1>1. /\ lib[p].op = "rpos" /\ status[p] = "runnable" /\ data' = data /\ sent' = sent /\ got' = got
      /\ lib[p].op \in HandOps
  BY DEF ReadNext, At, maps, HandOps
<1>2. PICK k \in PipeIds : PipeOf(p) = k
  BY <1>1, HandInPipe
<1>. DEFINE P == pipe[k]
<1>3. P.rpos \in Nat /\ P.wpos \in Nat
  BY PipeTypes
<1>4. RingInv(k) /\ Len(got[k]) = P.rpos + 1
  BY <1>1, <1>2 DEF PipeInv, HandInv
<1>5. /\ pipe'[k] = [P EXCEPT !.rpos = P.rpos + 1] /\ \A l \in PipeIds : l # k => pipe'[l] = pipe[l]
  BY <1>2, BytesType DEF ReadNext, BytesTypeOK
<1>6. pipe'[k].rpos = P.rpos + 1 /\ pipe'[k].wpos = P.wpos /\ pipe'[k].buf = P.buf
  BY <1>5, BytesType DEF BytesTypeOK
<1>7. /\ lib'[p].op \in {"user", "read"} /\ \A q \in Procs : q # p => lib'[q] = lib[q]
  BY InFields, UserType DEF ReadNext, Returns, Doing, Goes, LibInv, LibTypeOK
<1>8. \A q \in Procs : q # p => PipeOf(q)' = PipeOf(q)
  BY <1>1, <1>7 DEF PipeOf
<1>9. ASSUME NEW l \in PipeIds PROVE RingInv(l)'
  <2>1. CASE l = k
    <3>1. \A n \in P.rpos + 1 .. P.wpos - 1 : P.buf[n % PIPEBUFSIZ] = sent[k][n + 1]
      BY <1>3, <1>4 DEF RingInv
    <3>2. /\ P.wpos = Len(sent[k]) /\ P.rpos + 1 <= P.wpos /\ P.wpos <= P.rpos + 1 + PIPEBUFSIZ
          /\ P.rpos + 1 <= Len(got[k]) /\ Len(got[k]) <= P.wpos
      BY <1>3, <1>4, PIPEBUFSIZAssumption DEF RingInv
    <3>3. \A n \in 1 .. Len(got[k]) : got[k][n] = sent[k][n]
      BY <1>4 DEF RingInv
    <3>. QED
      BY <1>1, <1>4, <1>6, <2>1, <3>1, <3>2, <3>3, Zenon DEF RingInv
  <2>2. CASE l # k
    <3>1. RingInv(l) /\ pipe'[l] = pipe[l]
      BY <1>5, <2>2 DEF PipeInv
    <3>2. (\E q \in Procs : lib[q].op = "rpos" /\ PipeOf(q) = l)
            => \E q \in Procs : lib'[q].op = "rpos" /\ PipeOf(q)' = l
      BY <1>2, <1>7, <1>8, <2>2
    <3>. QED
      BY <1>1, <3>1, <3>2 DEF RingInv
  <2>. QED
    BY <2>1, <2>2
<1>10. ASSUME NEW q \in Procs PROVE HandInv(q)'
  <2>1. CASE q = p
    BY <1>7, <2>1 DEF HandInv
  <2>2. CASE q # p /\ lib[q].op \in HandOps
    <3>1. HandInv(q) /\ lib'[q] = lib[q] /\ PipeOf(q) \in PipeIds /\ PipeOf(q)' = PipeOf(q)
      BY <1>7, <1>8, <2>2, HandInPipe DEF PipeInv
    <3>2. lib[q].op \in {"take", "rpos"} => PipeOf(q) # k
      BY <1>1, <1>2, <2>2 DEF OneAtEachEnd, InPipe
    <3>3. CASE PipeOf(q) # k
      BY <1>1, <1>5, <3>1, <3>3 DEF HandInv
    <3>4. CASE PipeOf(q) = k
      <4>1. lib[q].op \notin {"take", "rpos"}
        BY <3>2, <3>4
      <4>2. lib[q].op \in {"put", "wpos"} => P.wpos < P.rpos + PIPEBUFSIZ
        BY <3>1, <3>4 DEF HandInv
      <4>3. lib[q].op \in {"put", "wpos"} => P.wpos < P.rpos + 1 + PIPEBUFSIZ
        BY <1>3, <4>2, PIPEBUFSIZAssumption
      <4>4. lib[q].op = "wpos" => P.buf[P.wpos % PIPEBUFSIZ] = lib[q].byte
        BY <3>1, <3>4 DEF HandInv
      <4>. QED
        BY <1>6, <3>1, <3>4, <4>1, <4>3, <4>4, Zenon DEF HandInv
    <3>. QED
      BY <3>3, <3>4
  <2>3. CASE q # p /\ lib[q].op \notin HandOps
    BY <1>7, <2>3 DEF HandInv, HandOps
  <2>. QED
    BY <2>1, <2>2, <2>3
<1>. QED
  BY <1>9, <1>10 DEF PipeInv

LEMMA StoreStep ==
  ASSUME LibInv, PipeInv, OneAtEachEnd, NEW p \in Procs, NEW b \in PipeBytes, WritePut(p, b)
  PROVE  PipeInv'
<1>1. /\ lib[p].op = "put" /\ status[p] = "runnable" /\ data' = data /\ sent' = sent /\ got' = got
      /\ lib[p].op \in HandOps
  BY DEF WritePut, At, maps, HandOps
<1>2. PICK k \in PipeIds : PipeOf(p) = k
  BY <1>1, HandInPipe
<1>. DEFINE P == pipe[k]
<1>3. P.rpos \in Nat /\ P.wpos \in Nat /\ P.buf \in [0 .. PIPEBUFSIZ - 1 -> PipeBytes]
  BY PipeTypes
<1>4. RingInv(k) /\ P.wpos < P.rpos + PIPEBUFSIZ
  BY <1>1, <1>2 DEF PipeInv, HandInv
<1>5. /\ pipe'[k] = [P EXCEPT !.buf = [P.buf EXCEPT ![P.wpos % PIPEBUFSIZ] = b]]
      /\ \A l \in PipeIds : l # k => pipe'[l] = pipe[l]
  BY <1>2, BytesType DEF WritePut, BytesTypeOK
<1>6. /\ pipe'[k].rpos = P.rpos /\ pipe'[k].wpos = P.wpos
      /\ pipe'[k].buf = [P.buf EXCEPT ![P.wpos % PIPEBUFSIZ] = b]
  BY <1>5, BytesType DEF BytesTypeOK
<1>7. P.wpos % PIPEBUFSIZ \in 0 .. PIPEBUFSIZ - 1
  BY <1>3, PIPEBUFSIZAssumption
<1>8. pipe'[k].buf[P.wpos % PIPEBUFSIZ] = b
  BY <1>3, <1>6, <1>7, Zenon
<1>9. ASSUME NEW n \in P.rpos .. P.wpos - 1
      PROVE  pipe'[k].buf[n % PIPEBUFSIZ] = sent[k][n + 1]
  <2>1. n \in Nat /\ n < P.wpos /\ P.wpos < n + PIPEBUFSIZ
    BY <1>3, <1>4, PIPEBUFSIZAssumption
  <2>2. n % PIPEBUFSIZ # P.wpos % PIPEBUFSIZ
    BY <1>3, <2>1, PlacesDiffer
  <2>3. n % PIPEBUFSIZ \in 0 .. PIPEBUFSIZ - 1
    BY <2>1, PIPEBUFSIZAssumption
  <2>4. P.buf[n % PIPEBUFSIZ] = sent[k][n + 1]
    BY <1>4 DEF RingInv
  <2>. QED
    BY <1>3, <1>6, <2>2, <2>3, <2>4
<1>10. /\ lib'[p].op = "wpos" /\ lib'[p].fd = lib[p].fd /\ lib'[p].byte = b
       /\ \A q \in Procs : q # p => lib'[q] = lib[q]
  BY InFields DEF WritePut, Goes, LibInv, LibTypeOK
<1>11. \A q \in Procs : PipeOf(q)' = PipeOf(q)
  BY <1>1, <1>10 DEF PipeOf
<1>12. ASSUME NEW l \in PipeIds PROVE RingInv(l)'
  <2>1. RingInv(l) /\ (l # k => pipe'[l] = pipe[l])
    BY <1>5 DEF PipeInv
  <2>2. (\E q \in Procs : lib[q].op = "rpos" /\ PipeOf(q) = l)
          => \E q \in Procs : lib'[q].op = "rpos" /\ PipeOf(q)' = l
    BY <1>1, <1>10, <1>11
  <2>3. CASE l = k
    BY <1>1, <1>6, <1>9, <2>1, <2>2, <2>3, Zenon DEF RingInv
  <2>4. CASE l # k
    BY <1>1, <2>1, <2>2, <2>4, Zenon DEF RingInv
  <2>. QED
    BY <2>3, <2>4
<1>13. ASSUME NEW q \in Procs PROVE HandInv(q)'
  <2>1. CASE q = p
    BY <1>2, <1>4, <1>6, <1>8, <1>10, <1>11, <2>1, Zenon DEF HandInv
  <2>2. CASE q # p /\ lib[q].op \in HandOps
    <3>1. HandInv(q) /\ lib'[q] = lib[q] /\ PipeOf(q) \in PipeIds /\ PipeOf(q)' = PipeOf(q)
      BY <1>10, <1>11, <2>2, HandInPipe DEF PipeInv
    <3>2. lib[q].op \in {"put", "wpos"} => PipeOf(q) # k
      BY <1>1, <1>2, <2>2 DEF OneAtEachEnd, InPipe
    <3>3. CASE PipeOf(q) # k
      BY <1>1, <1>5, <3>1, <3>3 DEF HandInv
    <3>4. CASE PipeOf(q) = k
      BY <1>1, <1>6, <3>1, <3>2, <3>4, Zenon DEF HandInv
    <3>. QED
      BY <3>3, <3>4
  <2>3. CASE q # p /\ lib[q].op \notin HandOps
    BY <1>10, <2>3, Zenon DEF HandInv, HandOps
  <2>. QED
    BY <2>1, <2>2, <2>3
<1>. QED
  BY <1>12, <1>13 DEF PipeInv

LEMMA StoredStep ==
  ASSUME LibInv, PipeInv, OneAtEachEnd, NEW p \in Procs, WriteNext(p)
  PROVE  PipeInv'
<1>1. /\ lib[p].op = "wpos" /\ status[p] = "runnable" /\ data' = data /\ got' = got
      /\ lib[p].op \in HandOps
  BY DEF WriteNext, At, maps, HandOps
<1>2. PICK k \in PipeIds : PipeOf(p) = k
  BY <1>1, HandInPipe
<1>. DEFINE P == pipe[k]
            b == lib[p].byte
<1>3. /\ P.rpos \in Nat /\ P.wpos \in Nat /\ sent[k] \in Seq(PipeBytes) /\ b \in PipeBytes
      /\ Len(got[k]) \in Nat
  BY PipeTypes, LibFields, Zenon DEF LibInv, LibTypeOK
<1>4. RingInv(k) /\ P.wpos < P.rpos + PIPEBUFSIZ /\ P.buf[P.wpos % PIPEBUFSIZ] = b
  BY <1>1, <1>2, Zenon DEF PipeInv, HandInv
<1>5. /\ pipe'[k] = [P EXCEPT !.wpos = P.wpos + 1] /\ sent'[k] = Append(sent[k], b)
      /\ \A l \in PipeIds : l # k => pipe'[l] = pipe[l] /\ sent'[l] = sent[l]
  BY <1>2, BytesType DEF WriteNext, BytesTypeOK
<1>6. pipe'[k].rpos = P.rpos /\ pipe'[k].wpos = P.wpos + 1 /\ pipe'[k].buf = P.buf
  BY <1>5, BytesType DEF BytesTypeOK
<1>7. /\ Len(sent'[k]) = P.wpos + 1 /\ sent'[k][P.wpos + 1] = b
      /\ \A n \in 1 .. P.wpos : sent'[k][n] = sent[k][n]
  <2>1. Len(sent[k]) = P.wpos
    BY <1>4, Zenon DEF RingInv
  <2>. HIDE DEF b
  <2>. QED
    BY <1>3, <1>5, <2>1, AppendFacts
<1>. HIDE DEF b
<1>8. /\ lib'[p].op \in {"user", "write"} /\ \A q \in Procs : q # p => lib'[q] = lib[q]
  BY InFields, UserType DEF WriteNext, Returns, Doing, Goes, LibInv, LibTypeOK
<1>9. \A q \in Procs : q # p => PipeOf(q)' = PipeOf(q)
  BY <1>1, <1>8 DEF PipeOf
<1>10. ASSUME NEW l \in PipeIds PROVE RingInv(l)'
  <2>1. (\E q \in Procs : lib[q].op = "rpos" /\ PipeOf(q) = l)
          => \E q \in Procs : lib'[q].op = "rpos" /\ PipeOf(q)' = l
    BY <1>1, <1>8, <1>9
  <2>2. CASE l = k
    <3>1. ASSUME NEW n \in P.rpos .. (P.wpos + 1) - 1
          PROVE  P.buf[n % PIPEBUFSIZ] = sent'[k][n + 1]
      <4>1. CASE n = P.wpos
        BY <1>4, <1>7, <4>1, Zenon
      <4>2. CASE n # P.wpos
        <5>1. n \in P.rpos .. P.wpos - 1 /\ n + 1 \in 1 .. P.wpos
          BY <1>3, <4>2
        <5>2. P.buf[n % PIPEBUFSIZ] = sent[k][n + 1]
          BY <1>4, <5>1, Zenon DEF RingInv
        <5>. QED
          BY <1>7, <5>1, <5>2
      <4>. QED
        BY <4>1, <4>2
    <3>2. \A n \in 1 .. Len(got[k]) : got[k][n] = sent'[k][n]
      <4>1. \A n \in 1 .. Len(got[k]) : got[k][n] = sent[k][n] /\ n \in 1 .. P.wpos
        BY <1>3, <1>4 DEF RingInv
      <4>. QED
        BY <1>7, <4>1, Zenon
    <3>3. /\ P.rpos <= P.wpos + 1 /\ P.wpos + 1 <= P.rpos + PIPEBUFSIZ
          /\ P.rpos <= Len(got[k]) /\ Len(got[k]) <= P.wpos + 1
      <4>1. /\ P.rpos <= P.wpos /\ P.wpos < P.rpos + PIPEBUFSIZ
            /\ P.rpos <= Len(got[k]) /\ Len(got[k]) <= P.wpos
        BY <1>4, Zenon DEF RingInv
      <4>. QED
        BY ONLY <1>3, <4>1, PIPEBUFSIZAssumption
    <3>4. \/ Len(got[k]) = P.rpos
          \/ \E q \in Procs : lib'[q].op = "rpos" /\ PipeOf(q)' = k
      BY <1>4, <2>1, <2>2, Zenon DEF RingInv
    <3>. QED
      BY <1>1, <1>6, <1>7, <2>2, <3>1, <3>2, <3>3, <3>4, Zenon DEF RingInv
  <2>3. CASE l # k
    <3>1. RingInv(l) /\ pipe'[l] = pipe[l] /\ sent'[l] = sent[l]
      BY <1>5, <2>3 DEF PipeInv
    <3>. QED
      BY <1>1, <2>1, <3>1, Zenon DEF RingInv
  <2>. QED
    BY <2>2, <2>3
<1>11. ASSUME NEW q \in Procs PROVE HandInv(q)'
  <2>1. CASE q = p
    BY <1>8, <2>1 DEF HandInv
  <2>2. CASE q # p /\ lib[q].op \in HandOps
    <3>1. HandInv(q) /\ lib'[q] = lib[q] /\ PipeOf(q) \in PipeIds /\ PipeOf(q)' = PipeOf(q)
      BY <1>8, <1>9, <2>2, HandInPipe DEF PipeInv
    <3>2. lib[q].op \in {"put", "wpos"} => PipeOf(q) # k
      BY <1>1, <1>2, <2>2 DEF OneAtEachEnd, InPipe
    <3>3. CASE PipeOf(q) # k
      BY <1>1, <1>5, <3>1, <3>3 DEF HandInv
    <3>4. CASE PipeOf(q) = k
      <4>1. lib[q].op = "take" => P.rpos < P.wpos + 1
        BY <1>3, <3>1, <3>4 DEF HandInv
      <4>2. lib[q].op = "rpos" => Len(got[k]) = P.rpos + 1
        BY <3>1, <3>4 DEF HandInv
      <4>. QED
        BY <1>1, <1>6, <3>1, <3>2, <3>4, <4>1, <4>2, Zenon DEF HandInv
    <3>. QED
      BY <3>3, <3>4
  <2>3. CASE q # p /\ lib[q].op \notin HandOps
    BY <1>8, <2>3 DEF HandInv, HandOps
  <2>. QED
    BY <2>1, <2>2, <2>3
<1>. QED
  BY <1>10, <1>11 DEF PipeInv

(* A new pipe is empty, and nobody is reading or writing it yet.            *)
LEMMA NewPipeStep ==
  ASSUME LibInv, PipeInv, NEW p \in Procs, NEW k \in PipeIds, NEW i \in Fds, NEW j \in Fds,
         pipe_call(p, k, i, j)
  PROVE  PipeInv'
<1>1. lib[p].op = "user" /\ lib' = lib /\ Unused(k)
  BY DEF pipe_call, Calls, At
<1>2. /\ pipe'[k] = EmptyPipe /\ sent'[k] = <<>> /\ got'[k] = <<>>
      /\ \A l \in PipeIds : l # k => pipe'[l] = pipe[l] /\ sent'[l] = sent[l] /\ got'[l] = got[l]
  BY BytesType DEF pipe_call, BytesTypeOK
<1>3. \A q \in Procs : q # p => data'[q] = data[q]
  BY DEF pipe_call, LibInv, LibTypeOK
<1>4. ASSUME NEW q \in Procs, lib[q].op \in HandOps
      PROVE  /\ q # p /\ PipeOf(q)' = PipeOf(q) /\ PipeOf(q) # k /\ PipeOf(q) \in PipeIds
  <2>1. q # p
    BY <1>1, <1>4 DEF HandOps
  <2>2. lib[q].fd \in Fds /\ PipeOf(q) \in PipeIds
    BY <1>4, HandInPipe, OwnTypes
  <2>3. PipeOf(q) # k
    <3>1. <<q, lib[q].fd>> \notin DataAt(k) /\ <<q, lib[q].fd>> \in Procs \X Fds
      BY <1>1, <2>2 DEF Unused
    <3>. QED
      BY <3>1 DEF DataAt, PipeOf
  <2>. QED
    BY <1>1, <1>3, <2>1, <2>2, <2>3, Zenon DEF PipeOf
<1>5. ASSUME NEW l \in PipeIds PROVE RingInv(l)'
  <2>1. CASE l = k
    <3>1. EmptyPipe.rpos = 0 /\ EmptyPipe.wpos = 0 /\ Len(<<>>) = 0
      BY DEF EmptyPipe
    <3>. QED
      BY <1>2, <2>1, <3>1, PIPEBUFSIZAssumption DEF RingInv
  <2>2. CASE l # k
    <3>1. RingInv(l) /\ pipe'[l] = pipe[l] /\ sent'[l] = sent[l] /\ got'[l] = got[l]
      BY <1>2, <2>2, Zenon DEF PipeInv
    <3>2. (\E q \in Procs : lib[q].op = "rpos" /\ PipeOf(q) = l)
            => \E q \in Procs : lib'[q].op = "rpos" /\ PipeOf(q)' = l
      BY <1>1, <1>4 DEF HandOps
    <3>. QED
      BY <3>1, <3>2, Zenon DEF RingInv
  <2>. QED
    BY <2>1, <2>2
<1>6. ASSUME NEW q \in Procs PROVE HandInv(q)'
  <2>1. CASE lib[q].op \in HandOps
    <3>1. HandInv(q) /\ lib'[q] = lib[q]
      BY <1>1 DEF PipeInv
    <3>. QED
      BY <1>2, <1>4, <2>1, <3>1, Zenon DEF HandInv
  <2>2. CASE lib[q].op \notin HandOps
    BY <1>1, <2>2, Zenon DEF HandInv, HandOps
  <2>. QED
    BY <2>1, <2>2
<1>. QED
  BY <1>5, <1>6 DEF PipeInv

(* All other steps, with the buffers left alone.                            *)
LEMMA OtherSteps ==
  ASSUME LibInv, PipeInv, NEW p \in Procs,
         \/ CloseRest(p) \/ DupCloseRest(p) \/ DupData(p) \/ DupFd(p) \/ copy_shared_region(p)
         \/ StartChild(p) \/ ReadEmpty(p) \/ WriteFull(p) \/ PollAnswer(p) \/ Block(p) \/ Destroy(p)
         \/ \E i \in Fds : close(p, i) \/ pipeisclosed(p, i)
         \/ \E o, n \in Fds : dup(p, o, n)
         \/ \E q \in Procs : fork(p, q) \/ spawn(p, q)
  PROVE  PipeInv'
<1>1. lib \in [Procs -> LibRec] /\ data \in [Procs -> [Fds -> PipeIds \cup {0}]]
  BY DEF LibInv, LibTypeOK
<1>. DEFINE Quiet == /\ UNCHANGED bytes /\ lib[p].op \notin HandOps
                     /\ (lib' = lib) \/ (\E w : Goes(p, w) /\ w.op \notin HandOps)
                     /\ \A q \in Procs : q # p /\ lib[q].op \in HandOps => data'[q] = data[q]
<1>2. SUFFICES Quiet
  <2>1. lib'[p].op \notin HandOps /\ \A q \in Procs : q # p => lib'[q] = lib[q]
    <3>1. CASE lib' = lib
      BY <1>2, <3>1, Zenon
    <3>2. ASSUME NEW w, Goes(p, w), w.op \notin HandOps
          PROVE  lib'[p].op \notin HandOps /\ \A q \in Procs : q # p => lib'[q] = lib[q]
      BY <1>1, <3>2, Zenon DEF Goes
    <3>. QED
      BY <1>2, <3>1, <3>2, Zenon
  <2>2. HandInv(p)'
    BY <2>1, Zenon DEF HandInv, HandOps
  <2>. QED
    BY <1>2, <2>1, <2>2, RingFrame, Zenon
<1>3. User.op \notin HandOps
  BY UserType DEF HandOps
<1>4. ASSUME NEW op, NEW i, NEW to, NEW n, op \notin HandOps
      PROVE  In(op, i, to, n, 0).op \notin HandOps
  BY <1>4, InFields
<1>5. /\ "user" \notin HandOps /\ "closing" \notin HandOps /\ "dupclosing" \notin HandOps
      /\ "dup" \notin HandOps /\ "dupfd" \notin HandOps /\ "share" \notin HandOps /\ "poll" \notin HandOps
      /\ "read" \notin HandOps /\ "write" \notin HandOps /\ "rempty" \notin HandOps /\ "wfull" \notin HandOps
  BY DEF HandOps
<1>6. CASE CloseRest(p)
  <2>1. UNCHANGED bytes /\ lib[p].op = "closing" /\ Goes(p, User) /\ data' = [data EXCEPT ![p][lib[p].fd] = 0]
    BY <1>6 DEF CloseRest, At, UnmapRest, Returns, SameBytes
  <2>. QED
    BY <1>1, <1>3, <1>5, <2>1
<1>7. ASSUME NEW i \in Fds, close(p, i)
      PROVE  Quiet
  <2>1. UNCHANGED bytes /\ lib[p].op = "user" /\ data' = data
    BY <1>7 DEF close, Calls, At, Unmap, SameBytes
  <2>2. Goes(p, User) \/ Goes(p, In("closing", i, 0, 0, 0))
    BY <1>7 DEF close
  <2>. QED
    BY <1>3, <1>4, <1>5, <2>1, <2>2, Zenon
<1>8. CASE ReadEmpty(p) \/ WriteFull(p) \/ PollAnswer(p)
  <2>1. UNCHANGED bytes /\ data' = data /\ lib[p].op \in {"rempty", "wfull", "poll"}
    BY <1>8, Zenon DEF ReadEmpty, WriteFull, PollAnswer, At, OnlyLib, maps
  <2>2. \/ Goes(p, User) \/ Goes(p, In("read", lib[p].fd, 0, lib[p].n, 0))
        \/ Goes(p, In("write", lib[p].fd, 0, lib[p].n, 0))
    BY <1>8 DEF ReadEmpty, WriteFull, PollAnswer, Returns, Doing
  <2>. QED
    BY <1>3, <1>4, <1>5, <2>1, <2>2, Zenon
<1>9. CASE DupCloseRest(p)
  <2>1. /\ UNCHANGED bytes /\ lib[p].op = "dupclosing" /\ data' = [data EXCEPT ![p][lib[p].to] = 0]
        /\ Goes(p, In("dup", lib[p].fd, lib[p].to, 0, 0))
    BY <1>9 DEF DupCloseRest, At, UnmapRest, SameBytes
  <2>. QED
    BY <1>1, <1>4, <1>5, <2>1
<1>10. CASE DupFd(p)
  <2>1. UNCHANGED bytes /\ lib[p].op = "dupfd" /\ data' = data /\ Goes(p, User)
    BY <1>10 DEF DupFd, At, Returns, SameBytes
  <2>. QED
    BY <1>3, <1>5, <2>1, Zenon
<1>11. ASSUME NEW o, NEW n, DupMap(p, o, n)
       PROVE  /\ \E w : Goes(p, w) /\ w.op \notin HandOps
              /\ \A q \in Procs : q # p => data'[q] = data[q]
  <2>1. Goes(p, User) \/ Goes(p, In("dupfd", o, n, 0, 0))
    BY <1>11 DEF DupMap, Returns
  <2>2. data' = data \/ data' = [data EXCEPT ![p][n] = data[p][o]]
    BY <1>11 DEF DupMap
  <2>3. \E w : Goes(p, w) /\ w.op \notin HandOps
    BY <1>3, <1>4, <1>5, <2>1
  <2>. QED
    BY <1>1, <2>2, <2>3
<1>12. CASE DupData(p)
  <2>1. UNCHANGED bytes /\ lib[p].op = "dup" /\ DupMap(p, lib[p].fd, lib[p].to)
    BY <1>12, Zenon DEF DupData, At, SameBytes
  <2>. QED
    BY <1>5, <1>11, <2>1, Zenon
<1>13. ASSUME NEW o \in Fds, NEW n \in Fds, dup(p, o, n)
       PROVE  Quiet
  <2>1. UNCHANGED bytes /\ lib[p].op = "user"
    BY <1>13, Zenon DEF dup, Calls, At, SameBytes
  <2>2. \/ DupMap(p, o, n)
        \/ data' = data /\ \E op \in {"dup", "dupclosing"} : Goes(p, In(op, o, n, 0, 0))
    BY <1>13, Zenon DEF dup, Unmap
  <2>3. CASE DupMap(p, o, n)
    BY <1>5, <1>11, <2>1, <2>3, Zenon
  <2>4. CASE data' = data /\ \E op \in {"dup", "dupclosing"} : Goes(p, In(op, o, n, 0, 0))
    BY <1>4, <1>5, <2>1, <2>4, Zenon
  <2>. QED
    BY <2>2, <2>3, <2>4, Zenon
<1>14. ASSUME NEW i \in Fds, pipeisclosed(p, i)
       PROVE  Quiet
  <2>1. UNCHANGED bytes /\ lib[p].op = "user" /\ data' = data /\ Goes(p, In("poll", i, 0, 0, 0))
    BY <1>14, Zenon DEF pipeisclosed, Calls, At, OnlyLib, maps
  <2>. QED
    BY <1>4, <1>5, <2>1, Zenon
<1>15. CASE Block(p) \/ Destroy(p)
  <2>1. UNCHANGED bytes /\ lib[p].op = "user" /\ lib' = lib
    BY <1>15, Zenon DEF Block, Destroy, Calls, At, SameBytes
  <2>2. \A q \in Procs : q # p => data'[q] = data[q]
    BY <1>1, <1>15 DEF Block, Destroy, maps
  <2>. QED
    BY <1>5, <2>1, <2>2, Zenon
<1>16. CASE StartChild(p)
  <2>1. UNCHANGED bytes /\ lib[p].op = "share" /\ data' = data /\ Goes(p, User)
    BY <1>16, Zenon DEF StartChild, At, Returns, maps, SameBytes
  <2>. QED
    BY <1>3, <1>5, <2>1, Zenon
<1>17. CASE copy_shared_region(p)
  <2>1. UNCHANGED bytes /\ lib[p].op = "share" /\ status[p] = "runnable"
    BY <1>17, Zenon DEF copy_shared_region, At, SameBytes
  <2>2. lib[p].to \in Procs /\ lib[lib[p].to].op = "user"
    BY <2>1, Zenon DEF LibInv, SpawnInv, ProcInv
  <2>3. \A q \in Procs : q # lib[p].to => data'[q] = data[q]
    BY <1>1, <1>17, Zenon DEF copy_shared_region
  <2>4. \E m : Goes(p, In("share", 0, lib[p].to, m, 0))
    BY <1>17, Zenon DEF copy_shared_region
  <2>. QED
    BY <1>4, <1>5, <2>1, <2>2, <2>3, <2>4, Zenon
<1>18. ASSUME NEW q \in Procs, fork(p, q) \/ spawn(p, q)
       PROVE  Quiet
  <2>1. UNCHANGED bytes /\ lib[p].op = "user" /\ status[q] = "free"
    BY <1>18 DEF fork, spawn, Calls, At, SameBytes, FreeEnv
  <2>2. lib[q].op = "user"
    BY <2>1, Zenon DEF LibInv, ProcInv
  <2>3. \A r \in Procs : r # q => data'[r] = data[r]
    BY <1>1, <1>18 DEF fork, spawn, maps
  <2>4. lib' = lib \/ \E m : Goes(p, In("share", 0, q, m, 0))
    BY <1>18 DEF fork, spawn
  <2>. QED
    BY <1>4, <1>5, <2>1, <2>2, <2>3, <2>4, Zenon
<1>. QED
  BY <1>6, <1>7, <1>8, <1>9, <1>10, <1>12, <1>13, <1>14, <1>15, <1>16, <1>17, <1>18, Zenon

LEMMA InitRing == LibInit => PipeInv
<1>. SUFFICES ASSUME LibInit PROVE PipeInv
  OBVIOUS
<1>1. \A p \in Procs : lib[p].op = "user"
  BY UserType DEF LibInit
<1>2. ASSUME NEW k \in PipeIds PROVE RingInv(k)
  <2>1. pipe[k].rpos = 0 /\ pipe[k].wpos = 0 /\ Len(sent[k]) = 0 /\ Len(got[k]) = 0
    BY DEF LibInit, EmptyPipe
  <2>2. /\ pipe[k].rpos <= pipe[k].wpos /\ pipe[k].wpos <= pipe[k].rpos + PIPEBUFSIZ
        /\ pipe[k].rpos <= Len(got[k]) /\ Len(got[k]) <= pipe[k].wpos
        /\ pipe[k].rpos .. pipe[k].wpos - 1 = {} /\ 1 .. Len(got[k]) = {}
    BY ONLY <2>1, PIPEBUFSIZAssumption
  <2>. QED
    BY ONLY <2>1, <2>2, Zenon DEF RingInv
<1>3. \A p \in Procs : HandInv(p)
  BY <1>1, Zenon DEF HandInv
<1>. QED
  BY <1>2, <1>3 DEF PipeInv

LEMMA NextRing == LibInv /\ PipeInv /\ OneAtEachEnd /\ [LibNext]_libVars => PipeInv'
<1>. SUFFICES ASSUME LibInv, PipeInv, OneAtEachEnd, [LibNext]_libVars PROVE PipeInv'
  OBVIOUS
<1>1. CASE UNCHANGED libVars
  <2>1. UNCHANGED <<lib, data, pipe, sent, got>>
    BY <1>1 DEF libVars, maps, bytes
  <2>2. \A p \in Procs : PipeOf(p)' = PipeOf(p)
    BY <2>1 DEF PipeOf
  <2>3. ASSUME NEW k \in PipeIds PROVE RingInv(k)'
    BY <2>1, <2>2, Zenon DEF PipeInv, RingInv
  <2>4. ASSUME NEW p \in Procs PROVE HandInv(p)'
    BY <2>1, <2>2, Zenon DEF PipeInv, HandInv
  <2>. QED
    BY <2>3, <2>4 DEF PipeInv
<1>2. ASSUME NEW p \in Procs, InCall(p)
      PROVE  PipeInv'
  BY <1>2, OtherSteps, LookSteps, TakeStep, AdvanceStep, StoreStep, StoredStep, Zenon DEF InCall
<1>3. ASSUME NEW p \in Procs, MakesCall(p)
      PROVE  PipeInv'
  BY <1>3, OtherSteps, LookSteps, NewPipeStep, Zenon DEF MakesCall
<1>. QED
  BY <1>1, <1>2, <1>3 DEF LibNext

LEMMA RingInOrder == LibInv /\ PipeInv => BytesInOrder
<1>. SUFFICES ASSUME LibInv, PipeInv, NEW k \in PipeIds
     PROVE  Len(got[k]) <= Len(sent[k]) /\ got[k] = SubSeq(sent[k], 1, Len(got[k]))
  BY DEF BytesInOrder
<1>1. /\ Len(got[k]) <= Len(sent[k]) /\ \A n \in 1 .. Len(got[k]) : got[k][n] = sent[k][n]
  BY DEF PipeInv, RingInv
<1>2. sent[k] \in Seq(PipeBytes) /\ got[k] \in Seq(PipeBytes) /\ Len(got[k]) \in Nat /\ Len(sent[k]) \in Nat
  BY PipeTypes
<1>. QED
  BY <1>1, <1>2, PrefixFacts

(* devpipe_read and devpipe_write (lib/pipe.c): with at most one process at *)
(* a time taking from a pipe and one storing in it, what is read is what    *)
(* was written, in order, with no lock and a buffer of any size.            *)
THEOREM ReadInOrder == LibSpec /\ []OneAtEachEnd => []BytesInOrder
<1>1. LibInit => PipeInv
  BY InitRing
<1>2. LibInv /\ PipeInv /\ OneAtEachEnd /\ [LibNext]_libVars => PipeInv'
  BY NextRing
<1>3. LibInv /\ PipeInv => BytesInOrder
  BY RingInOrder
<1>. QED
  BY <1>1, <1>2, <1>3, LibCorrect, PTL DEF LibSpec

-----------------------------------------------------------------------------
(* The programs of user/ are processes of the library.                      *)
LEMMA ProgramStep ==
  ASSUME NEW p \in Procs, PipesStep(p)
  PROVE  [LibNext]_libVars
<1>1. CASE CloseAllDone(p) \/ SpawnFails(p) \/ Wait(p) \/ While(p)
  BY <1>1, Zenon DEF CloseAllDone, SpawnFails, Wait, While
<1>2. CASE \/ CloseRest(p) \/ SpawnEnds(p) \/ PutByte(p) \/ WriteDone(p) \/ Told(p) \/ GoesOn(p)
  <2>1. InCall(p)
    BY <1>2, Zenon DEF SpawnEnds, PutByte, WriteDone, Told, GoesOn, InCall, WritePut
  <2>. QED
    BY <2>1 DEF LibNext
<1>3. CASE \/ CloseFd(p) \/ CloseAllStep(p) \/ ExitProc(p) \/ DupFds(p) \/ BlockForEver(p) \/ AskClosed(p)
  <2>1. MakesCall(p)
    BY <1>3, Zenon DEF CloseFd, CloseAllStep, ExitProc, DupFds, BlockForEver, AskClosed, MakesCall, close, dup, pipeisclosed
  <2>. QED
    BY <2>1 DEF LibNext
<1>4. CASE PipeCreate(p) \/ ForkChild(p) \/ SpawnChild(p) \/ ReadBytes(p) \/ WriteBytes(p)
  <2>1. MakesCall(p)
    BY <1>4, Zenon DEF PipeCreate, ForkChild, SpawnChild, ReadBytes, WriteBytes, MakesCall, pipe_call, fork, spawn,
                FreeEnv, readn, write
  <2>. QED
    BY <2>1 DEF LibNext
<1>. QED
  BY <1>1, <1>2, <1>3, <1>4 DEF PipesStep

(* The shell's pipelines and the pipe tests are behaviours of the library,  *)
(* so that what is proved of the library holds of them.                     *)
THEOREM ProgramsUseLibrary == PipesSpec => LibSpec
<1>1. PipesInit => LibInit
  BY DEF PipesInit
<1>2. [PipesNext]_pipesVars => [LibNext]_libVars
  <2>1. UNCHANGED pipesVars => UNCHANGED libVars
    BY DEF pipesVars
  <2>. QED
    BY <2>1, ProgramStep DEF PipesNext
<1>. QED
  BY <1>1, <1>2, PTL DEF PipesSpec, LibSpec
=============================================================================

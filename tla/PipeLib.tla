------------------------------ MODULE PipeLib ------------------------------
(***************************************************************************)
(* Pipes and file descriptors of the user library (lib/pipe.c, lib/fd.c),  *)
(* with fork, spawn and exit, for processes that make any calls in any     *)
(* order; Pipes says which calls the programs of the repository make.      *)
(*                                                                         *)
(* A descriptor is a page of type Fd at one of MAXFDS addresses, a pipe is *)
(* one data page behind each of its two descriptors, and "is the other end *)
(* closed" is answered from the reference counts of these pages.  A        *)
(* process is preempted between any two system calls and between any two   *)
(* accesses to a page that it shares, so each of these is a step; lib says *)
(* where in a call a process is.  A call that fails changes nothing and is *)
(* no step here.                                                           *)
(***************************************************************************)
EXTENDS Integers, Sequences, FiniteSets

CONSTANTS Procs, FirstProc,   \* environments, and the one that runs at first
          PipeIds,            \* the pages pipes can be in
          MAXFDS,             \* MAXFD: descriptors of a process
          PIPEBUFSIZ,         \* bytes in a pipe
          PipeBytes           \* values of a byte

ASSUME ProcsAssumption == IsFiniteSet(Procs) /\ FirstProc \in Procs
ASSUME PipeIdsAssumption == 0 \notin PipeIds
ASSUME MAXFDSAssumption == MAXFDS \in Nat /\ MAXFDS >= 2
ASSUME PIPEBUFSIZAssumption == PIPEBUFSIZ \in Nat \ {0}
ASSUME PipeBytesAssumption == 0 \in PipeBytes

VARIABLES
  status,  \* env_status of every process
  lib,     \* where in a library call a process is
  fd,      \* the Fd page at each of its descriptors
  data,    \* the pipe whose page is at the data address of each descriptor
  pipe,    \* p_rpos, p_wpos and p_buf of the pipes
  sent,    \* bytes stored in each pipe so far
  got      \* bytes taken from each pipe so far

maps == <<fd, data>>
bytes == <<pipe, sent, got>>
libVars == <<status, lib, maps, bytes>>

Fds == 0 .. MAXFDS - 1
NoFd == <<0, "none">>
Cons == <<0, "console">>
Ends == {"read", "write"}
Other(end) == CHOOSE e \in Ends : e # end
PipePages == PipeIds \X Ends
FdPages == PipePages \cup {NoFd, Cons}

(* In a call: what is next, the descriptor, the second descriptor of dup or *)
(* the child of spawn, the number of bytes or pages, the byte in the hand.  *)
In(op, i, to, n, b) == [op |-> op, fd |-> i, to |-> to, n |-> n, byte |-> b]
User == In("user", 0, 0, 0, 0)

EmptyPipe == [rpos |-> 0, wpos |-> 0, buf |-> [i \in 0 .. PIPEBUFSIZ - 1 |-> 0]]

LibInit ==
  /\ status = [p \in Procs |-> IF p = FirstProc THEN "runnable" ELSE "free"]
  /\ lib = [p \in Procs |-> User]
  /\ fd = [p \in Procs |-> [i \in Fds |-> IF p = FirstProc /\ i <= 1 THEN Cons ELSE NoFd]]
  /\ data = [p \in Procs |-> [i \in Fds |-> 0]]
  /\ pipe = [k \in PipeIds |-> EmptyPipe]
  /\ sent = [k \in PipeIds |-> <<>>]
  /\ got = [k \in PipeIds |-> <<>>]

(* region_maxref of an Fd page and of a pipe's page.                        *)
FdsAt(page) == {x \in Procs \X Fds : fd[x[1]][x[2]] = page}
DataAt(k) == {x \in Procs \X Fds : data[x[1]][x[2]] = k}
FdRefs(page) == Cardinality(FdsAt(page))
DataRefs(k) == Cardinality(DataAt(k))

At(p, op) == status[p] = "runnable" /\ lib[p].op = op
Calls(p) == At(p, "user")
Goes(p, where) == lib' = [lib EXCEPT ![p] = where]
Returns(p) == Goes(p, User)

SameBytes == UNCHANGED bytes
OnlyLib == UNCHANGED <<status, maps, bytes>>

-----------------------------------------------------------------------------
(* Descriptors (lib/fd.c).                                                  *)

(* fd_close and devpipe_close: the descriptor is unmapped before the pipe,  *)
(* and then once more, which has no effect.                                 *)
UnmapDataFirst(p, i) ==
  /\ data' = [data EXCEPT ![p][i] = 0]
  /\ UNCHANGED fd

Unmap(p, i) ==
  /\ fd' = [fd EXCEPT ![p][i] = NoFd]
  /\ UNCHANGED data

UnmapRest(p, i) ==
  /\ fd' = [fd EXCEPT ![p][i] = NoFd]
  /\ data' = [data EXCEPT ![p][i] = 0]

close(p, i) ==
  /\ Calls(p) /\ i \in Fds /\ fd[p][i] # NoFd
  /\ Unmap(p, i)
  /\ Goes(p, IF fd[p][i] = Cons THEN User ELSE In("closing", i, 0, 0, 0))
  /\ UNCHANGED status /\ SameBytes

CloseRest(p) ==
  /\ At(p, "closing")
  /\ UnmapRest(p, lib[p].fd)
  /\ Returns(p) /\ UNCHANGED status /\ SameBytes

(* dup closes the new descriptor, then maps the pipe before the descriptor. *)
DupMap(p, o, n) ==
  IF data[p][o] # 0
    THEN /\ data' = [data EXCEPT ![p][n] = data[p][o]]
         /\ Goes(p, In("dupfd", o, n, 0, 0))
         /\ UNCHANGED fd
    ELSE /\ fd' = [fd EXCEPT ![p][n] = fd[p][o]]
         /\ Returns(p)
         /\ UNCHANGED data

dup(p, o, n) ==
  /\ Calls(p) /\ o \in Fds /\ n \in Fds /\ fd[p][o] # NoFd
  /\ IF fd[p][n] = NoFd THEN DupMap(p, o, n)
     ELSE /\ Unmap(p, n)
          /\ Goes(p, In(IF fd[p][n] = Cons THEN "dup" ELSE "dupclosing", o, n, 0, 0))
  /\ UNCHANGED status /\ SameBytes

DupCloseRest(p) ==
  /\ At(p, "dupclosing")
  /\ UnmapRest(p, lib[p].to)
  /\ Goes(p, In("dup", lib[p].fd, lib[p].to, 0, 0))
  /\ UNCHANGED status /\ SameBytes

DupData(p) ==
  /\ At(p, "dup")
  /\ DupMap(p, lib[p].fd, lib[p].to)
  /\ UNCHANGED status /\ SameBytes

DupFd(p) ==
  /\ At(p, "dupfd")
  /\ fd' = [fd EXCEPT ![p][lib[p].to] = fd[p][lib[p].fd]]
  /\ Returns(p) /\ UNCHANGED <<status, data>> /\ SameBytes

(* fd_alloc: the smallest descriptor whose page is not mapped.              *)
fd_alloc(f, i) == f[i] = NoFd /\ \A j \in Fds : j < i => f[j] # NoFd

(* pipe: fresh pages, not shared with anyone before it returns.             *)
Unused(k) == DataAt(k) = {} /\ \A e \in Ends : FdsAt(<<k, e>>) = {}

pipe_call(p, k, i, j) ==
  /\ Calls(p) /\ k \in PipeIds /\ Unused(k)
  /\ i \in Fds /\ fd_alloc(fd[p], i)
  /\ j \in Fds /\ fd_alloc([fd[p] EXCEPT ![i] = <<k, "read">>], j)
  /\ fd' = [fd EXCEPT ![p] = [@ EXCEPT ![i] = <<k, "read">>, ![j] = <<k, "write">>]]
  /\ data' = [data EXCEPT ![p] = [@ EXCEPT ![i] = k, ![j] = k]]
  /\ pipe' = [pipe EXCEPT ![k] = EmptyPipe]
  /\ sent' = [sent EXCEPT ![k] = <<>>]
  /\ got' = [got EXCEPT ![k] = <<>>]
  /\ UNCHANGED <<status, lib>>

-----------------------------------------------------------------------------
(* Processes (lib/fork.c, lib/spawn.c, lib/uvpt.c, lib/exit.c).             *)

(* sys_exofork gives out a free environment.                                *)
FreeEnv(q) == q \in Procs /\ status[q] = "free"

(* fork: one sys_map_region copies the whole space, shared pages as such.   *)
fork(p, q) ==
  /\ Calls(p) /\ FreeEnv(q)
  /\ status' = [status EXCEPT ![q] = "runnable"]
  /\ fd' = [fd EXCEPT ![q] = fd[p]]
  /\ data' = [data EXCEPT ![q] = data[p]]
  /\ UNCHANGED lib /\ SameBytes

(* foreach_shared_region: the next shared page from page n on, by ascending *)
(* address, which is first all descriptors and then all data pages.         *)
Present(p, n) == IF n < MAXFDS THEN fd[p][n] # NoFd ELSE data[p][n - MAXFDS] # 0
NextShared(p, n, m) ==
  /\ m \in n .. 2 * MAXFDS
  /\ m < 2 * MAXFDS => Present(p, m)
  /\ \A j \in n .. m - 1 : ~Present(p, j)

(* spawn, once the program is loaded.                                       *)
spawn(p, q) ==
  /\ Calls(p) /\ FreeEnv(q)
  /\ status' = [status EXCEPT ![q] = "notrunnable"]
  /\ \E m \in 0 .. 2 * MAXFDS : NextShared(p, 0, m) /\ Goes(p, In("share", 0, q, m, 0))
  /\ UNCHANGED maps /\ SameBytes

copy_shared_region(p) ==
  /\ At(p, "share") /\ lib[p].n < 2 * MAXFDS
  /\ LET q == lib[p].to
         n == lib[p].n
     IN /\ IF n < MAXFDS
             THEN /\ fd' = [fd EXCEPT ![q] = [@ EXCEPT ![n] = fd[p][n]]]
                  /\ UNCHANGED data
             ELSE /\ data' = [data EXCEPT ![q] = [@ EXCEPT ![n - MAXFDS] = data[p][n - MAXFDS]]]
                  /\ UNCHANGED fd
        /\ \E m \in 0 .. 2 * MAXFDS : NextShared(p, n + 1, m) /\ Goes(p, In("share", 0, q, m, 0))
  /\ UNCHANGED status /\ SameBytes

StartChild(p) ==
  /\ At(p, "share") /\ lib[p].n = 2 * MAXFDS
  /\ status' = [status EXCEPT ![lib[p].to] = "runnable"]
  /\ Returns(p) /\ UNCHANGED maps /\ SameBytes

(* ipc_recv from nobody.                                                    *)
Block(p) ==
  /\ Calls(p)
  /\ status' = [status EXCEPT ![p] = "blocked"]
  /\ UNCHANGED <<lib, maps>> /\ SameBytes

(* sys_env_destroy(0) unmaps all that close_all left.                       *)
Destroy(p) ==
  /\ Calls(p)
  /\ status' = [status EXCEPT ![p] = "free"]
  /\ fd' = [fd EXCEPT ![p] = [i \in Fds |-> NoFd]]
  /\ data' = [data EXCEPT ![p] = [i \in Fds |-> 0]]
  /\ UNCHANGED lib /\ SameBytes

-----------------------------------------------------------------------------
(* Reading and writing a pipe (lib/pipe.c).                                 *)

(* _pipeisclosed: sys_region_refs2 compares both counts in one call.        *)
_pipeisclosed(p, i) == FdRefs(fd[p][i]) = DataRefs(data[p][i])

(* The descriptor the process is reading or writing, and its pipe.          *)
PipeOf(p) == data[p][lib[p].fd]

PipeEmpty(k) == pipe[k].rpos = pipe[k].wpos

PipeFullLate(k) == pipe[k].wpos > pipe[k].rpos + PIPEBUFSIZ

PipeFull(k) == pipe[k].wpos >= pipe[k].rpos + PIPEBUFSIZ

(* A call of the read or write kind with n bytes to go.                     *)
Doing(p, op, n) == Goes(p, In(op, lib[p].fd, 0, n, 0))

(* readn calls read until n bytes have come.  (A read that returns fewer    *)
(* bytes because there are no more is a readn of that many.)                *)
readn(p, i, n) ==
  /\ Calls(p) /\ i \in Fds /\ n \in Nat \ {0}
  /\ \E k \in PipeIds : fd[p][i] = <<k, "read">>
  /\ Goes(p, In(IF PipeEmpty(data[p][i]) THEN "rempty" ELSE "take", i, 0, n, 0))
  /\ OnlyLib

ReadCheck(p) ==
  /\ At(p, "read")
  /\ Doing(p, IF PipeEmpty(PipeOf(p)) THEN "rempty" ELSE "take", lib[p].n)
  /\ OnlyLib

ReadEmpty(p) ==
  /\ At(p, "rempty")
  /\ IF _pipeisclosed(p, lib[p].fd) THEN Returns(p) ELSE Doing(p, "read", lib[p].n)
  /\ OnlyLib

ReadTake(p) ==
  /\ At(p, "take")
  /\ LET k == PipeOf(p)
     IN got' = [got EXCEPT ![k] = Append(@, pipe[k].buf[pipe[k].rpos % PIPEBUFSIZ])]
  /\ Doing(p, "rpos", lib[p].n)
  /\ UNCHANGED <<status, maps, pipe, sent>>

ReadNext(p) ==
  /\ At(p, "rpos")
  /\ pipe' = [pipe EXCEPT ![PipeOf(p)].rpos = @ + 1]
  /\ IF lib[p].n = 1 THEN Returns(p) ELSE Doing(p, "read", lib[p].n - 1)
  /\ UNCHANGED <<status, maps, sent, got>>

write(p, i, n) ==
  /\ Calls(p) /\ i \in Fds /\ n \in Nat \ {0}
  /\ \E k \in PipeIds : fd[p][i] = <<k, "write">>
  /\ Goes(p, In(IF PipeFull(data[p][i]) THEN "wfull" ELSE "put", i, 0, n, 0))
  /\ OnlyLib

WriteCheck(p) ==
  /\ At(p, "write")
  /\ Doing(p, IF PipeFull(PipeOf(p)) THEN "wfull" ELSE "put", lib[p].n)
  /\ OnlyLib

WriteFull(p) ==
  /\ At(p, "wfull")
  /\ IF _pipeisclosed(p, lib[p].fd) THEN Returns(p) ELSE Doing(p, "write", lib[p].n)
  /\ OnlyLib

WritePut(p, b) ==
  /\ At(p, "put") /\ b \in PipeBytes
  /\ LET k == PipeOf(p)
     IN pipe' = [pipe EXCEPT ![k].buf[pipe[k].wpos % PIPEBUFSIZ] = b]
  /\ Goes(p, In("wpos", lib[p].fd, 0, lib[p].n, b))
  /\ UNCHANGED <<status, maps, sent, got>>

WriteNext(p) ==
  /\ At(p, "wpos")
  /\ pipe' = [pipe EXCEPT ![PipeOf(p)].wpos = @ + 1]
  /\ sent' = [sent EXCEPT ![PipeOf(p)] = Append(@, lib[p].byte)]
  /\ IF lib[p].n = 1 THEN Returns(p) ELSE Doing(p, "write", lib[p].n - 1)
  /\ UNCHANGED <<status, maps, got>>

(* pipeisclosed: fd_lookup, then the question.                              *)
pipeisclosed(p, i) ==
  /\ Calls(p) /\ i \in Fds /\ fd[p][i] \in PipePages
  /\ Goes(p, In("poll", i, 0, 0, 0))
  /\ OnlyLib

PollAnswer(p) ==
  /\ At(p, "poll")
  /\ Returns(p)
  /\ OnlyLib

-----------------------------------------------------------------------------
InCall(p) ==
  \/ CloseRest(p) \/ DupCloseRest(p) \/ DupData(p) \/ DupFd(p)
  \/ copy_shared_region(p) \/ StartChild(p)
  \/ ReadCheck(p) \/ ReadEmpty(p) \/ ReadTake(p) \/ ReadNext(p)
  \/ WriteCheck(p) \/ WriteFull(p) \/ (\E b \in PipeBytes : WritePut(p, b)) \/ WriteNext(p)
  \/ PollAnswer(p)

MakesCall(p) ==
  \/ \E i \in Fds : close(p, i) \/ pipeisclosed(p, i)
  \/ \E i, n \in Fds : dup(p, i, n)
  \/ \E k \in PipeIds, i, j \in Fds : pipe_call(p, k, i, j)
  \/ \E q \in Procs : fork(p, q) \/ spawn(p, q)
  \/ \E i \in Fds, n \in Nat \ {0} : readn(p, i, n) \/ write(p, i, n)
  \/ Block(p) \/ Destroy(p)

LibNext == \E p \in Procs : InCall(p) \/ MakesCall(p)

LibSpec == LibInit /\ [][LibNext]_libVars

-----------------------------------------------------------------------------
(* A process that is about to compare the counts.                           *)
Asks(p) == At(p, "rempty") \/ At(p, "wfull") \/ At(p, "poll")

(* _pipeisclosed never says "closed" while some process still has the other *)
(* end: whoever is about to ask gets the truth, whatever close, dup or fork *)
(* another process is in the middle of, and while spawns pass on other ends *)
(* than the one that is asked about (AskedWhole below).                     *)
ClosedIsTrue ==
  \A p \in Procs :
    Asks(p) /\ _pipeisclosed(p, lib[p].fd) =>
      FdsAt(<<PipeOf(p), Other(fd[p][lib[p].fd][2])>>) = {}

(* devpipe_read takes the bytes devpipe_write stored, each once and in      *)
(* order, although the buffer wraps around and nothing is locked.           *)
BytesInOrder ==
  \A k \in PipeIds :
    /\ Len(got[k]) <= Len(sent[k])
    /\ got[k] = SubSeq(sent[k], 1, Len(got[k]))

-----------------------------------------------------------------------------
(* The inductive invariant of the library.                                  *)

ReadOps == {"read", "rempty", "take", "rpos"}
WriteOps == {"write", "wfull", "put", "wpos"}
LibOps == {"user", "closing", "dupclosing", "dup", "dupfd", "share", "poll"} \cup ReadOps \cup WriteOps

LibRec == [op : LibOps, fd : Fds, to : Fds \cup Procs, n : Nat, byte : PipeBytes]

LibTypeOK ==
  /\ status \in [Procs -> {"free", "runnable", "notrunnable", "blocked"}]
  /\ lib \in [Procs -> LibRec]
  /\ fd \in [Procs -> [Fds -> FdPages]]
  /\ data \in [Procs -> [Fds -> PipeIds \cup {0}]]
  /\ pipe \in [PipeIds -> [rpos : Nat, wpos : Nat, buf : [0 .. PIPEBUFSIZ - 1 -> PipeBytes]]]
  /\ sent \in [PipeIds -> Seq(PipeBytes)] /\ got \in [PipeIds -> Seq(PipeBytes)]

(* Behind every descriptor of a pipe is the page of that pipe: what close   *)
(* and dup do in two steps they do in the right order.                      *)
Backed(p) == \A i \in Fds : fd[p][i] \in PipePages => data[p][i] = fd[p][i][1]

(* Where in a call a process is says what it has mapped.                    *)
MapsRight(p) ==
  LET i == lib[p].fd
      o == lib[p].to
  IN /\ lib[p].op = "closing" => fd[p][i] = NoFd
     /\ lib[p].op \in {"dupclosing", "dup", "dupfd"} => o \in Fds /\ fd[p][o] = NoFd
     /\ lib[p].op = "dupfd" => data[p][o] = data[p][i]
     /\ lib[p].op \in ReadOps => \E k \in PipeIds : fd[p][i] = <<k, "read">>
     /\ lib[p].op \in WriteOps => \E k \in PipeIds : fd[p][i] = <<k, "write">>
     /\ lib[p].op = "poll" => fd[p][i] \in PipePages
     /\ lib[p].op \in ReadOps \cup WriteOps => lib[p].n # 0

(* A child that is being spawned by r has what r has passed on so far.      *)
Passes(r, q) == lib[r].op = "share" /\ lib[r].to = q
PassedOn(r, q) ==
  /\ lib[r].n \in 0 .. 2 * MAXFDS
  /\ \A j \in Fds : fd[q][j] = IF j < lib[r].n THEN fd[r][j] ELSE NoFd
  /\ \A j \in Fds : data[q][j] = IF MAXFDS + j < lib[r].n THEN data[r][j] ELSE 0

SpawnInv ==
  /\ \A r \in Procs : lib[r].op = "share" =>
       /\ lib[r].to \in Procs /\ status[lib[r].to] = "notrunnable"
       /\ PassedOn(r, lib[r].to)
  /\ \A q \in Procs : status[q] = "notrunnable" => \E r \in Procs : Passes(r, q)
  /\ \A r, s, q \in Procs : Passes(r, q) /\ Passes(s, q) => r = s

ProcInv ==
  \A p \in Procs :
    /\ status[p] # "runnable" => lib[p].op = "user"
    /\ status[p] = "free" => \A i \in Fds : fd[p][i] = NoFd /\ data[p][i] = 0
    /\ status[p] # "notrunnable" => Backed(p)
    /\ MapsRight(p)

LibInv == LibTypeOK /\ ProcInv /\ SpawnInv

(* The end that page is of a pipe is being passed on to a spawned child:    *)
(* the child has the descriptor and not yet the pipe behind it.             *)
HalfPassed(page) == \E q \in Procs : \E j \in Fds : fd[q][j] = page /\ data[q][j] # page[1]

(* Nobody asks about a pipe while the end it asks with is being passed on.  *)
AskedWhole == \A p \in Procs : Asks(p) => ~HalfPassed(fd[p][lib[p].fd])

(* At most one process at a time takes from a pipe, and one stores in it.   *)
InPipe(p, q, ops) ==
  lib[p].op \in ops /\ lib[q].op \in ops /\ PipeOf(p) = PipeOf(q)
OneAtEachEnd ==
  \A p, q \in Procs : InPipe(p, q, {"take", "rpos"}) \/ InPipe(p, q, {"put", "wpos"}) => p = q

(* The pipe is a ring: what was stored and not yet taken is in the buffer.  *)
RingInv(k) ==
  LET P == pipe[k]
  IN /\ P.wpos = Len(sent[k])
     /\ P.rpos <= P.wpos /\ P.wpos <= P.rpos + PIPEBUFSIZ
     /\ \A n \in P.rpos .. P.wpos - 1 : P.buf[n % PIPEBUFSIZ] = sent[k][n + 1]
     /\ P.rpos <= Len(got[k]) /\ Len(got[k]) <= P.wpos
     /\ \A n \in 1 .. Len(got[k]) : got[k][n] = sent[k][n]
     /\ Len(got[k]) = P.rpos \/ \E p \in Procs : lib[p].op = "rpos" /\ PipeOf(p) = k
HandInv(p) ==
  LET k == PipeOf(p)
      P == pipe[k]
  IN /\ lib[p].op = "take" => P.rpos < P.wpos
     /\ lib[p].op = "rpos" => Len(got[k]) = P.rpos + 1
     /\ lib[p].op \in {"put", "wpos"} => P.wpos < P.rpos + PIPEBUFSIZ
     /\ lib[p].op = "wpos" => P.buf[P.wpos % PIPEBUFSIZ] = lib[p].byte
PipeInv == (\A k \in PipeIds : RingInv(k)) /\ \A p \in Procs : HandInv(p)
=============================================================================

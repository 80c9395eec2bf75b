------------------------------- MODULE Pipes -------------------------------
(***************************************************************************)
(* The programs that use pipes, over the library of PipeLib: the pipeline  *)
(* of the shell (user/sh.c) and the pipe tests (user/testpipe.c,           *)
(* user/testpiperace.c, user/testpiperace2.c).                             *)
(*                                                                         *)
(* A process is the list of the calls it still has to make; the one at its *)
(* head stays there until it returns.                                      *)
(***************************************************************************)
EXTENDS PipeLib

CONSTANTS Message,      \* the bytes a writer sends
          Polls         \* rounds of the race tests

VARIABLES
  prog,    \* the program that is run
  code,    \* the calls a process still has to make
  pfd      \* p[2] of a process

pipesVars == <<prog, code, pfd, libVars>>

(* p[0], p[1] as operands of a call.                                        *)
P0 == -1
P1 == -2
FdOf(x, p) == CASE x = P0 -> p[1] [] x = P1 -> p[2] [] OTHER -> x

-----------------------------------------------------------------------------
(* The programs: for each process its calls.  Process 1 is there from the   *)
(* start, the others are created by fork and spawn.                         *)

(* umain of the shell forks a process that runs the command and waits.      *)
Shell == << <<"fork", 2>>, <<"wait", 2>>, <<"exit">> >>

(* runcmd at '|' in the parent, then runit: the left-hand command.          *)
RunLeftHoldingPipe == << <<"pipe", 1>>, <<"fork", 3>>, <<"dup", P1, 1>>, <<"close", P1>>, <<"close", P0>>,
                         <<"spawn", 4>>, <<"wait", 4>>, <<"wait", 3>>, <<"exit">> >>

RunLeft == << <<"pipe", 1>>, <<"fork", 3>>, <<"dup", P1, 1>>, <<"close", P1>>, <<"close", P0>>,
              <<"spawn", 4>>, <<"close_all">>, <<"wait", 4>>, <<"wait", 3>>, <<"exit">> >>

(* runcmd at '|' in the child, then runit: the right-hand command.          *)
RunRight == << <<"dup", P0, 0>>, <<"close", P0>>, <<"close", P1>>,
               <<"spawn", 5>>, <<"close_all">>, <<"wait", 5>>, <<"exit">> >>

(* Commands: one writes its output, the other reads to the end of the input *)
(* or only its first byte.                                                  *)
Writer == << <<"write", 1, Message>>, <<"exit">> >>
Reader == << <<"readn", 0, Len(Message) + 1>>, <<"exit">> >>
Peeker == << <<"readn", 0, 1>>, <<"exit">> >>

(* user/testpipe.c, first and second half.                                  *)
TestPipe == << <<"pipe", 1>>, <<"fork", 2>>, <<"close", P0>>, <<"write", P1, Message>>, <<"close", P1>>, <<"wait", 2>>,
               <<"pipe", 2>>, <<"fork", 3>>, <<"close", P0>>, <<"close", P1>>, <<"wait", 3>>, <<"exit">> >>
PipeReadEof == << <<"close", P1>>, <<"readn", P0, Len(Message) + 1>>, <<"exit">> >>
PipeWriteEof == << <<"close", P0>>, <<"writeall", P1, <<1>>>>, <<"exit">> >>

(* user/testpiperace.c: the child asks while the parent dups.               *)
DupRace == << <<"pipe", 1>>, <<"fork", 2>>, <<"dup", P0, 4>>, <<"while", 2, << <<"dup", P0, 4>> >> >>,
              <<"poll", P0>>, <<"exit">> >>
DupRaceChild == << <<"close", P1>> >> \o [i \in 1 .. Polls |-> <<"poll", P0>>] \o << <<"block">> >>

(* user/testpiperace2.c: the parent asks while the child dups and closes.   *)
CloseRace == << <<"pipe", 1>>, <<"fork", 2>>, <<"while", 2, << <<"poll", P0>> >> >>, <<"poll", P0>>, <<"exit">> >>
CloseRaceChild ==
  << <<"close", P1>> >>
    \o [i \in 1 .. 2 * Polls |-> IF i % 2 = 1 THEN <<"dup", P0, 4>> ELSE <<"close", 4>>]
    \o << <<"exit">> >>

Programs == {"pipeline", "peek", "testpipe", "duprace", "closerace"}

Code(q) ==
  CASE prog \in {"pipeline", "peek"} ->
         <<Shell, RunLeft, RunRight, Writer, IF prog = "peek" THEN Peeker ELSE Reader>>[q]
    [] prog = "testpipe" -> <<TestPipe, PipeReadEof, PipeWriteEof, <<>>, <<>>>>[q]
    [] prog = "duprace" -> <<DupRace, DupRaceChild, <<>>, <<>>, <<>>>>[q]
    [] OTHER -> <<CloseRace, CloseRaceChild, <<>>, <<>>, <<>>>>[q]

PipesInit ==
  /\ LibInit
  /\ prog \in Programs
  /\ code = [p \in Procs |-> IF p = FirstProc THEN Code(p) ELSE <<>>]
  /\ pfd = [p \in Procs |-> <<0, 0>>]

-----------------------------------------------------------------------------
(* One step of process p.                                                   *)

Op(p) == IF code[p] = <<>> THEN "none" ELSE Head(code[p])[1]
Arg(p, n) == Head(code[p])[n]
FdArg(p, n) == FdOf(Arg(p, n), pfd[p])

(* The call at the head goes on, has returned, or is made again.            *)
Follow(p, again) ==
  /\ code' = [code EXCEPT ![p] = IF lib'[p] # User \/ again THEN @ ELSE Tail(@)]
  /\ UNCHANGED <<prog, pfd>>

CloseFd(p) == Op(p) = "close" /\ close(p, FdArg(p, 2)) /\ Follow(p, FALSE)

(* close_all, and exit, which calls it first.                               *)
Closing(p) == Op(p) \in {"close_all", "exit"}
CloseAllStep(p) ==
  /\ Closing(p)
  /\ \E i \in Fds :
       /\ \A j \in 0 .. i - 1 : fd[p][j] = NoFd
       /\ close(p, i)
  /\ Follow(p, TRUE)

AllClosed(p) == Calls(p) /\ \A i \in Fds : fd[p][i] = NoFd

CloseAllDone(p) ==
  /\ Op(p) = "close_all" /\ AllClosed(p)
  /\ UNCHANGED libVars
  /\ Follow(p, FALSE)

ExitProc(p) ==
  /\ Op(p) = "exit" /\ AllClosed(p)
  /\ Destroy(p)
  /\ Follow(p, FALSE)

DupFds(p) == Op(p) = "dup" /\ dup(p, FdArg(p, 2), Arg(p, 3)) /\ Follow(p, FALSE)

PipeCreate(p) ==
  /\ Op(p) = "pipe"
  /\ \E i, j \in Fds :
       /\ pipe_call(p, Arg(p, 2), i, j)
       /\ pfd' = [pfd EXCEPT ![p] = <<i, j>>]
  /\ code' = [code EXCEPT ![p] = Tail(@)]
  /\ UNCHANGED prog

(* A new process starts with its own calls.                                 *)
Begins(p, q) == code' = [code EXCEPT ![p] = Tail(@), ![q] = Code(q)]

ForkChild(p) ==
  /\ Op(p) = "fork"
  /\ fork(p, Arg(p, 2))
  /\ Begins(p, Arg(p, 2))
  /\ pfd' = [pfd EXCEPT ![Arg(p, 2)] = pfd[p]]
  /\ UNCHANGED prog

SpawnChild(p) == Op(p) = "spawn" /\ spawn(p, Arg(p, 2)) /\ Follow(p, FALSE)

(* The program cannot be loaded.                                            *)
SpawnFails(p) ==
  /\ Op(p) = "spawn" /\ Calls(p)
  /\ UNCHANGED libVars
  /\ Follow(p, FALSE)

SpawnEnds(p) ==
  /\ StartChild(p)
  /\ Begins(p, lib[p].to)
  /\ UNCHANGED <<prog, pfd>>

(* wait returns when the environment is free; until then it yields.         *)
Wait(p) ==
  /\ Op(p) = "wait" /\ Calls(p) /\ status[Arg(p, 2)] = "free"
  /\ UNCHANGED libVars
  /\ Follow(p, FALSE)

(* A loop on env_status of the child.                                       *)
While(p) ==
  /\ Op(p) = "while" /\ Calls(p)
  /\ code' = [code EXCEPT ![p] = IF status[Arg(p, 2)] = "runnable" THEN Arg(p, 3) \o @ ELSE Tail(@)]
  /\ UNCHANGED <<prog, pfd, libVars>>

BlockForEver(p) == Op(p) = "block" /\ Block(p) /\ Follow(p, FALSE)

ReadBytes(p) == Op(p) = "readn" /\ readn(p, FdArg(p, 2), Arg(p, 3)) /\ Follow(p, FALSE)
WriteBytes(p) ==
  Op(p) \in {"write", "writeall"} /\ write(p, FdArg(p, 2), Len(Arg(p, 3))) /\ Follow(p, FALSE)

(* The byte that is next when n are left.                                   *)
PutByte(p) == At(p, "put") /\ WritePut(p, Arg(p, 3)[Len(Arg(p, 3)) - lib[p].n + 1]) /\ Follow(p, FALSE)

(* writeall: one write after the other, until one finds the pipe closed.    *)
WriteDone(p) == WriteNext(p) /\ Follow(p, Op(p) = "writeall")

AskClosed(p) == Op(p) = "poll" /\ pipeisclosed(p, FdArg(p, 2)) /\ Follow(p, FALSE)

(* A program that is told that the pipe is closed ends.                     *)
Told(p) ==
  /\ PollAnswer(p)
  /\ code' = [code EXCEPT ![p] = IF _pipeisclosed(p, lib[p].fd) THEN << <<"exit">> >> ELSE Tail(@)]
  /\ UNCHANGED <<prog, pfd>>

GoesOn(p) ==
  /\ \/ DupCloseRest(p) \/ DupData(p) \/ DupFd(p) \/ copy_shared_region(p)
     \/ ReadCheck(p) \/ ReadEmpty(p) \/ ReadTake(p) \/ ReadNext(p)
     \/ WriteCheck(p) \/ WriteFull(p)
  /\ Follow(p, FALSE)

PipesStep(p) ==
  \/ CloseFd(p) \/ CloseAllStep(p) \/ CloseAllDone(p) \/ ExitProc(p) \/ DupFds(p)
  \/ CloseRest(p) /\ Follow(p, Closing(p))
  \/ PipeCreate(p) \/ ForkChild(p) \/ SpawnChild(p) \/ SpawnFails(p) \/ SpawnEnds(p)
  \/ Wait(p) \/ While(p) \/ BlockForEver(p)
  \/ ReadBytes(p) \/ WriteBytes(p) \/ PutByte(p) \/ WriteDone(p)
  \/ AskClosed(p) \/ Told(p) \/ GoesOn(p)

PipesNext == \E p \in Procs : PipesStep(p)

(* The kernel schedules round-robin and preempts, so that every process     *)
(* that is runnable runs again and again.                                   *)
PipesFairness == \A p \in Procs : WF_pipesVars(PipesStep(p))

PipesSpec == PipesInit /\ [][PipesNext]_pipesVars /\ PipesFairness

-----------------------------------------------------------------------------
(* user/testpipe.c expects "pipe read closed properly": a reader that is    *)
(* told the input has ended has read everything that was written.           *)
EofMeansDrained ==
  \A p \in Procs :
    At(p, "rempty") /\ _pipeisclosed(p, lib[p].fd) => got[PipeOf(p)] = sent[PipeOf(p)]
=============================================================================

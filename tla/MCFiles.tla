------------------------------- MODULE MCFiles -------------------------------
(***************************************************************************)
(* The parts of the system around files, each checked by itself in one     *)
(* run: a behaviour is a behaviour of one of them, named by part.          *)
(* FileServer and Pipes, which this module extends, and FileSys have       *)
(* variables of their own; the other parts use st.                         *)
(***************************************************************************)
EXTENDS FileServer, Pipes

VARIABLES part, st,
          cache, disk, writes, run, served   \* of FileSys

SmallMessage == <<1, 2, 3>>

(* The disk starts empty, or with a file that fills its direct blocks.      *)
Disks == {<<>>, <<[name |-> "a", size |-> 1]>>}
FSys == INSTANCE FileSys WITH Images <- Disks, Names <- {"a", "b", "c"}, NBlocks <- 8,
          NDIRECT <- 1, NINDIRECT <- 2, BLKFILES <- 2, MaxRequests <- 5

(* Programs of one and of two segments, aligned and not, with .bss.         *)
Segment(v, m, f, o) == [va |-> v, memsz |-> m, filesz |-> f, off |-> o]
SmallPrograms ==
  {[bytes |-> [i \in 1 .. 14 |-> i], segs |-> segs, entry |-> 8, ok |-> ok] :
     segs \in {<<Segment(8, 4, 4, 4)>>,
               <<Segment(9, 5, 5, 1), Segment(16, 12, 3, 8)>>,
               <<Segment(8, 8, 8, 0), Segment(18, 9, 4, 10)>>},
     ok \in BOOLEAN}
Spn == INSTANCE Spawn WITH sp <- st, Strings <- {<<>>, <<1>>, <<2, 1>>, <<3, 2, 1>>},
         MaxArgs <- 3, Programs <- SmallPrograms, WORD <- 4, USER_STACK_SIZE <- 28,
         STACK_BASE <- 100, PAGE_SIZE <- 4

Shl == INSTANCE Shell WITH sh <- st, Letters <- {"a", "b"}, MaxLine <- 5, MAXARGS <- 3,
         Args <- {<<"-">>, <<"-", "-">>, <<"-", "i">>, <<"-", "x", "d">>, <<"f">>, <<>>},
         MaxArgc <- 5, MAXFD <- 5

fileVars == <<cache, disk, writes, run, served>>
filesVars == <<part, st, fs, pipesVars, fileVars>>

PipesOff == PipesInit /\ prog = "peek"
FileSysOff == cache = 0 /\ disk = 0 /\ writes = 0 /\ run = 0 /\ served = 0

FilesInit ==
  /\ Init
  /\ \/ part = "pipes" /\ PipesInit /\ FileSysOff /\ st = 0
     \/ part = "filesys" /\ FSys!Init /\ PipesOff /\ st = 0
     \/ part = "server" /\ PipesOff /\ FileSysOff /\ st = 0
     \/ part = "spawn" /\ Spn!Init /\ PipesOff /\ FileSysOff
     \/ part = "shell" /\ Shl!Init /\ PipesOff /\ FileSysOff

PipeStep(p) == part = "pipes" /\ PipesStep(p) /\ UNCHANGED <<part, st, fs, fileVars>>

FilesNext ==
  \/ \E p \in Procs : PipeStep(p)
  \/ part = "filesys" /\ FSys!Next /\ UNCHANGED <<part, st, fs, pipesVars>>
  \/ part = "server" /\ Next /\ UNCHANGED <<part, st, pipesVars, fileVars>>

(* The fairness of Pipes.                                                   *)
FilesSpec ==
  FilesInit /\ [][FilesNext]_filesVars /\ \A p \in Procs : WF_filesVars(PipeStep(p))

-----------------------------------------------------------------------------
(* Pipelines of the shell and testpipe come to an end (runcmd, devpipe_read *)
(* and devpipe_write).                                                      *)
PipelineEnds ==
  <>(part = "pipes" /\ prog \in {"pipeline", "peek", "testpipe"}
       => \A p \in Procs : status[p] = "free")

(* Every block of the disk is free or used once (alloc_block, file_truncate *)
(* and the others in fs/fs.c).                                              *)
BlocksExact == part = "filesys" => FSys!BlocksExact

(* No two files on the disk have a direct block in common, at any moment a  *)
(* power failure may strike (flush_block, alloc_block).                     *)
DiskDirectUnshared == part = "filesys" => FSys!DiskDirectUnshared

(* A file that was flushed is on the disk as it was (file_flush).           *)
FlushMakesDurable == part = "filesys" => FSys!FlushMakesDurable

(* A spawned child finds its arguments and its program; a failed spawn      *)
(* leaves nothing behind (lib/spawn.c).                                     *)
SpawnRight == part = "spawn" => Spn!SpawnRight

(* Command lines are run as they are written, options read as they are      *)
(* given (user/sh.c, lib/args.c).                                           *)
CommandsRunAsWritten == part = "shell" => Shl!CommandsRunAsWritten
=============================================================================

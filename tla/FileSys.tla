------------------------------ MODULE FileSys -------------------------------
(* The file system of fs/fs.c over the block cache of fs/bc.c: the bitmap,   *)
(* the root directory, files with direct and indirect blocks, and the order  *)
(* in which changed blocks reach the disk.  The machine may stop between any *)
(* two block writes.  Sizes and offsets are counted in blocks; block 1 is    *)
(* the superblock, block 2 the bitmap.                                       *)
EXTENDS Integers, Sequences, FiniteSets, FiniteSetsExt, SequencesExt

CONSTANTS
  Names,
  NBlocks,      \* super->s_nblocks
  Images,       \* files on the disk when the server starts: [name, size]
  NDIRECT, NINDIRECT,
  BLKFILES,     \* files in a block of a directory
  MaxRequests   \* bound on the requests served

Blocks == 1..(NBlocks - 1)
MaxSize == NDIRECT + NINDIRECT
Root == <<1, 1>>        \* the File in the superblock; others are <<block, slot>>

NoFile == [name |-> "", size |-> 0, direct |-> [i \in 1..NDIRECT |-> 0], ind |-> 0]

\* Block contents.  A block of zeros is also an empty part of a directory.
Zeros == [kind |-> "zeros"]
Data(n) == [kind |-> "data", of |-> n]
Dir(fs) == [kind |-> "dir", files |-> fs]
Ind(ps) == [kind |-> "ind", ptrs |-> ps]
EmptyDir == Dir([j \in 1..BLKFILES |-> NoFile])

VARIABLES
  cache,        \* contents of every block as the server sees it
  disk,         \* contents on the disk
  writes,       \* block writes of the request in progress, not yet done
  run,          \* "up", "down" after a power failure, "garbage"
  served        \* number of requests so far
vars == <<cache, disk, writes, run, served>>

-----------------------------------------------------------------------------
(* A request works on a record s: s.c the cache, s.w the block writes it     *)
(* makes, s.res the block found (0: none), s.err an error return, s.bad: the *)
(* contents of a block were taken for something they are not.                *)
GetFile(c, loc) == IF loc = Root THEN c[1].root ELSE c[loc[1]].files[loc[2]]
PutFile(s, loc, f) ==
  IF loc = Root THEN [s EXCEPT !.c[1].root = f]
  ELSE [s EXCEPT !.c[loc[1]].files[loc[2]] = f]

\* flush_block: nothing to do unless the page is dirty.
Latest(s, b) ==
  LET W == {i \in DOMAIN s.w : s.w[i][1] = b}
  IN IF W = {} THEN disk[b] ELSE s.w[Max(W)][2]
FlushBlock(s, b) ==
  IF s.c[b] = Latest(s, b) THEN s ELSE [s EXCEPT !.w = Append(@, <<b, s.c[b]>>)]

FreeBlock(s, b) == [s EXCEPT !.c[2].free = @ \cup {b}]

\* alloc_block: the lowest free block; the bitmap is written at once.
AllocBlockUnflushed(s) ==
  IF s.c[2].free = {} THEN [s EXCEPT !.res = 0]
  ELSE [s EXCEPT !.c[2].free = @ \ {Min(s.c[2].free)}, !.res = Min(s.c[2].free)]
AllocBlock(s) ==
  IF s.c[2].free = {} THEN [s EXCEPT !.res = 0]
  ELSE LET b == Min(s.c[2].free)
       IN [FlushBlock([s EXCEPT !.c[2].free = @ \ {b}], 2) EXCEPT !.res = b]

\* The slot of block i of a file: in the File, or in its indirect block.
Slot(c, loc, i) ==
  LET f == GetFile(c, loc)
  IN IF i <= NDIRECT THEN f.direct[i]
     ELSE IF f.ind = 0 \/ c[f.ind].kind # "ind" THEN 0 ELSE c[f.ind].ptrs[i - NDIRECT]
SetSlot(s, loc, i, b) ==
  LET f == GetFile(s.c, loc)
  IN IF i <= NDIRECT THEN PutFile(s, loc, [f EXCEPT !.direct[i] = b])
     ELSE [s EXCEPT !.c[f.ind].ptrs[i - NDIRECT] = b]

\* file_block_walk with alloc: the indirect block exists afterwards, cleared.
Walk(s, loc, i) ==
  IF i <= NDIRECT \/ GetFile(s.c, loc).ind # 0 THEN s
  ELSE LET a == AllocBlock(s)
       IN IF a.res = 0 THEN [a EXCEPT !.err = TRUE]
          ELSE [PutFile(a, loc, [GetFile(a.c, loc) EXCEPT !.ind = a.res])
                  EXCEPT !.c[a.res] = Ind([k \in 1..NINDIRECT |-> 0])]

\* file_get_block: s.res is the block; a new one keeps what was in it.
Attach(a, loc, i) ==
  IF a.res = 0 THEN [a EXCEPT !.err = TRUE] ELSE SetSlot(a, loc, i, a.res)
BlockAt(w, loc, i) ==
  IF i > MaxSize \/ w.err THEN [w EXCEPT !.err = TRUE]
  ELSE IF Slot(w.c, loc, i) # 0 THEN [w EXCEPT !.res = Slot(w.c, loc, i)]
  ELSE Attach(AllocBlock(w), loc, i)
FileGetBlock(s, loc, i) == BlockAt(Walk(s, loc, i), loc, i)

\* file_free_block for the blocks after the first n, file_truncate_blocks.
RECURSIVE FreeFrom(_, _, _)
FreeFrom(s, loc, i) ==
  LET b == Slot(s.c, loc, i)
  IN IF i > GetFile(s.c, loc).size THEN s
     ELSE FreeFrom(IF b = 0 THEN s ELSE SetSlot(FreeBlock(s, b), loc, i, 0), loc, i + 1)
TruncateLosingIndirect(s, loc, n) ==
  LET t == FreeFrom(s, loc, n + 1)
  IN IF n > NDIRECT THEN t ELSE PutFile(t, loc, [GetFile(t.c, loc) EXCEPT !.ind = 0])
Truncate(s, loc, n) ==
  LET t == FreeFrom(s, loc, n + 1)
      f == GetFile(t.c, loc)
  IN IF n <= NDIRECT /\ f.ind # 0
     THEN PutFile(FreeBlock(t, f.ind), loc, [f EXCEPT !.ind = 0]) ELSE t

FileSetSize(s, loc, n) ==
  LET t == IF GetFile(s.c, loc).size > n THEN Truncate(s, loc, n) ELSE s
  IN FlushBlock(PutFile(t, loc, [GetFile(t.c, loc) EXCEPT !.size = n]), loc[1])

\* file_flush: the blocks of the file, its indirect block, the File itself.
RECURSIVE FlushFrom(_, _, _)
FlushFrom(s, loc, i) ==
  LET b == Slot(s.c, loc, i)
  IN IF i > GetFile(s.c, loc).size THEN s
     ELSE FlushFrom(IF b = 0 THEN s ELSE FlushBlock(s, b), loc, i + 1)
FileFlushDataOnly(s, loc) == FlushBlock(FlushFrom(s, loc, 1), loc[1])
FileFlush(s, loc) ==
  LET t == FlushFrom(s, loc, 1)
      ind == GetFile(s.c, loc).ind
  IN FlushBlock(IF ind = 0 THEN t ELSE FlushBlock(t, ind), loc[1])

\* Block i of the root directory as an array of Files (struct File *f = blk).
AsDir(s) ==
  IF s.err \/ s.c[s.res].kind = "dir" THEN s
  ELSE IF s.c[s.res] = Zeros THEN [s EXCEPT !.c[s.res] = EmptyDir]
  ELSE [s EXCEPT !.bad = TRUE]
DirBlock(s, i) == AsDir(FileGetBlock(s, Root, i))

\* The loops of dir_lookup and dir_alloc_file: the first slot called n from
\* block i of the root on; s.loc is <<>> when there is none.
RECURSIVE DirSearch(_, _, _)
DirSearchBlock(d, n, i) ==
  LET J == {j \in 1..BLKFILES : d.c[d.res].files[j].name = n}
  IN IF d.err \/ d.bad THEN d
     ELSE IF J # {} THEN [d EXCEPT !.loc = <<d.res, Min(J)>>]
     ELSE DirSearch(d, n, i + 1)
DirSearch(s, n, i) ==
  IF i > GetFile(s.c, Root).size THEN s ELSE DirSearchBlock(DirBlock(s, i), n, i)

\* dir_alloc_file: a free slot, or the first slot of one block more.
FirstSlot(g) == IF g.err \/ g.bad THEN g ELSE [g EXCEPT !.loc = <<g.res, 1>>]
DirGrow(d) ==
  LET r == GetFile(d.c, Root)
  IN IF d.err \/ d.bad \/ d.loc # <<>> THEN d
     ELSE FirstSlot(DirBlock(PutFile(d, Root, [r EXCEPT !.size = @ + 1]), r.size + 1))
DirAllocFile(s) == DirGrow(DirSearch(s, "", 1))

\* walk_path of a path with one component: there is only the root directory.
WalkPath(s, n) == DirSearch(s, n, 1)

\* file_create in the root directory.
NameFile(a, n) ==
  IF a.err \/ a.bad THEN a
  ELSE FileFlush(PutFile(a, a.loc, [GetFile(a.c, a.loc) EXCEPT !.name = n]), Root)
CreateUnlessFound(w, n) ==
  IF w.err \/ w.bad \/ w.loc # <<>> THEN w ELSE NameFile(DirAllocFile(w), n)
FileCreate(s, n) == CreateUnlessFound(WalkPath(s, n), n)

FileRead(s, loc, i) == FileGetBlock(s, loc, i)

CopyTo(g, name) == IF g.err THEN g ELSE [g EXCEPT !.c[g.res] = Data(name)]
FileWrite(s, loc, i) ==
  LET f == GetFile(s.c, loc)
  IN CopyTo(FileGetBlock(IF i > f.size THEN FileSetSize(s, loc, i) ELSE s, loc, i), f.name)

RECURSIVE SyncFrom(_, _)
SyncFrom(s, b) == IF b >= NBlocks THEN s ELSE SyncFrom(FlushBlock(s, b), b + 1)
FsSync(s) == SyncFrom(s, 1)

-----------------------------------------------------------------------------
Start == [c |-> cache, w |-> <<>>, res |-> 0, loc |-> <<>>, err |-> FALSE, bad |-> FALSE]
Request(s) ==
  /\ run = "up" /\ writes = <<>> /\ served < MaxRequests
  /\ served' = served + 1
  /\ cache' = s.c
  /\ writes' = s.w
  /\ run' = IF s.bad THEN "garbage" ELSE "up"
  /\ UNCHANGED disk

Files(c) ==
  {loc \in Blocks \X (1..BLKFILES) :
     /\ \E i \in 1..c[1].root.size : Slot(c, Root, i) = loc[1]
     /\ c[loc[1]].kind = "dir"
     /\ c[loc[1]].files[loc[2]].name # ""}

Create(n)       == Request(FileCreate(Start, n))
SetSize(loc, n) == Request(FileSetSize(Start, loc, n))
Read(loc, i)    == i <= GetFile(cache, loc).size /\ Request(FileRead(Start, loc, i))
Write(loc, i)   == Request(FileWrite(Start, loc, i))
Flush(loc)      == Request(FileFlush(Start, loc))
Sync            == Request(FsSync(Start))

\* ide_write of one block.
WriteBlock ==
  /\ run # "down" /\ writes # <<>>
  /\ disk' = [disk EXCEPT ![Head(writes)[1]] = Head(writes)[2]]
  /\ writes' = Tail(writes)
  /\ UNCHANGED <<cache, run, served>>

\* The machine stops; fs_init finds what is on the disk.
PowerFailure ==
  /\ run # "down"
  /\ run' = "down"
  /\ cache' = disk
  /\ writes' = <<>>
  /\ UNCHANGED <<disk, served>>

-----------------------------------------------------------------------------
(* The image fs/fsformat.c writes: d.next is diskpos, d.c the blocks.  A     *)
(* file lies in consecutive blocks with its indirect block behind them,      *)
(* which is there as soon as the direct ones are used up; the directory is   *)
(* written last, and the bitmap marks all that was allocated.                *)
FinishFile(d, name, start, n) ==
  LET f == [NoFile EXCEPT !.name = name, !.size = n,
                          !.direct = [i \in 1..NDIRECT |-> IF i <= n THEN start + i - 1 ELSE 0]]
      ptrs == [k \in 1..NINDIRECT |-> IF NDIRECT + k <= n THEN start + NDIRECT + k - 1 ELSE 0]
  IN IF n < NDIRECT THEN [d EXCEPT !.file = f]
     ELSE [d EXCEPT !.file = [f EXCEPT !.ind = d.next],
                    !.c[d.next] = Ind(ptrs), !.next = @ + 1]

WriteFile(d, file) ==
  LET stored == [d EXCEPT !.next = @ + file.size,
                          !.c = [b \in Blocks |-> IF b \in d.next..(d.next + file.size - 1)
                                                   THEN Data(file.name) ELSE @[b]]]
      done == FinishFile(stored, file.name, d.next, file.size)
  IN [done EXCEPT !.ents = Append(@, done.file)]

FinishDir(d) ==
  LET n == (Len(d.ents) + BLKFILES - 1) \div BLKFILES
      Ent(i) == IF i <= Len(d.ents) THEN d.ents[i] ELSE NoFile
      stored == [d EXCEPT !.next = @ + n,
                          !.c = [b \in Blocks |->
                                   IF b \in d.next..(d.next + n - 1)
                                   THEN Dir([j \in 1..BLKFILES |-> Ent((b - d.next) * BLKFILES + j)])
                                   ELSE @[b]]]
      done == FinishFile(stored, "/", d.next, n)
  IN [done EXCEPT !.c[1] = [kind |-> "super", root |-> done.file]]

FsFormat(files) ==
  LET empty == [next |-> 3, c |-> [b \in Blocks |-> Zeros], file |-> NoFile, ents |-> <<>>]
      d == FinishDir(FoldLeft(WriteFile, empty, files))
  IN [d.c EXCEPT ![2] = [kind |-> "bitmap", free |-> d.next..(NBlocks - 1)]]

Init ==
  /\ \E files \in Images : disk = FsFormat(files)
  /\ cache = disk
  /\ writes = <<>>
  /\ run = "up"
  /\ served = 0

Next ==
  \/ \E n \in Names : Create(n)
  \/ \E loc \in Files(cache) :
       \/ \E n \in 0..MaxSize : SetSize(loc, n)
       \/ \E i \in 1..MaxSize : Read(loc, i) \/ Write(loc, i)
       \/ Flush(loc)
  \/ Sync
  \/ WriteBlock
  \/ PowerFailure

Spec == Init /\ [][Next]_vars

-----------------------------------------------------------------------------
\* The pointers of a file: <<kind, index, block>>, null ones left out.
Uses(c, loc) ==
  LET f == GetFile(c, loc)
      ptrs == IF f.ind = 0 \/ c[f.ind].kind # "ind" THEN {} ELSE (NDIRECT + 1)..MaxSize
  IN {u \in {<<"direct", i, f.direct[i]>> : i \in 1..NDIRECT}
              \cup {<<"ind", 0, f.ind>>}
              \cup {<<"ptr", i, c[f.ind].ptrs[i - NDIRECT]>> : i \in ptrs} : u[3] # 0}
Pointers(c) == UNION {{<<loc, u>> : u \in Uses(c, loc)} : loc \in Files(c) \cup {Root}}
Unshared(c, P) ==
  /\ \A p, q \in P : p[2][3] = q[2][3] => p = q
  /\ \A p \in P : p[2][3] \notin c[2].free \cup {1, 2}

\* While the server runs, no block belongs to two files or is free while a
\* file uses it, and none is lost: file_get_block, file_truncate_blocks and the
\* error paths of both keep bitmap and pointers together.
BlocksExact ==
  run = "up" =>
    /\ Unshared(cache, Pointers(cache))
    /\ cache[2].free = (3..(NBlocks - 1)) \ {p[2][3] : p \in Pointers(cache)}

\* Whenever the machine stops, the direct and indirect blocks of the files on
\* the disk are used once and marked as used: alloc_block writes the bitmap
\* before any pointer can be written, and file_set_size writes the cleared
\* pointers before the bitmap can be written again.
DiskDirectUnshared == Unshared(disk, {p \in Pointers(disk) : p[2][1] # "ptr"})

\* The same of every pointer within the size of its file.
InSize(c, p) == p[2][1] = "ind" \/ p[2][2] <= GetFile(c, p[1]).size
DiskUnshared == Unshared(disk, {p \in Pointers(disk) : InSize(disk, p)})

\* What a client finds in a file.
View(c, loc) ==
  LET f == GetFile(c, loc)
  IN <<f.name, [i \in 1..f.size |-> IF Slot(c, loc, i) = 0 THEN Zeros ELSE c[Slot(c, loc, i)]]>>
\* file_flush makes a file durable: once its writes are done, a power failure
\* loses neither the file's entry in the directory nor any of its contents.
After(s) == [b \in Blocks |-> Latest(s, b)]
FlushMakesDurable ==
  run = "up" /\ writes = <<>> =>
    \A loc \in Files(cache) :
      LET d == After(FileFlush(Start, loc))
      IN loc \in Files(d) /\ View(d, loc) = View(cache, loc)

\* No block is ever read as a directory that was not made one.
DirectoriesClean == run # "garbage"

\* Looking for a file either finds it or finds that it is not there.
LookupsAnswered ==
  run = "up" => \A n \in Names : ~WalkPath(Start, n).err
=============================================================================

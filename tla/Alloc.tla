-------------------------------- MODULE Alloc --------------------------------
(***************************************************************************)
(* The allocator the kernel offers to test programs that run in kernel     *)
(* space (kern/alloc.c): a circular doubly linked list of free blocks in   *)
(* the order of their addresses, with a header that always stays in it,    *)
(* under the kernel's spin lock (kern/spinlock.c).                         *)
(*                                                                         *)
(* A block is named by the address of its header, in units of a header.    *)
(* The links of an allocated block are stale and test_free never reads     *)
(* them, so only the blocks in the list have them.  Every round of a loop  *)
(* is a step of its thread, for check_list has turned interrupts on again: *)
(* only the lock keeps the other threads out.                              *)
(***************************************************************************)
EXTENDS Integers

CONSTANTS Threads,
          SpaceUnits,   \* headers that fit into space
          Requests      \* sizes of blocks, in units, the threads ask for

ASSUME HeapAssumption ==
  SpaceUnits \in Nat /\ SpaceUnits > 1 /\ Requests \subseteq Nat \ {0}

VARIABLES size,         \* of every block
          next, prev,   \* of the blocks in the list
          freep, locked,
          pc, arg, cur  \* of every thread: where it is, nunits or bp, p
heap == <<size, next, prev>>
heapVars == <<heap, freep, locked, pc, arg, cur>>

base == 0
NULL == 1
space == 2

HeapInit ==
  /\ size = [a \in {base} |-> 0]
  /\ next = [a \in {base} |-> space] /\ prev = [a \in {base} |-> space]
  /\ freep = NULL /\ locked = FALSE
  /\ pc = [t \in Threads |-> "idle"]
  /\ arg = [t \in Threads |-> 0] /\ cur = [t \in Threads |-> NULL]

With(f, a, v) == [x \in DOMAIN f \cup {a} |-> IF x = a THEN v ELSE f[x]]
Without(f, a) == [x \in DOMAIN f \ {a} |-> f[x]]

Goto(t, where) == pc' = [pc EXCEPT ![t] = where]

-----------------------------------------------------------------------------
(* The spin lock.                                                           *)

spin_lock(t, where, a) ==
  /\ pc[t] = "idle" /\ ~locked
  /\ locked' = TRUE
  /\ Goto(t, where) /\ arg' = [arg EXCEPT ![t] = a]

(* The call ends with it, and with the call its variables.                  *)
spin_unlock(t) ==
  /\ locked' = FALSE
  /\ Goto(t, "idle") /\ arg' = [arg EXCEPT ![t] = 0] /\ cur' = [cur EXCEPT ![t] = NULL]

-----------------------------------------------------------------------------
(* test_alloc.                                                              *)

AllocLock(t) ==
  /\ \E n \in Requests : spin_lock(t, "alloc", n)
  /\ UNCHANGED <<heap, freep, cur>>

(* The first call makes one block of the whole space; the rounding down     *)
(* leaves out its last unit.                                                *)
FirstUse ==
  /\ freep' = base
  /\ size' = With(size, space, SpaceUnits - 1)
  /\ next' = With(next, space, base) /\ prev' = With(prev, space, base)

AllocStart(t) ==
  /\ pc[t] = "alloc"
  /\ \/ freep = NULL /\ FirstUse
     \/ freep # NULL /\ UNCHANGED <<heap, freep>>
  /\ Goto(t, "fit") /\ cur' = [cur EXCEPT ![t] = next'[freep']]
  /\ UNCHANGED <<locked, arg>>

TooSmall(t) == pc[t] = "fit" /\ size[cur[t]] < arg[t]

AllocStep(t) ==
  /\ TooSmall(t) /\ cur[t] # freep
  /\ cur' = [cur EXCEPT ![t] = next[cur[t]]]
  /\ UNCHANGED <<heap, freep, locked, pc, arg>>

(* Wrapped around the list: there is no room.                               *)
AllocFails(t) ==
  /\ TooSmall(t) /\ cur[t] = freep
  /\ spin_unlock(t) /\ UNCHANGED <<heap, freep>>

Unlink(p) ==
  /\ next' = Without(With(next, prev[p], next[p]), p)
  /\ prev' = Without(With(prev, next[p], prev[p]), p)
  /\ UNCHANGED size

(* The tail end of a larger block is taken.                                 *)
Split(p, n) ==
  /\ size' = With(With(size, p, size[p] - n), p + size[p] - n, n)
  /\ UNCHANGED <<next, prev>>

AllocTake(t) ==
  LET p == cur[t]
      n == arg[t]
  IN /\ pc[t] = "fit" /\ size[p] >= n
     /\ freep' = prev[p]
     /\ \/ size[p] = n /\ Unlink(p)
        \/ size[p] # n /\ Split(p, n)
     /\ spin_unlock(t)

-----------------------------------------------------------------------------
(* test_free of a block that is allocated.                                  *)

List == DOMAIN next
Held == DOMAIN size \ List

FreeLock(t) ==
  /\ \E b \in Held : spin_lock(t, "place", b)
  /\ cur' = [cur EXCEPT ![t] = freep]
  /\ UNCHANGED <<heap, freep>>

IsPlace(p, n, b) == (b > p /\ b < n) \/ (p >= n /\ (b > p \/ b < n))

FreeStep(t) ==
  /\ pc[t] = "place" /\ ~IsPlace(cur[t], next[cur[t]], arg[t])
  /\ cur' = [cur EXCEPT ![t] = next[cur[t]]]
  /\ UNCHANGED <<heap, freep, locked, pc, arg>>

(* b goes back between p and n, joined to the blocks it touches.            *)
JoinBoth(p, b, n) ==
  /\ size' = Without(Without(With(size, p, size[p] + size[b] + size[n]), b), n)
  /\ prev' = Without(With(prev, next[n], p), n)
  /\ next' = Without(With(next, p, next[n]), n)

JoinUpper(p, b, n) ==
  /\ size' = Without(With(size, b, size[b] + size[n]), n)
  /\ prev' = Without(With(With(prev, b, prev[n]), next[n], b), n)
  /\ next' = Without(With(With(next, b, next[n]), p, b), n)

JoinLower(p, b) ==
  /\ size' = Without(With(size, p, size[p] + size[b]), b)
  /\ UNCHANGED <<next, prev>>

Insert(p, b, n) ==
  /\ prev' = With(With(prev, b, p), n, b)
  /\ next' = With(With(next, b, n), p, b)
  /\ UNCHANGED size

LinkBackUpperOnly(p, b, n) ==
  LET upper == b + size[b] = n
  IN \/ upper /\ JoinUpper(p, b, n)
     \/ ~upper /\ Insert(p, b, n)

LinkBack(p, b, n) ==
  LET upper == b + size[b] = n
      lower == p + size[p] = b
  IN \/ upper /\ lower /\ JoinBoth(p, b, n)
     \/ upper /\ ~lower /\ JoinUpper(p, b, n)
     \/ ~upper /\ lower /\ JoinLower(p, b)
     \/ ~upper /\ ~lower /\ Insert(p, b, n)

FreePut(t) ==
  LET p == cur[t]
      b == arg[t]
  IN /\ pc[t] = "place" /\ IsPlace(p, next[p], b)
     /\ LinkBack(p, b, next[p])
     /\ freep' = p
     /\ spin_unlock(t)

HeapNext ==
  \E t \in Threads :
    \/ AllocLock(t)
    \/ AllocStart(t)
    \/ AllocStep(t)
    \/ AllocFails(t)
    \/ AllocTake(t)
    \/ FreeLock(t)
    \/ FreeStep(t)
    \/ FreePut(t)

HeapSpec == HeapInit /\ [][HeapNext]_heapVars

-----------------------------------------------------------------------------
Arena == space .. space + SpaceUnits - 2
AllBlocks == DOMAIN size \ {base}
Free == List \ {base}
Units(a) == a .. a + size[a] - 1

(* b follows a in the list: it is the free block with the next address, or  *)
(* the header when there is none.                                           *)
Follows(a, b) ==
  /\ b = base \/ a < b
  /\ \A c \in Free : c <= a \/ (b # base /\ b <= c)

(* Once the allocator is in use, free and allocated blocks together cover   *)
(* the arena without overlapping, no two free blocks touch, the list holds  *)
(* exactly the free blocks in the order of their addresses with links that  *)
(* agree both ways (check_list's panic is never reached), and a caller is   *)
(* told that there is no room only when no free block is large enough       *)
(* (test_alloc, test_free), whatever the threads do between each other's    *)
(* steps.                                                                   *)
HeapExact ==
  freep # NULL =>
    /\ UNION {Units(a) : a \in AllBlocks} = Arena
    /\ \A a, b \in AllBlocks : a # b => Units(a) \cap Units(b) = {}
    /\ \A a, b \in Free : a + size[a] # b
    /\ freep \in List
    /\ \A a \in List : Follows(a, next[a]) /\ prev[next[a]] = a
    /\ \A t \in Threads : TooSmall(t) /\ cur[t] = freep => \A a \in Free : size[a] < arg[t]

(* The inductive invariant.  The blocks tile the arena; the list is sorted; *)
(* what a search has passed was too small; only the thread that has the     *)
(* lock is inside.                                                          *)
HeapTypeOK ==
  /\ size \in [DOMAIN size -> Nat] /\ DOMAIN size \subseteq Nat
  /\ next \in [List -> Nat] /\ prev \in [List -> Nat]
  /\ freep \in Nat /\ locked \in BOOLEAN
  /\ pc \in [Threads -> {"idle", "alloc", "fit", "place"}]
  /\ arg \in [Threads -> Nat] /\ cur \in [Threads -> Nat]

LockInv ==
  /\ \A t \in Threads : pc[t] # "idle" => locked
  /\ \A t, u \in Threads : pc[t] # "idle" /\ pc[u] # "idle" => t = u

Tiled ==
  /\ base \in DOMAIN size /\ size[base] = 0
  /\ \A a \in AllBlocks : size[a] > 0 /\ space <= a /\ a + size[a] <= space + SpaceUnits - 1
  /\ \A a, b \in AllBlocks : a < b => a + size[a] <= b
  /\ \A x \in Arena : \E a \in AllBlocks : a <= x /\ x < a + size[a]

Chained ==
  /\ base \in List /\ freep \in List
  /\ \A a \in List : /\ next[a] \in List /\ prev[a] \in List
                      /\ prev[next[a]] = a /\ next[prev[a]] = a /\ Follows(a, next[a])

Apart ==
  /\ List \subseteq DOMAIN size
  /\ \A a, b \in Free : a + size[a] # b

(* A search that began behind f and is now at p has passed a.               *)
Passed(f, a, p) == IF f < p THEN f < a /\ a < p ELSE f < a \/ a < p

SearchInv(t) ==
  /\ pc[t] = "alloc" => arg[t] > 0
  /\ pc[t] = "fit" =>
       /\ arg[t] > 0 /\ cur[t] \in List /\ freep # NULL
       /\ \A a \in List : Passed(freep, a, cur[t]) => size[a] < arg[t]
  /\ pc[t] = "place" => cur[t] \in List /\ arg[t] \in Held /\ freep # NULL

HeapInv ==
  /\ HeapTypeOK /\ LockInv
  /\ \A t \in Threads : SearchInv(t)
  /\ IF freep = NULL
       THEN /\ size = [a \in {base} |-> 0]
            /\ next = [a \in {base} |-> space] /\ prev = [a \in {base} |-> space]
       ELSE Tiled /\ Chained /\ Apart
=============================================================================

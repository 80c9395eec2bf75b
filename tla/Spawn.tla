-------------------------------- MODULE Spawn --------------------------------
(***************************************************************************)
(* Starting a program from a file (lib/spawn.c): spawn makes a child       *)
(* environment, builds its stack with the arguments in pages at UTEMP,     *)
(* loads the segments of the file the same way, and lets it run.           *)
(*                                                                         *)
(* sp holds what a call is given: the arguments, the program file, and the *)
(* call of the kernel or of the file server that fails, if one does.  The  *)
(* call itself is an operator over a state [ret, child, open, utemp]: the  *)
(* child's memory, stack and stack pointer, whether the file is still open *)
(* and what is mapped at UTEMP.  Memory is a function from addresses to    *)
(* bytes; a word fills its first byte with its value and the others with   *)
(* REST.                                                                   *)
(***************************************************************************)
EXTENDS Integers, Sequences, FiniteSets, SequencesExt

CONSTANTS Strings,      \* argument strings, sequences of positive numbers
          MaxArgs,
          Programs,     \* program files: [bytes, segs, ok]
          WORD,         \* sizeof(uintptr_t)
          USER_STACK_SIZE, STACK_BASE, PAGE_SIZE

VARIABLE sp

REST == -1
CHILD == 1
E_NO_MEM == -4
E_FAIL == -2

(* The calls that can fail, those of map_segment by the segment's number.   *)
Sites(n) ==
  {<<w, 0>> : w \in {"none", "open", "exofork", "stack_alloc", "stack_map", "shared"}}
    \cup {<<w, i>> : w \in {"bss", "file", "seek", "read", "map", "unmap"}, i \in 1 .. n}

Init ==
  \E argv \in UNION {[1 .. n -> Strings] : n \in 1 .. MaxArgs}, prog \in Programs :
    \E fail \in Sites(Len(prog.segs)) :
      sp = [argv |-> argv, prog |-> prog, fail |-> fail]

Fails(w, i) == sp.fail = <<w, i>>

-----------------------------------------------------------------------------
(* init_stack.  Addresses count from UTEMP; UTEMP2USTACK gives the child's. *)
UTEMP2USTACK(a) == a + STACK_BASE
ROUNDDOWN(a, n) == a - (a % n)
ROUNDUP(a, n) == ROUNDDOWN(a + n - 1, n)

PutWord(m, a, v) ==
  [x \in DOMAIN m |-> IF x = a THEN v ELSE IF x \in a + 1 .. a + WORD - 1 THEN REST ELSE m[x]]
PutString(m, a, s) ==
  [x \in DOMAIN m |-> IF x \in a .. a + Len(s) - 1 THEN s[x - a + 1]
                      ELSE IF x = a + Len(s) THEN 0 ELSE m[x]]

SumLengths(argv) == LET L(n, s) == n + Len(s) + 1 IN FoldLeft(L, 0, argv)

StoreArgs(m, argv, argv_store, string_store) ==
  LET Store(st, i) ==
        [mem |-> PutString(PutWord(st.mem, argv_store + WORD * (i - 1), UTEMP2USTACK(st.at)),
                           st.at, argv[i]),
         at |-> st.at + Len(argv[i]) + 1]
  IN FoldLeft(Store, [mem |-> m, at |-> string_store], [i \in DOMAIN argv |-> i]).mem

ArgvStore(string_store, argc) == ROUNDDOWN(string_store, WORD) - WORD * (argc + 1)

Fresh(n) == [a \in 0 .. n - 1 |-> 0]

(* A failure to map the stack into the child is not reported.               *)
init_stack(s) ==
  LET argc == Len(sp.argv)
      string_store == USER_STACK_SIZE - SumLengths(sp.argv)
      argv_store == ArgvStore(string_store, argc)
      args == StoreArgs(Fresh(USER_STACK_SIZE), sp.argv, argv_store, string_store)
      ended == PutWord(args, argv_store + WORD * argc, 0)
      stack == PutWord(PutWord(ended, argv_store - WORD, UTEMP2USTACK(argv_store)),
                       argv_store - 2 * WORD, argc)
  IN IF argv_store - 2 * WORD < 0 THEN [s EXCEPT !.ret = E_NO_MEM]
     ELSE IF Fails("stack_alloc", 0) THEN [s EXCEPT !.ret = E_NO_MEM]
     ELSE [s EXCEPT !.ret = 0,
                    !.child.rsp = UTEMP2USTACK(argv_store - 2 * WORD),
                    !.child.stack = IF Fails("stack_map", 0) THEN <<>>
                                    ELSE [a \in STACK_BASE .. STACK_BASE + USER_STACK_SIZE - 1 |->
                                            stack[a - STACK_BASE]]]

-----------------------------------------------------------------------------
(* map_segment.  The pages of the file part are read at UTEMP, then mapped  *)
(* into the child; the pages after it are new and hold zeros.  A failure    *)
(* leaves the pages at UTEMP.                                               *)
FileByte(k) == IF k < Len(sp.prog.bytes) THEN sp.prog.bytes[k + 1] ELSE 0

Over(m, n) == [a \in DOMAIN m \cup DOMAIN n |-> IF a \in DOMAIN n THEN n[a] ELSE m[a]]

MapAt(s, va, n, byte(_)) ==
  [s EXCEPT !.child.mem = Over(@, [a \in va .. va + n - 1 |-> byte(a - va)])]

AlignedKeepingOffset(g) ==
  LET res == g.va % PAGE_SIZE
  IN [g EXCEPT !.va = @ - res, !.memsz = @ + res, !.filesz = @ + res]

Aligned(g) ==
  LET res == g.va % PAGE_SIZE
  IN [g EXCEPT !.va = @ - res, !.memsz = @ + res, !.filesz = @ + res, !.off = @ - res]

map_segment(s, i) ==
  LET g == Aligned(sp.prog.segs[i])
      filesz == ROUNDUP(g.va + g.filesz, PAGE_SIZE) - g.va
      Zero(k) == 0
      Read(k) == FileByte(g.off + k)
      bss == IF g.memsz > filesz
             THEN MapAt(s, g.va + filesz, ROUNDUP(g.memsz - filesz, PAGE_SIZE), Zero) ELSE s
      temp == [bss EXCEPT !.utemp = filesz]
      mapped == MapAt(temp, g.va, filesz, Read)
  IN CASE g.memsz > filesz /\ Fails("bss", i) -> [s EXCEPT !.ret = E_FAIL]
       [] Fails("file", i) -> [bss EXCEPT !.ret = E_FAIL]
       [] Fails("seek", i) \/ Fails("read", i) \/ Fails("map", i) -> [temp EXCEPT !.ret = E_FAIL]
       [] Fails("unmap", i) -> [mapped EXCEPT !.ret = E_FAIL]
       [] OTHER -> [mapped EXCEPT !.ret = 0, !.utemp = 0]

RECURSIVE MapSegments(_, _)
MapSegments(s, i) ==
  IF i > Len(sp.prog.segs) \/ s.ret < 0 THEN s ELSE MapSegments(map_segment(s, i), i + 1)

-----------------------------------------------------------------------------
NoChild == [status |-> "free", mem |-> <<>>, stack |-> <<>>, rsp |-> 0, rip |-> 0, shared |-> FALSE]
Start == [ret |-> 0, child |-> NoChild, open |-> FALSE, utemp |-> 0]

Destroy(s) == [s EXCEPT !.child = NoChild, !.open = FALSE]

(* Copying the shared regions may not fail: the parent panics.              *)
Launch(s) ==
  IF Fails("shared", 0) THEN [s EXCEPT !.open = FALSE, !.ret = E_FAIL, !.child.status = "panic"]
  ELSE [s EXCEPT !.open = FALSE, !.ret = CHILD, !.child.status = "runnable",
                 !.child.shared = TRUE, !.child.rip = sp.prog.entry]

Finish(s) == IF s.ret < 0 THEN Destroy(s) ELSE Launch(s)

spawn ==
  LET opened == [Start EXCEPT !.open = TRUE]
      forked == [opened EXCEPT !.child.status = "not_runnable"]
  IN CASE Fails("open", 0) -> [Start EXCEPT !.ret = E_FAIL]
       [] ~Fails("open", 0) /\ ~sp.prog.ok -> [Start EXCEPT !.ret = E_FAIL]
       [] sp.prog.ok /\ Fails("exofork", 0) -> [Start EXCEPT !.ret = E_FAIL]
       [] OTHER -> Finish(MapSegments(init_stack(forked), 1))

-----------------------------------------------------------------------------
(* The child's side: what _start and libmain find (lib/entry.S).            *)
RECURSIVE StringAt(_, _)
StringAt(m, a) == IF m[a] = 0 THEN <<>> ELSE <<m[a]>> \o StringAt(m, a + 1)

ArgsSeen(c) ==
  LET argc == c.stack[c.rsp]
      argv == c.stack[c.rsp + WORD]
  IN /\ argc = Len(sp.argv)
     /\ \A i \in 1 .. argc : StringAt(c.stack, c.stack[argv + WORD * (i - 1)]) = sp.argv[i]
     /\ c.stack[argv + WORD * argc] = 0

ImageSeen(c) ==
  \A i \in DOMAIN sp.prog.segs :
    LET g == sp.prog.segs[i]
        bss == ROUNDUP(g.va + g.filesz, PAGE_SIZE)
    IN /\ \A k \in 0 .. g.filesz - 1 : c.mem[g.va + k] = FileByte(g.off + k)
       /\ \A a \in bss .. g.va + g.memsz - 1 : c.mem[a] = 0

(* The state s a call of spawn leaves is right for what it returned.        *)
LeftRight(s) ==
  /\ ~s.open
  /\ s.ret < 0 => s.child.status \in {"free", "panic"}
  /\ s.ret >= 0 =>
       /\ s.child.status = "runnable" /\ s.child.rip = sp.prog.entry /\ s.child.shared
       /\ ~Fails("stack_map", 0) => ArgsSeen(s.child)
       /\ ImageSeen(s.child)

(* A child that spawn lets run finds every argument and the terminating     *)
(* null pointer where its entry code looks, its segments as they are in the *)
(* file, zeros from the page after the file part on (where user.ld puts     *)
(* .bss) and starts at the program's entry; a call that fails leaves no     *)
(* child and no open file behind, whichever of its steps failed.  The one   *)
(* failure it does not report, the mapping of the stack, is left out here   *)
(* (spawn, init_stack, map_segment).                                        *)
SpawnRight == LeftRight(spawn)

(* A child is let run only with a stack: init_stack "Returns < 0 on         *)
(* failure", so a failure to map the stack makes spawn fail.                *)
ChildHasStack == spawn.ret >= 0 => spawn.child.stack # <<>>
=============================================================================

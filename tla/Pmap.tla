-------------------------------- MODULE Pmap --------------------------------
(* Memory management of the kernel, kern/pmap.c: the tree of physical pages  *)
(* with its reference counts and free lists, one tree of virtual pages and   *)
(* one hierarchy of hardware page tables per address space, and the calls    *)
(* that allocate, map, share, copy on write, unmap and release memory.       *)
(*                                                                           *)
(* A page, physical or virtual, is <<class, first page number>>.  Memory for *)
(* descriptors and for page tables is not taken from the modelled pages.     *)
(* Page tables have two entries per table, so class c is the leaf size of    *)
(* level c (classes 0, 9, 18 and 27 in the code).                            *)
EXTENDS Regions, FiniteSets, TLC

CONSTANTS
  Spaces,                 \* address spaces of the environments
  RootClass,              \* class of the root of the physical tree
  Allocatable,            \* ALLOCATABLE_NODE pages attached at boot
  ZeroPage,               \* the zero-filled RESERVED_NODE page
  MAX_ALLOCATION_CLASS

None == <<>>
Left(p)   == <<p[1] - 1, p[2]>>
Right(p)  == <<p[1] - 1, p[2] + Size(p[1] - 1)>>
Up(p, c)  == <<c, (p[2] \div Size(c)) * Size(c)>>     \* ancestor of class c
Parent(p) == Up(p, p[1] + 1)
Within(p, q) == p[1] <= q[1] /\ Up(p, q[1]) = q

\* enum PageState of the physical nodes.
PhysNodes == {q \in (0..RootClass) \X (0..Size(RootClass) - 1) : q[2] % Size(q[1]) = 0}
StateOf ==
  [p \in PhysNodes |->
     IF \E q \in Allocatable : Within(p, q) THEN "allocatable"
     ELSE IF Within(p, ZeroPage) THEN "reserved" ELSE "partial"]
State(p) == StateOf[p]

-----------------------------------------------------------------------------
(* The state m of the memory manager is threaded through its functions:      *)
(*   m.ref   physical nodes and their refc                                   *)
(*   m.free  free_classes, the list of each class, newest first              *)
(*   m.virt  virtual nodes <<space, page>> and what they map                 *)
(*   m.hw    page table entries of each space                                *)
(*   m.bad   an assertion has failed                                         *)
(*   m.err   the call in progress has failed                                 *)
VARIABLE mem

Leaf(phy, prot) == [phy |-> phy, prot |-> prot]
Intermediate == Leaf(None, {})
VRoot(s) == <<s, <<MAX_CLASS, 0>>>>

HasKids(m, p)  == p[1] > 0 /\ Left(p) \in DOMAIN m.ref
IsFree(m, p)   == m.ref[p] = 0 /\ ~HasKids(m, p)
IsUniqByCount(m, p) == m.ref[p] = 1
IsUniq(m, p)   == m.ref[p] = 1 /\ ~HasKids(m, p)
\* The ring of virtual nodes in page->head.
Mappings(m, p) == {v \in DOMAIN m.virt : m.virt[v].phy = p}

ListDel(m, p)    == [m EXCEPT !.free[p[1]] = SelectSeq(@, LAMBDA q : q # p)]
ListAppend(m, p) == [m EXCEPT !.free[p[1]] = <<p>> \o @]
Forget(f, S)     == [x \in DOMAIN f \ S |-> f[x]]

-----------------------------------------------------------------------------
(* Physical tree.                                                            *)

\* page_lookup with alloc, one level: both children exist afterwards; the
\* child the lookup does not take replaces a free page in the free lists.
SplitPhys(m, p) ==
  IF HasKids(m, p) THEN m
  ELSE LET kid == IF m.ref[p] > 0 THEN 1 ELSE 0
           n == [m EXCEPT !.ref = (Left(p) :> kid @@ Right(p) :> kid) @@ @]
       IN IF State(p) = "allocatable" /\ m.ref[p] = 0
          THEN ListAppend(ListDel(n, p), Right(p)) ELSE n

\* page_lookup(p, page2pa(p), c, PARTIAL_NODE, 1): the leftmost page of class c.
RECURSIVE Lookup(_, _, _)
Lookup(m, p, c) == IF p[1] = c THEN m ELSE Lookup(SplitPhys(m, p), Left(p), c)

RECURSIVE PageRef(_, _)
PageRef(m, p) ==
  LET n == [m EXCEPT !.ref[p] = @ + 1]
      d == ListDel(n, p)
  IN IF m.ref[p] > 0 THEN n
     ELSE IF HasKids(m, p) THEN PageRef(PageRef(d, Left(p)), Right(p)) ELSE d

\* The merge loop of page_unref for a page that has become free.
RECURSIVE Merge(_, _)
MergeNever(m, p) ==
  IF State(p) = "allocatable" THEN ListAppend(ListDel(m, p), p) ELSE m
Merge(m, p) ==
  LET par == Parent(p)
      n == ListDel(m, p)
      merged == [ListDel(ListDel(m, Left(par)), Right(par))
                   EXCEPT !.ref = Forget(@, {Left(par), Right(par)}),
                          !.bad = @ \/ /\ State(par) = "allocatable"
                                       /\ Mappings(m, par) # {}]
  IN IF /\ p[1] < RootClass
        /\ State(par) = State(p)
        /\ IsFree(m, Left(par)) /\ IsFree(m, Right(par))
     THEN Merge(merged, par)
     ELSE IF State(p) = "allocatable" THEN ListAppend(n, p) ELSE n

\* The count of a page goes down, and a page that is free now is merged.
Decrement(m, p) ==
  LET d == [m EXCEPT !.ref[p] = @ - 1]
  IN IF IsFree(d, p) THEN Merge(d, p) ELSE d

RECURSIVE PageUnref(_, _)
PageUnrefFlat(m, p) == Decrement(m, p)
PageUnref(m, p) ==
  Decrement(IF m.ref[p] = 1 /\ HasKids(m, p)
            THEN PageUnref(PageUnref(m, Left(p)), Right(p)) ELSE m, p)

\* alloc_page: the newest page of the smallest class that fits, split down.
FittingClasses(m, c) == {k \in c..(RootClass - 1) : m.free[k] # <<>>}
AllocPage(m, c) ==
  LET k == CHOOSE k \in FittingClasses(m, c) :
             \A j \in FittingClasses(m, c) : k <= j
      peer == Head(m.free[k])
  IN [m |-> Lookup(ListDel(m, peer), peer, c), page |-> <<c, peer[2]>>]

-----------------------------------------------------------------------------
(* Virtual tree.                                                             *)

\* A mapping becomes an intermediate node over two mappings of its halves.
SplitMapping(m, v) ==
  LET s == v[1]
      p == m.virt[v].phy
      prot == m.virt[v].prot
      halves == v :> Intermediate
                @@ <<s, Left(v[2])>>  :> Leaf(Left(p), prot)
                @@ <<s, Right(v[2])>> :> Leaf(Right(p), prot)
  IN PageUnref(PageRef(PageRef([SplitPhys(m, p) EXCEPT !.virt = halves @@ @], Left(p)), Right(p)), p)

\* page_lookup_virtual from node p of space s towards page va, down to class c.
RECURSIVE Descend(_, _, _, _, _, _)
Descend(m, s, p, va, c, mode) ==
  LET kid == Up(<<0, va>>, p[1] - 1)
      next == <<s, kid>>
      mapped == m.virt[<<s, p>>].phy # None
  IN IF p[1] <= c THEN m
     ELSE IF next \in DOMAIN m.virt THEN Descend(m, s, kid, va, c, mode)
     ELSE IF mode = "preserve" \/ (mode = "split" /\ ~mapped) THEN m
     ELSE Descend(IF mapped THEN SplitMapping(m, <<s, p>>)
                  ELSE [m EXCEPT !.virt = (next :> Intermediate) @@ @], s, kid, va, c, mode)
LookupVirtual(m, s, va, c, mode) == Descend(m, s, <<MAX_CLASS, 0>>, va, c, mode)

\* The node page_lookup_virtual returns: the deepest one not below class c.
Found(m, s, va, c) ==
  LET Ks == {k \in c..MAX_CLASS : <<s, Up(<<0, va>>, k)>> \in DOMAIN m.virt}
  IN <<s, Up(<<0, va>>, CHOOSE k \in Ks : \A j \in Ks : k <= j)>>

\* unmap_page_remove: the node is still in the page's ring during page_unref.
RECURSIVE UnmapPageRemove(_, _)
UnmapPageRemove(m, v) ==
  IF v \notin DOMAIN m.virt THEN m
  ELSE [(IF m.virt[v].phy # None THEN PageUnref(m, m.virt[v].phy)
         ELSE IF v[2][1] = 0 THEN m
         ELSE UnmapPageRemove(UnmapPageRemove(m, <<v[1], Left(v[2])>>), <<v[1], Right(v[2])>>))
        EXCEPT !.virt = Forget(@, {v})]

-----------------------------------------------------------------------------
(* Hardware page tables: the entry of level l that covers a virtual page of  *)
(* class l is named by that page.                                            *)
NoEntry == [kind |-> "none"]
Table == [kind |-> "table"]
\* prot2pte: a lazy page is never writable for the hardware.
Pte(pa, prot) == [kind |-> "leaf", pa |-> pa,
                  w |-> "W" \in prot /\ "LAZY" \notin prot]
VPages == {p \in (0..MAX_CLASS) \X (0..Size(MAX_CLASS) - 1) : p[2] % Size(p[1]) = 0}
EmptyHw == [p \in VPages |-> NoEntry]

\* alloc_pt and alloc_fill_pt on a large-page entry: a table with its pieces.
HwSplit(h, e) ==
  [h EXCEPT ![e] = Table,
            ![Left(e)] = h[e],
            ![Right(e)] = [h[e] EXCEPT !.pa = @ + Size(e[1] - 1)]]

\* The walk towards the entry of p.  map_page creates what is missing;
\* unmap_page returns at the first entry that is not present.
RECURSIVE HwWalk(_, _, _, _)
HwWalk(h, p, k, create) ==
  LET e == Up(p, k)
  IN IF k = p[1] THEN h
     ELSE IF h[e] = Table THEN HwWalk(h, p, k - 1, create)
     ELSE IF h[e] # NoEntry THEN HwWalk(HwSplit(h, e), p, k - 1, create)
     ELSE IF create THEN HwWalk([h EXCEPT ![e] = Table], p, k - 1, create)
     ELSE h

\* remove_pt: the entry and every table below it.
HwUnmapLeafOnly(h, p) == [h EXCEPT ![p] = NoEntry]
HwUnmap(h, p) ==
  LET w == HwWalk(h, p, MAX_CLASS, FALSE)
  IN [q \in VPages |-> IF Within(q, p) THEN NoEntry ELSE w[q]]
HwMap(h, p, pte) == [HwWalk(h, p, MAX_CLASS, TRUE) EXCEPT ![p] = pte]

-----------------------------------------------------------------------------
UnmapPage(m, s, p) ==
  [UnmapPageRemove(LookupVirtual(m, s, p[2], p[1], "alloc"), <<s, p>>)
     EXCEPT !.hw[s] = HwUnmap(@, p),
            !.virt = IF <<s, p>> = VRoot(s) THEN (VRoot(s) :> Intermediate) @@ @ ELSE @]

MapPage(m, s, p, phy, prot) ==
  [LookupVirtual(UnmapPage(PageRef(m, phy), s, p), s, p[2], p[1], "alloc")
     EXCEPT !.virt[<<s, p>>] = Leaf(phy, prot),
            !.hw[s] = HwMap(@, p, Pte(phy[2], prot))]

RECURSIVE AllocCompositePage(_, _, _, _)
AllocCompositePage(m, s, p, prot) ==
  IF FittingClasses(m, p[1]) # {}
  THEN LET a == AllocPage(m, p[1]) IN MapPage(a.m, s, p, a.page, prot)
  ELSE IF p[1] = 0 THEN [m EXCEPT !.err = TRUE]
  ELSE LET l == AllocCompositePage(m, s, Left(p), prot)
           r == AllocCompositePage(l, s, Right(p), prot)
       IN IF l.err THEN l ELSE IF r.err THEN UnmapPage(r, s, Left(p)) ELSE r

\* release_address_space: the tree is unmapped and its root forgotten, but
\* PML4_INDEX of the end of the whole range is 0, so remove_pt visits no entry
\* and the tables in m.hw[s] stay behind.  No CPU uses their leaves again.
Release(m, s) ==
  [UnmapPageRemove(m, VRoot(s))
     EXCEPT !.hw[s] = [e \in VPages |-> IF @[e] = Table THEN Table ELSE NoEntry]]

\* force_alloc_page: a write to a lazy page of a user space.  In n the lookup
\* has been made.
ForceAllocFound(n, s, va) ==
  LET v == Found(n, s, va, 0)
      phy == n.virt[v].phy
      prot == n.virt[v].prot \ {"LAZY"}
      Checked(c) == IF c.err THEN Release(c, s) ELSE c
  IN IF "LAZY" \notin n.virt[v].prot THEN [n EXCEPT !.err = TRUE]
     ELSE IF IsUniq(n, phy) THEN MapPage(n, s, v[2], phy, prot)
     ELSE Checked(PageUnref(AllocCompositePage(PageRef(n, phy), s, v[2], prot), phy))
ForceAllocPage(m, s, va, maxclass) ==
  ForceAllocFound(LookupVirtual(m, s, va, maxclass, "split"), s, va)

-----------------------------------------------------------------------------
(* map_region: page dp of space d becomes what page sp of space s is.        *)

\* The end of do_map_page: the page is mapped at dp and, when it is to be
\* copied on write, made lazy at sp as well.
MadeLazy(m, s, sp, phy, old, needed) ==
  IF needed THEN MapPage(m, s, sp, phy, old \cup {"LAZY"}) ELSE m
ShareMapping(m, d, dp, s, sp, phy, old, f) ==
  LET f1 == IF "SHARE" \in old /\ "LAZY" \in f THEN (f \ {"LAZY"}) \cup {"SHARE"} ELSE f
  IN IF phy = None THEN [m EXCEPT !.bad = TRUE]
     ELSE PageUnref(MadeLazy(MapPage(PageRef(m, phy), d, dp, phy, f1), s, sp, phy, old,
                             "LAZY" \in f1 /\ <<d, dp>> # <<s, sp>>), phy)

\* After force_alloc_page at the source, whose page is then another one.
ShareForced(m, d, dp, s, sp, c, old, f) ==
  IF m.err \/ <<d, dp>> = <<s, sp>> THEN m
  ELSE ShareMapping(m, d, dp, s, sp, m.virt[Found(m, s, sp[2], c)].phy, old, f)

\* do_map_page for one mapping (phy, old) of the source.
DoMapPage(m, d, dp, s, sp, phy, old, flags) ==
  LET f == IF "COMBINE" \notin flags THEN flags
           ELSE flags \cap (IF "SHARE" \in old THEN old ELSE old \cup {"LAZY"})
  IN IF {"LAZY", "SHARE"} \subseteq old \/ {"LAZY", "SHARE"} \subseteq f
     THEN [m EXCEPT !.bad = TRUE]
     ELSE IF "LAZY" \notin f /\ "W" \in f \ old THEN [m EXCEPT !.err = TRUE]
     ELSE IF "LAZY" \notin f /\ "LAZY" \in old
     THEN ShareForced(ForceAllocPage(m, s, sp[2], MAX_CLASS), d, dp, s, sp, phy[1], old, f)
     ELSE ShareMapping(m, d, dp, s, sp, phy, old, f)

RECURSIVE DoMapSubtree(_, _, _, _, _, _)
DoMapSubtree(m, d, dp, s, sp, flags) ==
  LET v == <<s, sp>>
  IN IF m.err \/ v \notin DOMAIN m.virt THEN m
     ELSE IF m.virt[v].phy # None
     THEN DoMapPage(m, d, dp, s, sp, m.virt[v].phy, m.virt[v].prot, flags)
     ELSE IF sp[1] = 0 THEN m
     ELSE DoMapSubtree(DoMapSubtree(m, d, Left(dp), s, Left(sp), flags),
                       d, Right(dp), s, Right(sp), flags)

\* do_map_region_one_page without ALLOC_ZERO.
MapOnePage(m, d, dp, s, sp, flags) ==
  DoMapSubtree(LookupVirtual(m, s, sp[2], sp[1], "alloc"), d, dp, s, sp, flags)

\* do_map_region_one_page with ALLOC_ZERO: shared memory is allocated, other
\* memory lazily maps the zero page in chunks.
RECURSIVE MapZero(_, _, _, _)
MapZero(m, d, p, flags) ==
  IF p[1] > MAX_ALLOCATION_CLASS
  THEN MapZero(MapZero(m, d, Left(p), flags), d, Right(p), flags)
  ELSE MapPage(Lookup(m, ZeroPage, p[1]), d, p, <<p[1], ZeroPage[2]>>, flags \cup {"LAZY"})
AllocOnePage(m, d, p, flags) ==
  IF "SHARE" \in flags THEN AllocCompositePage(m, d, p, flags \ {"LAZY", "COMBINE"})
  ELSE MapZero(m, d, p, flags \ {"COMBINE"})

\* The loops over the pieces of the region, ended by the first error.
RECURSIVE MapAll(_, _, _, _, _, _, _)
MapAll(m, pieces, d, dst, s, src, flags) ==
  IF m.err \/ pieces = <<>> THEN m
  ELSE LET at == Head(pieces)[1]
           c == Head(pieces)[2]
       IN MapAll(IF s = None THEN AllocOnePage(m, d, <<c, at>>, flags)
                 ELSE MapOnePage(m, d, <<c, at>>, s, <<c, src + at - dst>>, flags),
                 Tail(pieces), d, dst, s, src, flags)
MapRegion(m, d, dst, s, src, n, flags) ==
  MapAll(m, MapPieces(dst, src, n), d, dst, s, src, flags)

RECURSIVE UnmapAll(_, _, _)
UnmapAll(m, pieces, d) ==
  IF pieces = <<>> THEN m
  ELSE UnmapAll(UnmapPage(m, d, <<Head(pieces)[2], Head(pieces)[1]>>), Tail(pieces), d)
UnmapRegion(m, d, dst, n) == UnmapAll(m, UnmapPieces(dst, n), d)

-----------------------------------------------------------------------------
(* The system calls and faults that reach the memory manager.                *)
Live == {s \in Spaces : VRoot(s) \in DOMAIN mem.virt}
Ranges == {r \in (0..Size(MAX_CLASS) - 1) \X (1..Size(MAX_CLASS)) :
             r[1] + r[2] <= Size(MAX_CLASS)}
Call(m) == ~mem.bad /\ mem' = [m EXCEPT !.err = FALSE]
Mapped(s, va) == mem.virt[Found(mem, s, va, 0)]

\* env_alloc: init_address_space.
InitAddressSpace(s) ==
  /\ s \notin Live
  /\ Call([mem EXCEPT !.virt = (VRoot(s) :> Intermediate) @@ @, !.hw[s] = EmptyHw])

\* env_free: release_address_space.
ReleaseAddressSpace(s) == s \in Live /\ Call(Release(mem, s))

\* sys_alloc_region, lazy unless shared.
SysAllocRegion(s, r, shared) ==
  /\ s \in Live
  /\ Call(MapRegion(mem, s, r[1], None, 0, r[2],
                    {"W", "LAZY"} \cup IF shared THEN {"SHARE"} ELSE {}))

\* fork: sys_map_region of a range from parent to child, copy on write.
SysMapFork(s, d, r) ==
  /\ {s, d} \subseteq Live /\ s # d
  /\ Call(MapRegion(mem, d, r[1], s, r[1], r[2], {"W", "SHARE", "LAZY", "COMBINE"}))

\* dup and the file descriptors of spawn: one shared page at another address.
SysMapShared(s, va, d, dst) ==
  /\ {s, d} \subseteq Live /\ <<s, va>> # <<d, dst>>
  /\ "SHARE" \in Mapped(s, va).prot
  /\ Call(MapRegion(mem, d, dst, s, va, 1, Mapped(s, va).prot))

\* sys_map_region of private memory onto itself without PROT_LAZY: the copy is
\* made now, writable or read-only.
SysMapInPlace(s, r, prot) ==
  /\ s \in Live
  /\ \A va \in r[1]..(r[1] + r[2] - 1) : "SHARE" \notin Mapped(s, va).prot
  /\ Call(MapRegion(mem, s, r[1], s, r[1], r[2], prot))

SysUnmapRegion(s, r) == s \in Live /\ Call(UnmapRegion(mem, s, r[1], r[2]))

\* A write to a lazy page faults into force_alloc_page.
WriteFault(s, va) ==
  /\ s \in Live
  /\ {"W", "LAZY"} \subseteq Mapped(s, va).prot
  /\ Call(ForceAllocPage(mem, s, va, MAX_ALLOCATION_CLASS))

\* The tree after init_memory: the attached pages, and the zero page with the
\* reference that init_memory keeps.
BootNodes ==
  LET held == Allocatable \cup {ZeroPage}
  IN {q \in PhysNodes : \/ q = <<RootClass, 0>>
                        \/ \E p \in held : Within(p, Parent(q)) /\ p # Parent(q)}

Init ==
  mem = [ref  |-> [p \in BootNodes |-> IF p = ZeroPage THEN 1 ELSE 0],
         free |-> [c \in 0..(RootClass - 1) |->
                     LET S == {p \in Allocatable : p[1] = c}
                     IN IF S = {} THEN <<>> ELSE <<CHOOSE p \in S : TRUE>>],
         virt |-> <<>>,
         hw   |-> [s \in Spaces |-> EmptyHw],
         bad |-> FALSE, err |-> FALSE]

Next ==
  \E s \in Spaces :
    \/ InitAddressSpace(s)
    \/ ReleaseAddressSpace(s)
    \/ \E r \in Ranges :
         \/ \E shared \in BOOLEAN : SysAllocRegion(s, r, shared)
         \/ \E d \in Spaces : SysMapFork(s, d, r)
         \/ \E prot \in {{}, {"W"}} : SysMapInPlace(s, r, prot)
         \/ SysUnmapRegion(s, r)
    \/ \E va \in 0..Size(MAX_CLASS) - 1 :
         \/ WriteFault(s, va)
         \/ \E d \in Spaces, dst \in 0..Size(MAX_CLASS) - 1 : SysMapShared(s, va, d, dst)

Spec == Init /\ [][Next]_mem

-----------------------------------------------------------------------------
\* page->refc counts the virtual pages that map the page, plus one while its
\* parent is referenced and one for the kernel's own hold on the zero page;
\* page_ref and page_unref keep it through every split, merge and remap.
RefsExact ==
  ~mem.bad =>
    \A p \in DOMAIN mem.ref :
      mem.ref[p] = Cardinality(Mappings(mem, p))
                   + (IF p = ZeroPage THEN 1 ELSE 0)
                   + (IF p[1] < RootClass /\ mem.ref[Parent(p)] > 0 THEN 1 ELSE 0)

\* The lists free_classes hold exactly the allocatable pages that nobody
\* references, in the list of their class, and buddies are always merged, so
\* that no memory is lost by any sequence of calls.
FreeListsExact ==
  ~mem.bad =>
    /\ \A c \in DOMAIN mem.free :
         /\ \A i, j \in DOMAIN mem.free[c] : mem.free[c][i] = mem.free[c][j] => i = j
         /\ {mem.free[c][i] : i \in DOMAIN mem.free[c]}
              = {p \in DOMAIN mem.ref : p[1] = c /\ State(p) = "allocatable" /\ IsFree(mem, p)}
    /\ \A p \in DOMAIN mem.ref :
         HasKids(mem, p) /\ State(p) = "allocatable"
           => ~(IsFree(mem, Left(p)) /\ IsFree(mem, Right(p)))

\* What the hardware translates is what the tree of virtual pages says, page
\* by page: the same physical page, writable exactly when the mapping is
\* writable and not lazy (map_page and unmap_page maintain both).
Translate(s, va) ==
  LET Es == {p \in VPages : Within(<<0, va>>, p) /\ mem.hw[s][p].kind = "leaf"}
      e == CHOOSE p \in Es : TRUE
  IN IF Es = {} THEN NoEntry
     ELSE [mem.hw[s][e] EXCEPT !.pa = @ + va - e[2]]
HardwareMatchesTree ==
  ~mem.bad =>
    \A s \in Live, va \in 0..Size(MAX_CLASS) - 1 :
      LET v == Found(mem, s, va, 0)
      IN Translate(s, va) = IF mem.virt[v].phy = None THEN NoEntry
                            ELSE Pte(mem.virt[v].phy[2] + va - v[2][2], mem.virt[v].prot)

\* A page that somebody holds as a lazy copy is never writable through another
\* mapping, and the zero page through none: do_map_page makes the source lazy
\* too, and force_alloc_page copies unless the page is unique.
LazyPagesUnwritten ==
  ~mem.bad =>
    \A v, w \in DOMAIN mem.virt :
      /\ mem.virt[v].phy # None /\ mem.virt[w].phy # None
      /\ Within(mem.virt[v].phy, mem.virt[w].phy) \/ Within(mem.virt[w].phy, mem.virt[v].phy)
      /\ "LAZY" \in mem.virt[v].prot
      => Pte(0, mem.virt[w].prot).w = FALSE

\* No assertion of pmap.c fails.
NoAssertFails == ~mem.bad

\* Every page table that was allocated is still reached from an address space.
NoTableLost == \A s \in Spaces \ Live, e \in VPages : mem.hw[s][e] # Table
=============================================================================

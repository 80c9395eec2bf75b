------------------------------ MODULE Regions ------------------------------
(* How kern/pmap.c cuts a range of pages into naturally aligned pages of a   *)
(* power-of-two size (a "class").  Addresses and sizes are counted in pages. *)
EXTENDS Integers, Sequences

CONSTANT MAX_CLASS

Size(c) == 2 ^ c

\* Is bit c of the page number a set (start & CLASS_SIZE(class))?
Odd(a, c) == (a \div Size(c)) % 2 = 1

\* addr_common_class: the largest class at which both addresses have the same
\* offset, never above MAX_CLASS.
AddrCommonClass(a, b) ==
  CHOOSE r \in 0..MAX_CLASS :
    /\ \A i \in 0..(r - 1) : Odd(a, i) = Odd(b, i)
    /\ r < MAX_CLASS => Odd(a, r) # Odd(b, r)

\* The first loop: pages of growing class up to the alignment of the range.
RECURSIVE Climb(_, _, _, _)
Climb(at, end, c, max) ==
  IF c >= max \/ at + Size(c) > end THEN [pieces |-> <<>>, at |-> at, class |-> c]
  ELSE IF ~Odd(at, c) THEN Climb(at, end, c + 1, max)
  ELSE LET rest == Climb(at + Size(c), end, c + 1, max)
       IN [rest EXCEPT !.pieces = <<<<at, c>>>> \o @]

\* The second loop: pages of falling class.  `once` is the loop of
\* unmap_region, which tries each class with an if instead of a while.
RECURSIVE Fall(_, _, _, _)
Fall(at, end, c, once) ==
  IF c < 0 \/ at >= end THEN <<>>
  ELSE IF at + Size(c) > end THEN Fall(at, end, c - 1, once)
  ELSE <<<<at, c>>>> \o Fall(at + Size(c), end, IF once THEN c - 1 ELSE c, once)

Cut(at, end, max, once) ==
  LET up == Climb(at, end, 0, max) IN up.pieces \o Fall(up.at, end, up.class, once)

\* map_region and map_physical_region: the pages <<address, class>> mapped at
\* dst for a source range that starts at src.
MapPieces(dst, src, n) == Cut(dst, dst + n, AddrCommonClass(dst, src), FALSE)

\* unmap_region.
UnmapPieces(dst, n) == Cut(dst, dst + n, MAX_CLASS, TRUE)
=============================================================================

-------------------------------- MODULE Asan --------------------------------
(***************************************************************************)
(* The address sanitizer of the kernel: llvm/asan/asan_internal.c (the     *)
(* shadow of the memory, one byte for SHADOW_ALIGN bytes), asan.c (what    *)
(* instrumented code calls), asan_memintrinsics.c (the wrapped memory and  *)
(* string functions), asan_platform.kjos.c (the start) and the places of   *)
(* kern/pmap.c that poison and unpoison pages.                             *)
(*                                                                         *)
(* Memory is a small range of bytes: the kernel image with its globals, a  *)
(* pair of pages of the direct map that are allocated and freed, and the   *)
(* stack.  "ok" is the truth the shadow stands for: the bytes that belong  *)
(* to an object the kernel may use.  A run stops at the first report       *)
(* (platform_asan_fatal).                                                  *)
(***************************************************************************)
EXTENDS Integers, Sequences, FiniteSets

CONSTANTS SHADOW_ALIGN,  \* bytes for each byte of shadow
          Globals,       \* <<[beg, size, size_with_redzone], ...>>
          ImageEnd,      \* the image is the bytes 0 .. ImageEnd - 1
          PAGE_SIZE,     \* then the two pages
          StackSize      \* then the stack

VARIABLE as

SHADOW_MASK == SHADOW_ALIGN - 1
ASAN_RZ == 249           \* the values above SHADOW_MASK all read the same
PageStart(p) == ImageEnd + (p - 1) * PAGE_SIZE
StackStart == ImageEnd + 2 * PAGE_SIZE
Top == StackStart + StackSize
Span(base, size) == base .. base + size - 1

----------------------------------------------------------------------------
(* asan_internal_fill_range: the granule that holds an unaligned start is   *)
(* left alone, addresses outside the shadow are skipped, and a last piece   *)
(* shorter than a granule is written as its length.                         *)
FillRangeHead(sh, base, size, value) ==
  [g \in DOMAIN sh |->
     LET first == base \div SHADOW_ALIGN
         limit == (size + SHADOW_MASK) \div SHADOW_ALIGN
         left == size - (g - first) * SHADOW_ALIGN
     IN IF g \in Span(first, limit)
          THEN IF left >= SHADOW_ALIGN \/ value = 0 THEN value ELSE left
          ELSE sh[g]]

fill_range(sh, base, size, value) ==
  LET preceding == SHADOW_ALIGN - (base % SHADOW_ALIGN)
  IN CASE preceding = SHADOW_ALIGN -> FillRangeHead(sh, base, size, value)
       [] preceding # SHADOW_ALIGN /\ size > preceding ->
            FillRangeHead(sh, base + preceding, size - preceding, value)
       [] OTHER -> sh

(* The granules a range of this size is taken to reach.                     *)
Granules(base, size) == Span(base \div SHADOW_ALIGN, (size + SHADOW_MASK) \div SHADOW_ALIGN)

(* asan_internal_range_poisoned(base, size, _, false): the base is rounded  *)
(* down, and the size is not made longer for it.                            *)
RangePoisonedWider(sh, base, size) ==
  \E g \in Granules(base, size) \cap DOMAIN sh :
     LET left == size + SHADOW_MASK - (g - base \div SHADOW_ALIGN) * SHADOW_ALIGN
     IN sh[g] # 0 /\ (left > SHADOW_ALIGN \/ sh[g] < left \/ sh[g] > SHADOW_MASK)

range_poisoned(sh, base, size) ==
  \E g \in Granules(base, size) \cap DOMAIN sh :
     LET left == size - (g - base \div SHADOW_ALIGN) * SHADOW_ALIGN
     IN sh[g] # 0 /\ (left > SHADOW_ALIGN \/ sh[g] < left \/ sh[g] > SHADOW_MASK)

(* platform_asan_init and, once memory is set up, the shadow of             *)
(* init_shadow_pre: all ones but for the image and the stack; then          *)
(* __asan_register_globals.                                                 *)
platform_asan_init ==
  LET image == fill_range([g \in 0 .. (Top \div SHADOW_ALIGN) - 1 |-> 255], 0, ImageEnd, 0)
  IN fill_range(image, StackStart, StackSize, 0)

RECURSIVE register_globals(_, _)
register_globals(sh, i) ==
  IF i > Len(Globals) THEN sh
  ELSE LET g == Globals[i]
       IN register_globals(
            fill_range(sh, g.beg + g.size, g.size_with_redzone - g.size, ASAN_RZ), i + 1)

----------------------------------------------------------------------------
(* What each entry point checks before the operation.  d and s are the      *)
(* destination and the source, n the size asked for, dlen and slen the      *)
(* lengths of the strings there.                                            *)
MemoryChecked(f, d, s, n) ==
  CASE f \in {"memset", "bzero"} -> {<<d, n>>}
    [] f \in {"memcpy", "memmove", "bcopy", "memcmp", "bcmp"} -> {<<s, n>>, <<d, n>>}

StringChecked(f, d, s, n, dlen, slen) ==
  CASE f = "strcat" -> {<<d, dlen + slen + 1>>}
    [] f = "strcpy" -> {<<d, slen + 1>>}
    [] f \in {"strlcpy", "strlcat", "strncpy"} -> {<<d, n>>}
    [] f = "strncat" -> {<<d, dlen + n + 1>>}
    [] f = "strnlen" -> {<<s, n>>}
    [] f = "strlen" -> {<<s, slen + 1>>}

Checked(f, d, s, n, dlen, slen) ==
  CASE f \in {"load", "store"} -> {<<d, n>>}          \* __asan_loadN and its fixed sizes
    [] f \in {"memset", "bzero", "memcpy", "memmove", "bcopy", "memcmp", "bcmp"} -> MemoryChecked(f, d, s, n)
    [] OTHER -> StringChecked(f, d, s, n, dlen, slen)

Calls == {"store", "memcpy", "strcat", "strlen", "strnlen", "bzero", "strncat"}

(* The wrappers of functions the platform does not have end in              *)
(* asan_internal_unsupported, as fatal as a report.                         *)
Unsupported == {"bzero", "bcopy", "bcmp", "strlcpy", "strlcat", "strncat"}

Quiet == [ranges |-> {}, reported |-> FALSE, ok |-> {}]

Init ==
  as = [sh |-> register_globals(platform_asan_init, 1),
        ok |-> ((0 .. ImageEnd - 1) \cup Span(StackStart, StackSize))
               \ UNION {Span(Globals[i].beg + Globals[i].size,
                             Globals[i].size_with_redzone - Globals[i].size)
                        : i \in DOMAIN Globals},
        frame |-> FALSE, last |-> Quiet, dead |-> FALSE]

(* One call of the instrumented kernel: asan_internal_check_range for each  *)
(* of its ranges.                                                           *)
Access(f, d, s, n, dlen, slen) ==
  LET ranges == Checked(f, d, s, n, dlen, slen)
      bad == \E r \in ranges : range_poisoned(as.sh, r[1], r[2])
  IN /\ \A r \in ranges : r[1] + r[2] <= Top
     /\ as' = [as EXCEPT !.last = [ranges |-> ranges, reported |-> bad, ok |-> as.ok],
                         !.dead = bad \/ f \in Unsupported]

(* alloc_pt (and alloc_page of a pool) unpoisons the page; the page_unref   *)
(* that frees one first merges it with a free buddy and then poisons the    *)
(* whole of what it merged.                                                 *)
Allocated(p) == PageStart(p) \in as.ok

alloc_pt(p) ==
  /\ ~as.dead /\ ~Allocated(p)
  /\ as' = [as EXCEPT !.sh = fill_range(@, PageStart(p), PAGE_SIZE, 0),
                      !.ok = @ \cup Span(PageStart(p), PAGE_SIZE), !.last = Quiet]

page_unref(p) ==
  LET alone == Allocated(3 - p)
      from == IF alone THEN PageStart(p) ELSE PageStart(1)
      size == IF alone THEN PAGE_SIZE ELSE 2 * PAGE_SIZE
  IN /\ ~as.dead /\ Allocated(p)
     /\ as' = [as EXCEPT !.sh = fill_range(@, from, size, ASAN_RZ),
                         !.ok = @ \ Span(PageStart(p), PAGE_SIZE), !.last = Quiet]

(* The frame of an instrumented function with one local of k bytes: a       *)
(* redzone, the local, a redzone, written straight into the shadow          *)
(* (__asan_set_shadow_xx).  The fake stack has no entry to give             *)
(* (PLATFORM_ASAN_FAKESTACK_CLASS_n_N is 0), so locals stay on the stack.   *)
Frame(k) ==
  LET g == StackStart \div SHADOW_ALIGN
  IN /\ ~as.dead /\ ~as.frame
     /\ as' = [as EXCEPT !.sh = [@ EXCEPT ![g] = ASAN_RZ, ![g + 1] = k % SHADOW_ALIGN,
                                          ![g + 2] = ASAN_RZ],
                         !.ok = @ \ (Span(StackStart, 3 * SHADOW_ALIGN)
                                     \ Span(StackStart + SHADOW_ALIGN, k)),
                         !.frame = TRUE, !.last = Quiet]

(* It returns, or leaves through a noreturn function: then                  *)
(* __asan_handle_no_return unpoisons the stack from a little below its      *)
(* pointer to its top.                                                      *)
Return ==
  /\ as.frame /\ ~as.dead
  /\ as' = [as EXCEPT !.sh = fill_range(@, StackStart, StackSize, 0),
                      !.ok = @ \cup Span(StackStart, StackSize),
                      !.frame = FALSE, !.last = Quiet]

Next ==
  \/ /\ ~as.dead /\ as.last = Quiet
     /\ \E f \in Calls, d \in 0 .. Top - 1, s \in {1, PageStart(1)},
          n \in 1 .. SHADOW_ALIGN + 1 : Access(f, d, s, n, 1, n)
  \/ \E p \in {1, 2} : alloc_pt(p) \/ page_unref(p)
  \/ \E k \in 1 .. SHADOW_ALIGN : Frame(k)
  \/ Return

----------------------------------------------------------------------------
(* A report is never a false alarm: it names an access that leaves the      *)
(* program's objects.  And an access that starts on a granule is reported   *)
(* when it reaches a granule without a single byte of an object, through    *)
(* any history of pages mapped and unmapped, frames entered and left        *)
(* (asan_internal_range_poisoned against every asan_internal_fill_range).   *)
VerdictRight ==
  LET touched(r) == {x \div SHADOW_ALIGN : x \in Span(r[1], r[2])}
  IN /\ as.last.reported =>
          \E r \in as.last.ranges : ~(Span(r[1], r[2]) \subseteq as.last.ok)
     /\ (\E r \in as.last.ranges :
           /\ r[1] % SHADOW_ALIGN = 0
           /\ \E g \in touched(r) :
                Span(g * SHADOW_ALIGN, SHADOW_ALIGN) \cap as.last.ok = {})
        => as.last.reported
=============================================================================

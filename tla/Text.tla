--------------------------------- MODULE Text ---------------------------------
(***************************************************************************)
(* The string and formatting routines kernel and programs share            *)
(* (lib/string.c, lib/printfmt.c): memset and memmove with their copies by *)
(* words, strlcpy, strncmp, strtol, and vprintfmt behind snprintf.         *)
(*                                                                         *)
(* tx is one call with its arguments.  Memory is a function from addresses *)
(* to bytes; text is a sequence of one-character strings, NUL included     *)
(* where the code stores it.                                               *)
(***************************************************************************)
EXTENDS Integers, Sequences, FiniteSets, SequencesExt

CONSTANTS WORD,        \* bytes of a word, a power of 2 (8)
          Memory,      \* size of the memory the calls work on
          IntBits,     \* bits of an int; a long has twice as many
          Formats,     \* [fmt, conv, width, zero, left, long, prec]: format
                       \* strings with one conversion, and what they ask for
          Numbers,     \* arguments of the numeric conversions
          Words,       \* arguments of the string conversions
          MaxBuffer    \* sizes of the buffers given to snprintf

VARIABLE tx

NUL == "\\0"
Addr == 0 .. Memory - 1

-----------------------------------------------------------------------------
(* memset: bytes up to a word boundary, whole words, the rest.              *)

Store(m, a, n, c) == [x \in Addr |-> IF x \in a .. a + n - 1 THEN c ELSE m[x]]

Powers == {2 ^ k : k \in 0 .. WORD} \cap 1 .. WORD - 1
HasBit(n, p) == (n \div p) % 2 = 1

RECURSIVE HeadStores(_, _, _, _)
HeadStores(m, ptr, p, c) ==
  IF p \notin Powers THEN [mem |-> m, ptr |-> ptr]
  ELSE IF HasBit(ptr, p) THEN HeadStores(Store(m, ptr, p, c), ptr + p, 2 * p, c)
  ELSE HeadStores(m, ptr, 2 * p, c)

RECURSIVE TailStores(_, _, _, _, _)
TailStores(m, ptr, ni, p, c) ==
  IF p = 0 THEN m
  ELSE IF HasBit(ni, p) THEN TailStores(Store(m, ptr, p, c), ptr + p, ni, p \div 2, c)
  ELSE TailStores(m, ptr, ni, p \div 2, c)

memset(m, v, c, n) ==
  LET ni == n - ((WORD - (v % WORD)) % WORD)
      head == HeadStores(m, v, 1, c)
      whole == (ni \div WORD) * WORD
  IN IF ni < 0 THEN Store(m, v, n, c)
     ELSE TailStores(Store(head.mem, head.ptr, whole, c), head.ptr + whole, ni % WORD, WORD \div 2, c)

(* memmove: from the end when the source overlaps the destination from      *)
(* below, by words when both ends and the length allow it.                  *)
CopyUnit(m, d, s, k) == [x \in Addr |-> IF x \in d .. d + k - 1 THEN m[x - d + s] ELSE m[x]]

CopyUp(m, d, s, n, k) ==
  LET C(mm, i) == CopyUnit(mm, d + (i - 1) * k, s + (i - 1) * k, k)
  IN FoldLeft(C, m, [i \in 1 .. n \div k |-> i])
CopyDown(m, d, s, n, k) ==
  LET C(mm, i) == CopyUnit(mm, d - i * k, s - i * k, k)
  IN FoldLeft(C, m, [i \in 1 .. n \div k |-> i])

memmove_upwards(m, d, s, n) == CopyUp(m, d, s, n, 1)
memmove(m, d, s, n) ==
  LET k == IF d % WORD = 0 /\ s % WORD = 0 /\ n % WORD = 0 THEN WORD ELSE 1
      e == IF (d + n) % WORD = 0 /\ (s + n) % WORD = 0 /\ n % WORD = 0 THEN WORD ELSE 1
  IN IF s < d /\ s + n > d THEN CopyDown(m, d + n, s + n, n, e) ELSE CopyUp(m, d, s, n, k)

-----------------------------------------------------------------------------
(* Strings.  A string is followed by NUL.                                   *)

CharAt(s, i) == IF i > Len(s) THEN NUL ELSE s[i]

strlcpy(src, size) ==
  IF size = 0 THEN <<>> ELSE Append(SubSeq(src, 1, IF Len(src) < size - 1 THEN Len(src) ELSE size - 1), NUL)

RECURSIVE strncmp(_, _, _, _)
strncmp(p, q, i, n) ==
  IF n = 0 THEN TRUE
  ELSE IF CharAt(p, i) # NUL /\ CharAt(p, i) = CharAt(q, i) THEN strncmp(p, q, i + 1, n - 1)
  ELSE CharAt(p, i) = CharAt(q, i)

Digits == <<"0", "1", "2", "3", "4", "5", "6", "7", "8", "9", "a", "b", "c", "d", "e", "f">>
Capitals == <<"0", "1", "2", "3", "4", "5", "6", "7", "8", "9", "A", "B", "C", "D", "E", "F">>

(* The digit a character stands for; the comparisons are made on signed     *)
(* numbers, so everything before "0" and every capital ends the number.     *)
DigitOf(c) == IF \E i \in DOMAIN Digits : Digits[i] = c THEN (CHOOSE i \in DOMAIN Digits : Digits[i] = c) - 1
              ELSE 255

RECURSIVE Accumulate(_, _, _, _)
Accumulate(s, i, base, val) ==
  LET dig == DigitOf(CharAt(s, i))
  IN IF dig >= base THEN val ELSE Accumulate(s, i + 1, base, val * base + dig)

RECURSIVE Blanks(_, _)
Blanks(s, i) == IF CharAt(s, i) = " " THEN Blanks(s, i + 1) ELSE i

strtol(s, base) ==
  LET b == Blanks(s, 1)
      neg == CharAt(s, b) = "-"
      d == IF CharAt(s, b) \in {"+", "-"} THEN b + 1 ELSE b
      hex == base \in {0, 16} /\ CharAt(s, d) = "0" /\ CharAt(s, d + 1) = "x"
      oct == base = 0 /\ ~hex /\ CharAt(s, d) = "0"
      val == Accumulate(s, IF hex THEN d + 2 ELSE IF oct THEN d + 1 ELSE d,
                        IF hex THEN 16 ELSE IF oct THEN 8 ELSE IF base = 0 THEN 10 ELSE base, 0)
  IN IF neg THEN -val ELSE val

-----------------------------------------------------------------------------
(* vprintfmt.                                                               *)

Times(c, n) == [i \in 1 .. (IF n < 0 THEN 0 ELSE n) |-> c]

RECURSIVE print_num(_, _, _, _, _)
print_num(num, base, width, padc, capital) ==
  (IF num >= base THEN print_num(num \div base, base, width - 1, padc, capital)
   ELSE Times(padc, width - 1))
  \o <<(IF capital THEN Capitals ELSE Digits)[(num % base) + 1]>>

Bits(f) == IF f.lflag = 0 THEN IntBits ELSE 2 * IntBits
get_unsigned(f) == tx.num % 2 ^ Bits(f)
get_int(f) == LET u == get_unsigned(f) IN IF u >= 2 ^ (Bits(f) - 1) THEN u - 2 ^ Bits(f) ELSE u

Least2(a, b) == IF a < b THEN a ELSE b

(* strnlen takes its limit as unsigned, so that -1 is no limit.             *)
PrintString(f, ptr) ==
  LET n == IF f.precision < 0 THEN Len(ptr) ELSE Least2(f.precision, Len(ptr))
      before == IF f.width > 0 /\ f.padc # "-" THEN f.width - n ELSE 0
      width == IF f.width > 0 /\ f.padc # "-" THEN -1 ELSE f.width
  IN Times(f.padc, before) \o SubSeq(ptr, 1, n) \o Times(" ", width - n)

PrintSigned(f) ==
  LET i == get_int(f)
  IN (IF i < 0 THEN <<"-">> ELSE <<>>) \o print_num(IF i < 0 THEN -i ELSE i, 10, f.width, f.padc, FALSE)

IsDigit(c) == DigitOf(c) < 10

(* A run of digits, and of what compares less than them: only digits occur  *)
(* in the formats here.                                                     *)
RECURSIVE Number(_, _, _)
Number(fmt, i, n) ==
  IF i <= Len(fmt) /\ IsDigit(fmt[i]) THEN Number(fmt, i + 1, n * 10 + DigitOf(fmt[i]))
  ELSE [n |-> n, at |-> i]

GivePrecision(f, n) == IF f.width < 0 THEN [f EXCEPT !.width = n, !.precision = -1]
                       ELSE [f EXCEPT !.precision = n]

Conversion(f, ch) ==
  CASE ch = "s" -> PrintString(f, tx.word)
    [] ch = "d" -> PrintSigned(f)
    [] ch = "u" -> print_num(get_unsigned(f), 10, f.width, f.padc, FALSE)
    [] ch = "o" -> print_num(get_unsigned(f), 8, f.width, f.padc, FALSE)
    [] ch = "p" -> <<"0", "x">> \o print_num(tx.num % 2 ^ (2 * IntBits), 16, f.width, f.padc, FALSE)
    [] ch \in {"x", "X"} -> print_num(get_unsigned(f), 16, f.width, f.padc, ch = "X")

RECURSIVE Convert(_, _, _)
Convert(fmt, i, f) ==
  LET ch == fmt[i]
      w == Number(fmt, i, 0)
      Go(g) == Convert(fmt, i + 1, g)
  IN CASE ch \in {"0", "-"} -> Go([f EXCEPT !.padc = ch])
       [] ch = "*" -> Go(GivePrecision(f, tx.star))
       [] IsDigit(ch) /\ ch # "0" -> Convert(fmt, w.at, GivePrecision(f, w.n))
       [] ch = "." -> Go([f EXCEPT !.width = IF @ < 0 THEN 0 ELSE @])
       [] ch \in {"l", "z"} -> Go([f EXCEPT !.lflag = @ + 1])
       [] OTHER -> Conversion(f, ch)

vprintfmt(fmt) == Convert(fmt, 2, [padc |-> " ", width |-> -1, precision |-> -1, lflag |-> 0])

(* sprintputch counts every character and stores those that leave room for  *)
(* the NUL.                                                                 *)
sprintputch(s, ch) ==
  [count |-> s.count + 1, room |-> IF s.room > 0 THEN s.room - 1 ELSE 0,
   buf |-> IF s.room > 0 THEN Append(s.buf, ch) ELSE s.buf]
vsnprintf(n, fmt) ==
  LET s == FoldLeft(sprintputch, [count |-> 0, room |-> n - 1, buf |-> <<>>], vprintfmt(fmt))
  IN [count |-> s.count, buf |-> Append(s.buf, NUL)]

-----------------------------------------------------------------------------
(* The calls.                                                               *)
Fresh == [x \in Addr |-> x]
Blank == [num |-> 0, word |-> <<>>, star |-> 0, size |-> 1]

Init ==
  \/ \E f \in Formats, n \in Numbers, k \in 1 .. MaxBuffer :
       f.conv # "s" /\ tx = [Blank EXCEPT !.num = n, !.size = k] @@ [kind |-> "print", f |-> f]
  \/ \E f \in Formats, w \in Words, p \in 0 .. 2, k \in 1 .. MaxBuffer :
       f.conv = "s" /\ tx = [Blank EXCEPT !.word = w, !.star = p, !.size = k] @@ [kind |-> "print", f |-> f]
  \/ \E a, b \in Addr, n \in 0 .. Memory :
       a + n <= Memory /\ b + n <= Memory /\ tx = [kind |-> "memory", a |-> a, b |-> b, n |-> n]
  \/ \E v, w \in Words, n \in 0 .. 3 : tx = [kind |-> "string", p |-> v, q |-> w, n |-> n]

-----------------------------------------------------------------------------
(* What ISO C asks for.                                                     *)

Places(n, base) == CHOOSE k \in 1 .. 2 * IntBits : base ^ k > n /\ (k = 1 \/ base ^ (k - 1) <= n)
Numeral(n, base, D) ==
  LET k == Places(n, base) IN [i \in 1 .. k |-> D[((n \div base ^ (k - i)) % base) + 1]]

Base(f) == CASE f.conv \in {"d", "u"} -> 10 [] f.conv = "o" -> 8 [] OTHER -> 16
ArgBits(f) == IF f.long \/ f.conv = "p" THEN 2 * IntBits ELSE IntBits
Meant(f) ==
  LET u == tx.num % 2 ^ ArgBits(f)
  IN IF f.conv = "d" /\ u >= 2 ^ (ArgBits(f) - 1) THEN u - 2 ^ ArgBits(f) ELSE u
Magnitude(f) == IF Meant(f) < 0 THEN -Meant(f) ELSE Meant(f)

Filled(f, body) ==
  LET n == f.width - Len(body)
  IN IF f.left THEN body \o Times(" ", n) ELSE Times(IF f.zero THEN "0" ELSE " ", n) \o body

Wanted(f) ==
  IF f.conv = "s"
  THEN Filled(f, SubSeq(tx.word, 1, IF f.prec = "star" THEN Least2(tx.star, Len(tx.word)) ELSE Len(tx.word)))
  ELSE (IF Meant(f) < 0 THEN <<"-">> ELSE IF f.conv = "p" THEN <<"0", "x">> ELSE <<>>)
         \o Filled(f, Numeral(Magnitude(f), Base(f), IF f.conv = "X" THEN Capitals ELSE Digits))

(* A negative number in a field of some width is left out: vprintfmt puts   *)
(* the sign before the padding and does not count it.                       *)
Plain(f) == f.conv = "s" \/ f.width = 0 \/ Meant(f) >= 0

PrintRight ==
  LET f == tx.f
      text == vprintfmt(f.fmt)
      got == vsnprintf(tx.size, f.fmt)
      n == Least2(Len(text), tx.size - 1)
  IN Plain(f) =>
       /\ text = Wanted(f)
       /\ got.count = Len(text) /\ got.buf = Append(SubSeq(text, 1, n), NUL)
       /\ f.conv \in {"d", "u", "o", "x"} => strtol(text, Base(f)) = Meant(f)
       /\ f.conv = "p" => strtol(text, 0) = Meant(f)

MemoryRight ==
  LET set == memset(Fresh, tx.a, Memory, tx.n)
      moved == memmove(Fresh, tx.a, tx.b, tx.n)
      Inside(x) == x \in tx.a .. tx.a + tx.n - 1
  IN \A x \in Addr :
       /\ set[x] = IF Inside(x) THEN Memory ELSE x
       /\ moved[x] = IF Inside(x) THEN x - tx.a + tx.b ELSE x

Same(p, q, n) == \A i \in 1 .. n : (\E j \in 1 .. i - 1 : CharAt(p, j) = NUL) \/ CharAt(p, i) = CharAt(q, i)
StringRight ==
  LET copy == strlcpy(tx.p, tx.n)
  IN /\ Len(copy) <= tx.n
     /\ tx.n > 0 => copy[Len(copy)] = NUL /\ IsPrefix(SubSeq(copy, 1, Len(copy) - 1), tx.p)
     /\ tx.n > Len(tx.p) => Len(copy) = Len(tx.p) + 1
     /\ strncmp(tx.p, tx.q, 1, tx.n) = Same(tx.p, tx.q, tx.n)

(* Formats the system uses print what ISO C says, a number that is printed  *)
(* is the number strtol reads, snprintf keeps within its buffer, ends it    *)
(* and counts what it left out; memset and memmove change exactly the bytes *)
(* they are told, at every alignment and overlap; strlcpy and strncmp agree *)
(* with their definitions.                                                  *)
TextRight ==
  CASE tx.kind = "print" -> PrintRight
    [] tx.kind = "memory" -> MemoryRight
    [] tx.kind = "string" -> StringRight
=============================================================================

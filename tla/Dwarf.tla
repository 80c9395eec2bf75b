------------------------------- MODULE Dwarf -------------------------------
(***************************************************************************)
(* The kernel's reader of its own debug information: kern/dwarf.c (which   *)
(* unit and function an address belongs to, and where a function is),      *)
(* kern/dwarf_lines.c (the line number program), the LEB128 numbers of     *)
(* inc/dwarf.h, and kern/kdebug.c (debuginfo_rip, find_function).          *)
(*                                                                         *)
(* The sections are sequences of units, entries (DIEs) and attributes in   *)
(* the order the compiler wrote them; a value is a number or a name, read  *)
(* from its bytes by dwarf_read_abbrev_entry.  A machine word has          *)
(* WordBits bits, an int IntBits, and a LEB128 byte carries Group bits.    *)
(***************************************************************************)
EXTENDS Integers, Sequences, SequencesExt, FiniteSets

CONSTANTS Group, WordBits, IntBits,   \* 7, 64 and 32 in the code
          CALL_INSN_LEN, MaxSize      \* of a call, and of a function checked

VARIABLE dw              \* the input under check

----------------------------------------------------------------------------
(* LEB128: the low Group bits of a byte, more to come when it is at least   *)
(* 2^Group.  Bits shifted out of the word are lost, and bytes that come     *)
(* after a full word are skipped.                                           *)
Low(b) == b % 2^Group
More(b) == b >= 2^Group

RECURSIVE Uleb(_, _, _)
Uleb(bytes, shift, result) ==
  LET b == Head(bytes)
      r == (result + Low(b) * 2^shift) % 2^WordBits
  IN IF More(b) /\ shift + Group < WordBits THEN Uleb(Tail(bytes), shift + Group, r) ELSE r

dwarf_read_uleb128(bytes) == Uleb(bytes, 0, 0)

(* The signed form ORs -1U << shift into the word when the last byte's top  *)
(* payload bit is set.  -1U is an int: the sign reaches the int's top bit   *)
(* only, and the processor takes a shift of more than an int modulo its     *)
(* width.                                                                   *)
LastByte(bytes) ==
  LET used == {i \in 1 .. Len(bytes) : \A j \in 1 .. i - 1 :
                 More(bytes[j]) /\ j * Group < WordBits}
  IN CHOOSE i \in used : \A j \in used : j <= i

dwarf_read_leb128_unextended(bytes) == dwarf_read_uleb128(bytes)

dwarf_read_leb128(bytes) ==
  LET i == LastByte(bytes)
      w == dwarf_read_uleb128(bytes)
      s == (i * Group) % IntBits
      negative == i * Group < WordBits /\ Low(bytes[i]) >= 2^(Group - 1)
  IN IF negative
       THEN (w \div 2^IntBits) * 2^IntBits + (2^IntBits - 2^s) + (w % 2^s)
       ELSE w

(* (int)line_incr                                                           *)
CInt(w) ==
  LET n == w % 2^IntBits IN IF n >= 2^(IntBits - 1) THEN n - 2^IntBits ELSE n

(* The shortest encoding of a number, as a compiler writes it.              *)
RECURSIVE SlebOf(_)
SlebOf(n) ==
  LET low == n % 2^Group
      rest == (n - low) \div 2^Group
      last == rest = (IF low >= 2^(Group - 1) THEN -1 ELSE 0)
  IN IF last THEN <<low>> ELSE <<low + 2^Group>> \o SlebOf(rest)

----------------------------------------------------------------------------
(* dwarf_read_abbrev_entry: the value of an attribute (a number, or the     *)
(* bytes of a block or string) and the bytes it takes, from which the next  *)
(* attribute is read.                                                       *)
Base == 2^(Group + 1)
RECURSIVE Word(_, _)
Word(e, n) == IF n = 0 THEN 0 ELSE Head(e) + Base * Word(Tail(e), n - 1)

Fixed == [DW_FORM_addr |-> 8, DW_FORM_data1 |-> 1, DW_FORM_data2 |-> 2, DW_FORM_data4 |-> 4,
          DW_FORM_data8 |-> 8, DW_FORM_flag |-> 1, DW_FORM_ref1 |-> 1, DW_FORM_ref2 |-> 2,
          DW_FORM_ref4 |-> 4, DW_FORM_ref8 |-> 8, DW_FORM_ref_sig8 |-> 8]
Counted == [DW_FORM_block1 |-> 1, DW_FORM_block2 |-> 2, DW_FORM_block4 |-> 4]
Leb == {"DW_FORM_udata", "DW_FORM_ref_udata", "DW_FORM_sdata"}
Offsets == {"DW_FORM_strp", "DW_FORM_sec_offset", "DW_FORM_ref_addr"}
Forms == DOMAIN Fixed \cup DOMAIN Counted \cup Leb \cup Offsets
           \cup {"DW_FORM_block", "DW_FORM_exprloc", "DW_FORM_string", "DW_FORM_flag_present"}
Codes == [DW_FORM_data2 |-> 5, DW_FORM_indirect |-> 22]       \* numbers of two forms

LebBytes(e) == SelectInSeq(e, LAMBDA b : ~More(b))
Block(e, count, length) == [bytes |-> count + length, value |-> SubSeq(e, count + 1, count + length)]

(* A length of the 32-bit format; the extensions start at DW_EXT_LO, and    *)
(* only DW_EXT_DWARF64 is known.                                            *)
DW_EXT_LO == Base^4 - 16
dwarf_entry_len(e) ==
  LET n == Word(e, 4)
  IN CASE n < DW_EXT_LO -> [bytes |-> 4, value |-> <<n>>]
       [] n = Base^4 - 1 -> [bytes |-> 12, value |-> <<Word(SubSeq(e, 33, Len(e)), 8)>>]
       [] OTHER -> [bytes |-> 0, value |-> <<>>]

RECURSIVE dwarf_read_abbrev_entry(_, _)
dwarf_read_abbrev_entry(e, form) ==
  CASE form \in DOMAIN Fixed -> [bytes |-> Fixed[form], value |-> <<Word(e, Fixed[form])>>]
    [] form \in DOMAIN Counted -> Block(e, Counted[form], Word(e, Counted[form]))
    [] form \in {"DW_FORM_block", "DW_FORM_exprloc"} -> Block(e, LebBytes(e), dwarf_read_uleb128(e))
    [] form \in Leb \ {"DW_FORM_sdata"} -> [bytes |-> LebBytes(e), value |-> <<dwarf_read_uleb128(e)>>]
    [] form = "DW_FORM_sdata" -> [bytes |-> LebBytes(e), value |-> <<CInt(dwarf_read_leb128(e))>>]
    [] form = "DW_FORM_string" ->
         LET end == SelectInSeq(e, LAMBDA b : b = 0) IN [bytes |-> end, value |-> SubSeq(e, 1, end - 1)]
    [] form \in Offsets -> dwarf_entry_len(e)
    [] form = "DW_FORM_flag_present" -> [bytes |-> 0, value |-> <<1>>]
    [] form = "DW_FORM_indirect" ->
         LET count == LebBytes(e)
             named == CHOOSE f \in DOMAIN Codes : Codes[f] = dwarf_read_uleb128(e)
             read == dwarf_read_abbrev_entry(SubSeq(e, count + 1, Len(e)), named)
         IN [read EXCEPT !.bytes = @ + count]
    [] OTHER -> [bytes |-> 0, value |-> <<>>]

(* What a compiler writes for the number n, or for n bytes, in a form.      *)
RECURSIVE UlebOf(_)
UlebOf(n) == IF n < 2^Group THEN <<n>> ELSE <<(n % 2^Group) + 2^Group>> \o UlebOf(n \div 2^Group)
Padded(n, size) == [i \in 1 .. size |-> IF i = 1 THEN n ELSE 0]
Body(n) == [i \in 1 .. n |-> i]

Encoded(form, n) ==
  CASE form \in DOMAIN Fixed -> Padded(n, Fixed[form])
    [] form \in DOMAIN Counted -> Padded(n, Counted[form]) \o Body(n)
    [] form \in {"DW_FORM_block", "DW_FORM_exprloc"} -> UlebOf(n) \o Body(n)
    [] form \in Leb \ {"DW_FORM_sdata"} -> UlebOf(n)
    [] form = "DW_FORM_sdata" -> SlebOf(n)
    [] form = "DW_FORM_string" -> Body(n) \o <<0>>
    [] form \in Offsets -> Padded(n, 4)
    [] form = "DW_FORM_flag_present" -> <<>>
    [] form = "DW_FORM_indirect" -> UlebOf(Codes["DW_FORM_data2"]) \o Padded(n, 2)

Meant(form, n) ==
  CASE form \in DOMAIN Counted \cup {"DW_FORM_block", "DW_FORM_exprloc", "DW_FORM_string"} -> Body(n)
    [] form = "DW_FORM_flag_present" -> <<1>>
    [] OTHER -> <<n>>

----------------------------------------------------------------------------
(* The attributes of an entry, read in their order: an end given as a       *)
(* length (any form but DW_FORM_addr) is added to the start read so far.    *)
RECURSIVE Attributes(_, _)
Attributes(attrs, die) ==
  IF attrs = <<>> THEN die
  ELSE LET a == Head(attrs)
       IN Attributes(Tail(attrs),
            CASE a.name = "DW_AT_low_pc" -> [die EXCEPT !.low = a.num]
              [] a.name = "DW_AT_high_pc" ->
                   [die EXCEPT !.high = IF a.form = "DW_FORM_addr" THEN a.num ELSE a.num + die.low]
              [] a.name = "DW_AT_name" -> [die EXCEPT !.name = a.str]
              [] a.name = "DW_AT_stmt_list" -> [die EXCEPT !.line = a.num]
              [] OTHER -> die)

Read(die) == Attributes(die.attrs, [low |-> 0, high |-> 0, name |-> "", line |-> 0])

(* The position of the first member that passes, or 0: every search below   *)
(* walks its section and stops at the first hit.                            *)
First(s, Test(_)) == SelectInSeq(s, Test)

(* info_by_address_debug_aranges tests a count it never sets, so it fails   *)
(* on the first set whatever the section holds, and info_by_address always  *)
(* goes on to .debug_info, where the first unit whose bounds hold the       *)
(* address, its end included, is taken.                                     *)
info_by_address(info, p) ==
  First(info, LAMBDA cu : LET u == Read(cu.die) IN u.low <= p /\ p <= u.high)

(* function_by_info: the first subprogram of the unit that holds p.         *)
function_by_info(cu, p) ==
  First(cu.dies, LAMBDA d : /\ d.tag = "DW_TAG_subprogram"
                            /\ Read(d).low <= p /\ p <= Read(d).high)

(* address_by_fname: .debug_pubnames leads to the entry, whose start counts *)
(* only if it is a subprogram; 0 stands for both "not listed" and "listed,  *)
(* no address", which find_function treats alike.                           *)
address_by_fname(info, pubnames, fname) ==
  LET i == First(pubnames, LAMBDA e : e.name = fname)
  IN IF i = 0 THEN 0
     ELSE LET d == info[pubnames[i].cu].dies[pubnames[i].die]
          IN IF d.tag = "DW_TAG_subprogram" THEN Read(d).low ELSE 0

(* naive_address_by_fname walks every entry of every unit and takes the     *)
(* first subprogram or label of that name, even one without an address.     *)
naive_address_by_fname(info, fname) ==
  LET all == FlattenSeq([i \in DOMAIN info |-> info[i].dies])
      i == First(all, LAMBDA d : /\ d.tag \in {"DW_TAG_subprogram", "DW_TAG_label"}
                                 /\ Read(d).name = fname)
  IN IF i = 0 THEN 0 ELSE Read(all[i]).low

find_function(info, pubnames, fname) ==
  LET listed == address_by_fname(info, pubnames, fname)
  IN IF listed # 0 THEN listed ELSE naive_address_by_fname(info, fname)

----------------------------------------------------------------------------
(* run_line_number_program.  st is the current row, last the row kept from  *)
(* before, which the code leaves uninitialized until the first row.         *)
FreshRow == [address |-> 0, line |-> 1]

Covers(last, st, p) == last.address <= p /\ p < st.address

RowOps == {"copy", "special", "end_sequence"}

RECURSIVE RunLines(_, _, _, _)
RunLines(program, st, last, p) ==
  IF program = <<>> THEN st
  ELSE LET op == Head(program)
           moved == CASE op.op = "set_address" -> [st EXCEPT !.address = op.pc]
                      [] op.op = "advance_pc" -> [st EXCEPT !.address = @ + op.pc]
                      [] op.op = "advance_line" -> [st EXCEPT !.line = @ + op.line]
                      [] op.op = "special" ->
                           [st EXCEPT !.address = @ + op.pc, !.line = @ + op.line]
                      [] OTHER -> st
       IN CASE op.op \in RowOps /\ Covers(last, moved, p) -> last
            [] op.op = "end_sequence" /\ ~Covers(last, moved, p) ->
                 RunLines(Tail(program), FreshRow, moved, p)
            [] op.op \in RowOps \ {"end_sequence"} /\ ~Covers(last, moved, p) ->
                 RunLines(Tail(program), moved, moved, p)
            [] OTHER -> RunLines(Tail(program), moved, last, p)

line_for_address(program, p, garbage) == RunLines(program, FreshRow, garbage, p).line

(* debuginfo_rip: the unit is looked up for the address itself, the line    *)
(* and the function for the call in front of it.                            *)
debuginfo_rip(info, lines, addr, garbage) ==
  LET i == info_by_address(info, addr)
  IN IF i = 0 THEN [file |-> "<unknown>", fn |-> "<unknown>", fn_addr |-> addr, line |-> 0]
     ELSE LET u == Read(info[i].die)
              p == addr - CALL_INSN_LEN
              d == function_by_info(info[i], p)
          IN [file |-> u.name,
              fn |-> IF d = 0 THEN u.name ELSE Read(info[i].dies[d]).name,
              fn_addr |-> IF d = 0 THEN addr ELSE Read(info[i].dies[d]).low,
              line |-> line_for_address(lines[u.line], p, garbage)]

----------------------------------------------------------------------------
(* A program to look things up in: unit "a" with the functions f and g and  *)
(* unit "b" with h, laid out upwards with "gap" unused bytes between them,  *)
(* a variable and the entry of a label between the functions, f's first     *)
(* line 5 and every other row two bytes on.                                 *)
Attr(name, form, num, str) == [name |-> name, form |-> form, num |-> num, str |-> str]

Bounds(low, size, form) ==
  <<Attr("DW_AT_low_pc", "DW_FORM_addr", low, ""),
    Attr("DW_AT_high_pc", form, IF form = "DW_FORM_addr" THEN low + size ELSE size, "")>>

Entry(tag, name, attrs) ==
  [tag |-> tag, attrs |-> <<Attr("DW_AT_name", "DW_FORM_strp", 0, name)>> \o attrs]

Start(in, f) ==
  CASE f = 1 -> 8
    [] f = 2 -> 8 + in.size[1] + in.gap
    [] f = 3 -> 8 + in.size[1] + in.size[2] + 2 * in.gap
Stop(in, f) == Start(in, f) + in.size[f]
Names == <<"f", "g", "h">>

Function(in, f) ==
  Entry("DW_TAG_subprogram", Names[f], Bounds(Start(in, f), in.size[f], in.form))

Unit(in, name, line, fs) ==
  [die |-> Entry("DW_TAG_compile_unit", name,
             <<Attr("DW_AT_stmt_list", "DW_FORM_sec_offset", line, "")>>
             \o Bounds(Start(in, Head(fs)), Stop(in, Last(fs)) - Start(in, Head(fs)), in.form)),
   dies |-> <<Entry("DW_TAG_variable", "h", <<>>)>>
            \o [i \in DOMAIN fs |-> Function(in, fs[i])]
            \o <<Entry("DW_TAG_label", "exit", Bounds(Start(in, Last(fs)) + 1, 0, in.form))>>]

Info(in) == <<Unit(in, "a", 1, <<1, 2>>), Unit(in, "b", 2, <<3>>)>>

(* A row every two bytes, each one line further; every other one written    *)
(* as a special opcode.                                                     *)
RowLine(from, x) == 5 + (x - from) \div 2

Op(op, pc, line) == [op |-> op, pc |-> pc, line |-> line]

Rows(from, to) ==
  <<Op("set_address", from, 0), Op("advance_line", 0, 4), Op("copy", 0, 0)>>
  \o FlattenSeq([i \in 1 .. (to - 1 - from) \div 2 |->
        IF i % 2 = 0 THEN <<Op("special", 2, 1)>>
        ELSE <<Op("advance_pc", 2, 0), Op("set_column", 0, 0), Op("advance_line", 0, 1),
               Op("copy", 0, 0)>>])
  \o <<Op("advance_pc", to - from - 2 * ((to - 1 - from) \div 2), 0),
       Op("end_sequence", 0, 0)>>

Lines(in) == <<Rows(Start(in, 1), Stop(in, 2)), Rows(Start(in, 3), Stop(in, 3))>>

Init ==
  \/ \E n \in -(2^(2 * Group - 1)) .. 2^(2 * Group - 1) - 1 : dw = [kind |-> "leb", n |-> n]
  \/ \E f \in Forms \cup {"DW_FORM_indirect"}, n \in {2, 9}, g \in Forms :
       dw = [kind |-> "form", form |-> f, n |-> n, after |-> g]
  \/ \E size \in [1 .. 3 -> CALL_INSN_LEN + 1 .. MaxSize], gap \in 0 .. 2,
        form \in {"DW_FORM_addr", "DW_FORM_data4"}, f \in 1 .. 3, at \in 1 .. MaxSize,
        garbage \in {0, 99}, listed \in BOOLEAN :
       /\ at + CALL_INSN_LEN <= size[f]
       /\ dw = [kind |-> "call", size |-> size, gap |-> gap, form |-> form, f |-> f,
                at |-> at, garbage |-> [address |-> garbage, line |-> 77], listed |-> listed]

(* A backtrace names the caller: for a call anywhere in a function but at   *)
(* its first byte, debuginfo_rip gives the file, the function, its start    *)
(* and the line of the call from the return address, wherever functions and *)
(* units touch, however their ends are written, and whatever                *)
(* run_line_number_program found in its uninitialized last_state; and       *)
(* find_function finds each of them, in .debug_pubnames or without it.      *)
(* Line steps and other signed numbers survive their LEB128 form, and every *)
(* form is read and stepped over as it was written, so that the attribute   *)
(* after it is found.                                                       *)
CallerNamed ==
  CASE dw.kind = "leb" -> CInt(dwarf_read_leb128(SlebOf(dw.n))) = dw.n
    [] dw.kind = "form" ->
         dwarf_read_abbrev_entry(Encoded(dw.form, dw.n) \o Encoded(dw.after, dw.n), dw.form)
           = [bytes |-> Len(Encoded(dw.form, dw.n)), value |-> Meant(dw.form, dw.n)]
    [] dw.kind = "call" ->
       LET call == Start(dw, dw.f) + dw.at
           first == IF dw.f = 3 THEN 3 ELSE 1
           pubnames == IF dw.listed
                         THEN <<[name |-> "f", cu |-> 1, die |-> 2],
                                [name |-> "g", cu |-> 1, die |-> 3],
                                [name |-> "exit", cu |-> 2, die |-> 3],
                                [name |-> "h", cu |-> 2, die |-> 2]>>
                         ELSE <<>>
       IN /\ debuginfo_rip(Info(dw), Lines(dw), call + CALL_INSN_LEN, dw.garbage)
               = [file |-> IF dw.f = 3 THEN "b" ELSE "a", fn |-> Names[dw.f],
                  fn_addr |-> Start(dw, dw.f), line |-> RowLine(Start(dw, first), call)]
          /\ find_function(Info(dw), pubnames, Names[dw.f]) = Start(dw, dw.f)
          /\ find_function(Info(dw), pubnames, "exit") = Start(dw, 2) + 1
=============================================================================

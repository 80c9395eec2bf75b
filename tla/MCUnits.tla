------------------------------- MODULE MCUnits -------------------------------
(***************************************************************************)
(* Parts of the kernel and of what it is built with, each checked by       *)
(* itself in one run: a behaviour is a behaviour of one of them, named by  *)
(* part, in the variable st; Tcp and Alloc, which this module extends,     *)
(* have variables of their own.                                            *)
(***************************************************************************)
EXTENDS Tcp, Alloc, Integers, Sequences

VARIABLES part, st

Sum == INSTANCE Checksum WITH ck <- st, B <- 4, HdrLen <- 4, BodyLens <- {2, 3, 4, 5},
         Echo <- 2, HostPort <- 5

Buf == INSTANCE HttpBuffer WITH hb <- st, Window <- 7, MaxLen <- 3, MaxAnswers <- 2

Load == INSTANCE Loader WITH ld <- st, Debug <- <<"abbrev", "line">>,
          Sections <- <<"text", "abbrev", "line">>, Segments <- 2

Ub == INSTANCE Ubsan WITH ub <- st, Contexts <- {1, 2}, Logs <- {1, 2}

Shadowed ==
  <<[beg |-> 0, size |-> 5, size_with_redzone |-> 12], [beg |-> 12, size |-> 4, size_with_redzone |-> 8]>>
As == INSTANCE Asan WITH as <- st, SHADOW_ALIGN <- 4, Globals <- Shadowed, ImageEnd <- 20,
        PAGE_SIZE <- 8, StackSize <- 16

Dw == INSTANCE Dwarf WITH dw <- st, Group <- 3, WordBits <- 16, IntBits <- 8,
        CALL_INSN_LEN <- 2, MaxSize <- 5

Con == INSTANCE Console WITH con <- st, CONSBUFSIZE <- 3, BUFLEN <- 4, crt_rows <- 2,
         crt_cols <- 2, TABW <- 3, SerialBytes <- {0, 127, 98}, MaxInput <- 4

Irq == INSTANCE Interrupts WITH ic <- st, Timer <- "hpet0"

(* Days on which months, years and leap days begin and end.                 *)
Dates ==
  {[year |-> y, mon |-> m[1], mday |-> m[2]] :
     y \in {1971, 1999, 2000, 2004, 2024, 2037}, m \in {<<11, 31>>, <<1, 28>>, <<8, 30>>}}
Clk == INSTANCE Clock WITH clk <- st, MINUTE <- 2, HOUR <- 4, DAY <- 8, Moments <- Dates

(* Two buses, and cards with 32-bit, 64-bit, I/O and absent registers.      *)
Bar(k, s, a) == [kind |-> k, size |-> s, addr |-> a]
Slots == {<<0, 0, 0>>, <<0, 0, 1>>, <<0, 1, 0>>, <<1, 0, 0>>, <<1, 1, 1>>}
Cards ==
  {<<Bar("mem32", 32, 64), Bar("io", 8, 40), Bar("none", 0, 0)>>,
   <<Bar("mem64", 64, 128), Bar("mem64hi", 1, 3), Bar("io", 4, 0)>>,
   <<Bar("none", 0, 0), Bar("mem32", 16, 240), Bar("mem64", 32, 0)>>}
Bus == INSTANCE Pci WITH pci <- st, Places <- Slots, Layouts <- Cards, Devices <- 2,
         Functions <- 2, Width <- 8

(* Formats the system prints with, and what they ask for.                   *)
Number(fmt, conv, width, zero, long) ==
  [fmt |-> fmt, conv |-> conv, width |-> width, zero |-> zero, left |-> FALSE, long |-> long, prec |-> ""]
String(fmt, width, prec) ==
  [fmt |-> fmt, conv |-> "s", width |-> width, zero |-> FALSE, left |-> TRUE, long |-> FALSE, prec |-> prec]
UsedFormats ==
  {Number(<<"%", "d">>, "d", 0, FALSE, FALSE), Number(<<"%", "l", "d">>, "d", 0, FALSE, TRUE),
   Number(<<"%", "z", "u">>, "u", 0, FALSE, TRUE), Number(<<"%", "0", "3", "d">>, "d", 3, TRUE, FALSE),
   Number(<<"%", "1", "1", "d">>, "d", 11, FALSE, FALSE), Number(<<"%", "0", "8", "x">>, "x", 8, TRUE, FALSE),
   Number(<<"%", "0", "2", "x">>, "x", 2, TRUE, FALSE), Number(<<"%", "0", "4", "l", "X">>, "X", 4, TRUE, TRUE),
   Number(<<"%", "6", "l", "x">>, "x", 6, FALSE, TRUE), Number(<<"%", "o">>, "o", 0, FALSE, FALSE),
   Number(<<"%", "p">>, "p", 0, FALSE, FALSE),
   String(<<"%", "s">>, 0, ""), String(<<"%", ".", "*", "s">>, 0, "star"), String(<<"%", "-", "3", "s">>, 3, "")}
Txt == INSTANCE Text WITH tx <- st, WORD <- 4, Memory <- 14, IntBits <- 8, Formats <- UsedFormats,
         Numbers <- (-130 .. 260) \cup {4095, 4096, 32767, 32768, 65535},
         Words <- UNION {[1 .. n -> {"a", "b"}] : n \in 0 .. 4}, MaxBuffer <- 4

UnitInit ==
  \/ part = "checksum" /\ Sum!Init
  \/ part = "buffer" /\ Buf!Init
  \/ part = "loader" /\ Load!Init
  \/ part = "ubsan" /\ Ub!Init
  \/ part = "asan" /\ As!Init
  \/ part = "dwarf" /\ Dw!Init
  \/ part = "console" /\ Con!Init
  \/ part = "interrupts" /\ Irq!Init
  \/ part = "clock" /\ Clk!Init
  \/ part = "pci" /\ Bus!Init
  \/ part = "text" /\ Txt!Init

UnitsInit == Init /\ HeapInit /\ (UnitInit \/ (part \in {"tcp", "alloc"} /\ st = 0))

UnitNext ==
  \/ part = "checksum" /\ Sum!Next
  \/ part = "buffer" /\ Buf!Next
  \/ part = "loader" /\ Load!Next
  \/ part = "ubsan" /\ Ub!Next
  \/ part = "asan" /\ As!Next
  \/ part = "console" /\ Con!Next
  \/ part = "interrupts" /\ Irq!Next
  \/ part = "clock" /\ Clk!Next

UnitsNext ==
  \/ UnitNext /\ UNCHANGED <<part, vars, heapVars>>
  \/ part = "tcp" /\ Next /\ UNCHANGED <<part, st, heapVars>>
  \/ part = "alloc" /\ HeapNext /\ UNCHANGED <<part, st, vars>>

UnitsSpec == UnitsInit /\ [][UnitsNext]_<<part, st, vars, heapVars>>

-----------------------------------------------------------------------------
(* IP headers that are sent carry the right checksum, received ones are     *)
(* accepted exactly when theirs is right, and patched checksums are wrong   *)
(* only when the patch wraps (ip_checksum, icmp_echo_reply, tcp_send).      *)
ChecksumsRight == part = "checksum" => Sum!ChecksumsRight

(* A request is answered as its words deserve, however it was cut into      *)
(* segments and whatever the buffer held before (tcp_process, http_parse).  *)
AnswersRequest == part = "buffer" => Buf!AnswersRequest

(* The kernel that the boot loader enters finds its image, its sections and *)
(* its memory (LoadKernel, TransitionToKernelMode).                         *)
KernelFindsItsMemory == part = "loader" => Load!KernelFindsItsMemory

(* A place is reported once and the reason given is true (is_already_       *)
(* reported and the handlers in llvm/ubsan/ubsan.c).                        *)
ReportsRight == part = "ubsan" => Ub!ReportedOnce /\ Ub!ReasonIsTrue

(* An access is reported exactly when it touches a byte nobody may touch    *)
(* (asan_internal_check_range).                                             *)
VerdictRight == part = "asan" => As!VerdictRight

(* A backtrace names the file, line and function of a call (debuginfo_rip). *)
CallerNamed == part = "dwarf" => Dw!CallerNamed

(* Keys that are pressed come out of the console as typed (kbd_proc_data,   *)
(* cons_intr, cons_getc).                                                   *)
KeysKept == part = "console" => Con!KeysKept

(* The line being edited is the line on the screen (readline, fb_putc).     *)
LineOnScreen == part = "console" => Con!LineOnScreen

(* The interrupts of the scheduling timer get through (trap_dispatch).      *)
TicksGetThrough == part = "interrupts" => Irq!TicksGetThrough

(* gettime returns a time the clock showed during the call (kern/kclock.c). *)
TimeWasShown == part = "clock" => Clk!TimeWasShown

(* Every network card is found once and left as it was (kern/pci.c).        *)
CardsAttached == part = "pci" => Bus!CardsAttached

(* Printing, reading and copying agree with ISO C (lib/string.c,            *)
(* lib/printfmt.c).                                                         *)
TextRight == part = "text" => Txt!TextRight
=============================================================================

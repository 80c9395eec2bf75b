----------------------------- MODULE Interrupts -----------------------------
(***************************************************************************)
(* Interrupts on their way to the kernel: the two 8259A controllers as     *)
(* kern/picirq.c programs them, the devices that raise the lines, the boot *)
(* sequence that unmasks them (kern/init.c, kern/console.c, kern/timer.c,  *)
(* kern/kclock.c), and trap_dispatch with its handlers (kern/trap.c).      *)
(*                                                                         *)
(* A controller does not deliver a line while one of the same or a higher  *)
(* priority is in service; lower numbers are higher priorities, and the    *)
(* second controller sits on line 2 of the first.  An interrupt is taken   *)
(* in user mode; the kernel, its handlers and its monitor run with         *)
(* interrupts off.                                                         *)
(***************************************************************************)
EXTENDS Integers, Sequences, FiniteSets

CONSTANT Timer      \* the timer i386_init schedules with: "hpet0"

VARIABLE ic
\* cpu   : "boot", "user", "monitor" or "panic"
\* boot  : calls of i386_init still to come
\* mask  : irq_mask_8259A
\* ready : pic_initilalized
\* imr   : masked lines of the controllers
\* irr   : lines that ask for an interrupt
\* isr   : lines in service
\* sched : timer_for_schedule
\* pie   : the RTC has been told to interrupt (RTC_PIE)
\* pf    : register C of the RTC holds an interrupt nobody has read
\* legrt : the HPET drives lines 0 and 8 (HPET_LEG_RT_CNF)
\* died  : environments destroyed by an interrupt nobody handles

IRQ_TIMER == 0
IRQ_KBD == 1
IRQ_SLAVE == 2
IRQ_SERIAL == 4
IRQ_CLOCK == 8
IRQ_IDE == 14
Devices == {IRQ_TIMER, IRQ_KBD, IRQ_SERIAL, IRQ_CLOCK, IRQ_IDE}
Lines == Devices \cup {IRQ_SLAVE}

(* The line of the first controller that a line arrives on, and the order.  *)
Master(l) == IF l > 7 THEN IRQ_SLAVE ELSE l
Above(l) == {k \in Lines : Master(k) < Master(l) \/ (k > 7 /\ l > 7 /\ k < l)}

-----------------------------------------------------------------------------
(* kern/picirq.c                                                            *)

set_irq_mask(s, m) == [s EXCEPT !.imr = m]

pic_init(s) ==
  LET off == [set_irq_mask(s, Lines) EXCEPT !.isr = {}, !.irr = {}, !.ready = TRUE]
  IN IF s.mask # Lines THEN set_irq_mask(off, s.mask) ELSE off

pic_irq_unmask(s, l) ==
  LET t == [s EXCEPT !.mask = @ \ {l}]
  IN IF s.ready THEN set_irq_mask(t, t.mask) ELSE t

(* An end of interrupt names no line: it ends the one of highest priority   *)
(* that the controller has in service.                                      *)
EndHighest(S) == {l \in S : \E k \in S : k < l}
pic_send_eoi(s, l) ==
  LET second == IF l > 7 THEN EndHighest({k \in s.isr : k > 7}) ELSE {k \in s.isr : k > 7}
  IN [s EXCEPT !.isr = EndHighest({k \in s.isr : k <= 7}) \cup second]

-----------------------------------------------------------------------------
(* Timers.                                                                  *)

cmos_read8(s, reg) == IF reg = "C" THEN [s EXCEPT !.pf = FALSE] ELSE s
cmos_write8(s, reg) == IF reg = "B" THEN [s EXCEPT !.pie = TRUE] ELSE s
rtc_timer_init(s) ==
  cmos_write8(cmos_read8(cmos_write8(cmos_read8(s, "A"), "A"), "B"), "B")
rtc_check_status(s) == cmos_read8(s, "C")

rtc_timer_pic_interrupt(s) == pic_irq_unmask(s, IRQ_CLOCK)
rtc_timer_pic_handle(s) == pic_send_eoi(rtc_check_status(s), IRQ_CLOCK)

hpet_enable_interrupts_tim0(s) == pic_irq_unmask([s EXCEPT !.legrt = TRUE], IRQ_TIMER)
hpet_enable_interrupts_tim1(s) == pic_irq_unmask([s EXCEPT !.legrt = TRUE], IRQ_CLOCK)
hpet_handle_interrupts_silent(s) == s
hpet_handle_interrupts_tim0(s) == pic_send_eoi(s, IRQ_TIMER)
hpet_handle_interrupts_tim1(s) == pic_send_eoi(s, IRQ_CLOCK)

timers_init(s) == rtc_timer_init(s)

timers_schedule(s, name) ==
  LET t == [s EXCEPT !.sched = name]
  IN CASE name = "rtc" -> rtc_timer_pic_interrupt(t)
       [] name = "hpet0" -> hpet_enable_interrupts_tim0(t)
       [] name = "hpet1" -> hpet_enable_interrupts_tim1(t)
       [] OTHER -> [s EXCEPT !.cpu = "panic"]

handle_interrupts(s) ==
  CASE s.sched = "rtc" -> rtc_timer_pic_handle(s)
    [] s.sched = "hpet0" -> hpet_handle_interrupts_tim0(s)
    [] OTHER -> hpet_handle_interrupts_tim1(s)

-----------------------------------------------------------------------------
(* The boot sequence, in the order of i386_init.                            *)

serial_init(s, exists) == IF exists THEN pic_irq_unmask(s, IRQ_SERIAL) ELSE s
kbd_init(s) == pic_irq_unmask(s, IRQ_KBD)

i386_init == <<"serial", "kbd", "pic", "timers", "schedule">>

Init ==
  ic = [cpu |-> "boot", boot |-> i386_init, mask |-> Lines \ {IRQ_SLAVE}, ready |-> FALSE,
        imr |-> Lines, irr |-> {}, isr |-> {}, sched |-> "none",
        pie |-> FALSE, pf |-> FALSE, legrt |-> FALSE, died |-> 0]

Boot ==
  /\ ic.cpu = "boot" /\ ic.boot # <<>>
  /\ LET s == [ic EXCEPT !.boot = Tail(@)]
     IN \/ Head(ic.boot) = "serial" /\ \E exists \in BOOLEAN : ic' = serial_init(s, exists)
        \/ Head(ic.boot) = "kbd" /\ ic' = kbd_init(s)
        \/ Head(ic.boot) = "pic" /\ ic' = pic_init(s)
        \/ Head(ic.boot) = "timers" /\ ic' = timers_init(s)
        \/ Head(ic.boot) = "schedule" /\ ic' = timers_schedule(s, Timer)

(* sched_yield: an environment runs, or there is none and sched_halt goes   *)
(* to the monitor for good.                                                 *)
sched_yield(s) == {[s EXCEPT !.cpu = c] : c \in {"user", "monitor"}}
FirstRun == ic.cpu = "boot" /\ ic.boot = <<>> /\ ic' \in sched_yield(ic)

-----------------------------------------------------------------------------
(* A device asks.  The RTC asks again only when register C has been read,   *)
(* and not at all once the HPET has taken its line.                         *)
Raise(l) ==
  /\ l \notin ic.irr
  /\ \/ l \in Devices \ {IRQ_CLOCK} /\ ic' = [ic EXCEPT !.irr = @ \cup {l}]
     \/ l = IRQ_CLOCK /\ ic.legrt /\ ic' = [ic EXCEPT !.irr = @ \cup {l}]
     \/ /\ l = IRQ_CLOCK /\ ~ic.legrt /\ ic.pie /\ ~ic.pf
        /\ ic' = [ic EXCEPT !.irr = @ \cup {l}, !.pf = TRUE]

Masked(s, l) == l \in s.imr \/ Master(l) \in s.imr
Held(s, l) == \E k \in s.isr : k \in Above(l) \cup {l, Master(l)}
Pending(l) == l \in ic.irr /\ ~Masked(ic, l) /\ ~Held(ic, l)

(* The handlers.  Neither that of the keyboard nor that of the serial line  *)
(* ends its interrupt.                                                      *)
trap_dispatch(s, l) ==
  CASE l \in {IRQ_TIMER, IRQ_CLOCK} -> sched_yield(handle_interrupts(s))
    [] l \in {IRQ_KBD, IRQ_SERIAL} -> sched_yield(s)
    [] OTHER -> sched_yield([s EXCEPT !.died = 1])      \* env_destroy(curenv)

Deliver(l) ==
  /\ ic.cpu = "user" /\ Pending(l)
  /\ \A k \in Above(l) : ~Pending(k)
  /\ ic' \in trap_dispatch([ic EXCEPT !.irr = @ \ {l}, !.isr = @ \cup {l, Master(l)}], l)

Next == Boot \/ FirstRun \/ \E l \in Lines : Raise(l) \/ Deliver(l)

-----------------------------------------------------------------------------
(* Once environments run, the scheduling timer gets through whatever other  *)
(* devices do: its line is unmasked and nothing in service holds it back,   *)
(* although the handlers of keyboard and serial line leave their interrupts *)
(* in service for ever; and no line without a handler in trap_dispatch is   *)
(* ever delivered, which would destroy the environment that happens to run. *)
TicksGetThrough ==
  /\ ic.cpu = "user" =>
       LET line == IF ic.sched = "hpet0" THEN IRQ_TIMER ELSE IRQ_CLOCK
       IN ~Masked(ic, line) /\ ~Held(ic, line)
  /\ ic.cpu # "panic" /\ ic.died = 0
=============================================================================

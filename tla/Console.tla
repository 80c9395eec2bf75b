------------------------------- MODULE Console -------------------------------
(***************************************************************************)
(* The console, from the keys to the line a program reads and back to the  *)
(* screen: kern/console.c (scan codes, the serial port, the circular input *)
(* buffer, the framebuffer), sys_cgetc and sys_cputs, lib/console.c (the   *)
(* console as a file) and lib/readline.c.                                  *)
(*                                                                         *)
(* "con" is the state: the bytes waiting in the keyboard controller and in *)
(* the serial port, the modifier keys, the buffer with its two positions,  *)
(* the screen with its cursor, and the line being read.  The keyboard has  *)
(* a few keys, enough for every kind of code; characters are their ASCII   *)
(* codes.  Ghosts: "entered", the characters put into the buffer so far    *)
(* and not yet read, "down", the modifier keys that are down, and          *)
(* "overrun".                                                              *)
(***************************************************************************)
EXTENDS Integers, Sequences, SequencesExt

CONSTANTS CONSBUFSIZE, BUFLEN,   \* the input buffer, and readline's
          crt_rows, crt_cols, TABW,
          SerialBytes, MaxInput  \* bytes the serial port may get, inputs in all

VARIABLE con

crt_size == crt_rows * crt_cols
BS == 8
NL == 10
CR == 13
EOT == 4
SPACE == 32
DEL == 127

----------------------------------------------------------------------------
(* The framebuffer.  A character drawn outside of it is lost on the screen. *)
Draw(c, pos, ch) == IF pos < crt_size THEN [c EXCEPT !.screen = [@ EXCEPT ![pos] = ch]] ELSE c

RowUp(c) ==
  [c EXCEPT !.screen = [p \in 0 .. crt_size - 1 |->
                          IF p + crt_cols < crt_size THEN c.screen[p + crt_cols] ELSE SPACE],
            !.pos = @ - crt_cols, !.home = @ - crt_cols]

ScrollLate(c) == IF c.pos > crt_size THEN RowUp(c) ELSE c

Scroll(c) == IF c.pos >= crt_size THEN RowUp(c) ELSE c

RECURSIVE fb_putc(_, _)
fb_putc(c, ch) ==
  LET moved ==
        CASE ch = BS -> IF c.pos > 0 THEN [Draw(c, c.pos - 1, SPACE) EXCEPT !.pos = c.pos - 1] ELSE c
          [] ch = NL -> [c EXCEPT !.pos = c.pos + crt_cols - (c.pos % crt_cols)]
          [] ch = CR -> [c EXCEPT !.pos = c.pos - (c.pos % crt_cols)]
          [] ch = 9  -> FoldLeft(fb_putc, c, [i \in 1 .. TABW |-> SPACE])
          [] OTHER   -> [Draw(c, c.pos, ch) EXCEPT !.pos = c.pos + 1]
  IN Scroll(moved)

(* cons_putc, behind cputchar and sys_cputs: the code is cut to 7 bits.     *)
cons_putc(c, ch) == fb_putc(c, ch % 128)

----------------------------------------------------------------------------
(* The keyboard: the modifiers each code stands for (with 128 added after   *)
(* an E0 byte), and what the keys used here give in each of the maps.       *)
E0 == 224
shiftcode(data) ==
  CASE data \in {29, 157} -> {"CTL"}
    [] data \in {42, 54} -> {"SHIFT"}
    [] data \in {56, 184} -> {"ALT"}
    [] OTHER -> {}
togglecode(data) == IF data = 58 THEN {"CAPSLOCK"} ELSE {}

KeyMap == [normal |-> [k \in {30, 32, 14, 28, 156} |->
                         CASE k = 30 -> 97 [] k = 32 -> 100 [] k = 14 -> BS [] OTHER -> NL],
           shift  |-> [k \in {30, 32, 14, 28, 156} |->
                         CASE k = 30 -> 65 [] k = 32 -> 68 [] k = 14 -> BS [] OTHER -> NL],
           ctl    |-> [k \in {30, 32, 28} |-> CASE k = 30 -> 1 [] k = 32 -> EOT [] OTHER -> CR]]

CharCode(shift, data) ==
  LET map == CASE "CTL" \in shift -> KeyMap.ctl
               [] "CTL" \notin shift /\ "SHIFT" \in shift -> KeyMap.shift
               [] OTHER -> KeyMap.normal
      ch == IF data \in DOMAIN map THEN map[data] ELSE 0
  IN CASE "CAPSLOCK" \in shift /\ ch \in 97 .. 122 -> ch - 32
       [] "CAPSLOCK" \in shift /\ ch \in 65 .. 90 -> ch + 32
       [] OTHER -> ch

Xor(s, t) == (s \ t) \cup (t \ s)

(* kbd_proc_data on one byte: the new modifiers and the character, 0 when   *)
(* it completes none.                                                       *)
Key(shift, ch) == [shift |-> shift, ch |-> ch]

KbdReleaseKeepsEscape(shift, byte) ==
  LET data == IF "E0ESC" \in shift THEN byte ELSE byte - 128
  IN Key(shift \ shiftcode(data), 0)

KbdRelease(shift, byte) ==
  LET data == IF "E0ESC" \in shift THEN byte ELSE byte - 128
  IN Key(shift \ (shiftcode(data) \cup {"E0ESC"}), 0)

KbdPress(shift, byte) ==
  LET data == IF "E0ESC" \in shift THEN byte + 128 ELSE byte
      now == Xor((shift \ {"E0ESC"}) \cup shiftcode(data), togglecode(data))
  IN Key(now, CharCode(now, data))

kbd_proc_data(shift, byte) ==
  CASE byte = E0 -> Key(shift \cup {"E0ESC"}, 0)
    [] byte # E0 /\ byte >= 128 -> KbdRelease(shift, byte)
    [] OTHER -> KbdPress(shift, byte)

----------------------------------------------------------------------------
(* cons_intr: one character into the circular buffer; 0 is dropped, and     *)
(* nothing checks that the buffer is full.                                  *)
Store(c, ch) ==
  IF ch = 0 THEN c
  ELSE [c EXCEPT !.buf = [@ EXCEPT ![c.wpos] = ch],
                 !.wpos = IF c.wpos + 1 = CONSBUFSIZE THEN 0 ELSE c.wpos + 1,
                 !.entered = Append(@, ch),
                 !.overrun = @ \/ Len(c.entered) + 1 >= CONSBUFSIZE]

StoreKey(c, byte) ==
  LET k == kbd_proc_data(c.shift, byte) IN Store([c EXCEPT !.shift = k.shift], k.ch)

kbd_intr(c) == [FoldLeft(StoreKey, c, c.kbd) EXCEPT !.kbd = <<>>]
serial_intr(c) == [FoldLeft(Store, c, c.serial) EXCEPT !.serial = <<>>]

(* cons_getc: polls both devices, then takes the next character, 0 if none. *)
Polled(c) == kbd_intr(serial_intr(c))
Waiting(c) == c.rpos # c.wpos
Taken(c) == [c EXCEPT !.rpos = (@ + 1) % CONSBUFSIZE,
                      !.entered = IF c.overrun THEN @ ELSE Tail(@)]

----------------------------------------------------------------------------
(* readline on the console: devcons_read gives one character, with Ctrl-D   *)
(* as end of file, and the line is edited and echoed as it comes.           *)
Echo(c, chars) == FoldLeft(cons_putc, c, chars)

Edit(c, ch) ==
  CASE ch \in {BS, DEL} ->
         IF c.line = <<>> THEN c
         ELSE Echo([c EXCEPT !.line = Front(@)], <<BS, SPACE, BS>>)
    [] ch >= SPACE /\ ch # DEL ->
         IF Len(c.line) < BUFLEN - 1 THEN Echo([c EXCEPT !.line = Append(@, ch)], <<ch>>) ELSE c
    [] ch \in {NL, CR} -> [Echo(c, <<NL>>) EXCEPT !.at = "line"]
    [] ch = EOT -> [c EXCEPT !.at = "eof"]
    [] OTHER -> c

Init ==
  con = [kbd |-> <<>>, serial |-> <<>>, shift |-> {},
         buf |-> [i \in 0 .. CONSBUFSIZE - 1 |-> 0], rpos |-> 0, wpos |-> 0,
         screen |-> [p \in 0 .. crt_size - 1 |-> SPACE], pos |-> crt_cols, home |-> crt_cols,
         line |-> <<>>, at |-> "reading", isr |-> {},
         inputs |-> 0, down |-> {}, entered |-> <<>>, overrun |-> FALSE]

Readline ==
  LET c == Polled(con)
      ch == c.buf[c.rpos]
  IN /\ con.at = "reading" /\ Waiting(c)
     /\ con' = Edit(Taken(c), ch)

(* The caller of readline uses the line, prints its answer and asks again.  *)
Again(reply) ==
  /\ con.at # "reading"
  /\ LET said == Echo(con, reply)
     IN con' = [said EXCEPT !.at = "reading", !.line = <<>>, !.home = said.pos]

(* An interrupt (trap_dispatch) drains one device.  It is never ended (see  *)
(* Interrupts), so it comes once, and after the keyboard's the serial line  *)
(* gets none either; later input waits for cons_getc to poll.               *)
Interrupt ==
  \/ /\ con.kbd # <<>> /\ "kbd" \notin con.isr
     /\ con' = kbd_intr([con EXCEPT !.isr = @ \cup {"kbd"}])
  \/ /\ con.serial # <<>> /\ con.isr = {}
     /\ con' = serial_intr([con EXCEPT !.isr = {"serial"}])

(* Keys go down and up: a modifier, one of them with an E0 byte in front,   *)
(* or a key of the maps.                                                    *)
Modifiers == {<<42>>, <<29>>, <<E0, 29>>}
Released(code) == [code EXCEPT ![Len(code)] = @ + 128]

Input(queue, bytes, down) ==
  /\ con.inputs < MaxInput
  /\ con' = [[con EXCEPT ![queue] = @ \o bytes] EXCEPT !.inputs = @ + 1, !.down = down]

Press == \E m \in Modifiers \ con.down : Input("kbd", m, con.down \cup {m})
Release == \E m \in con.down : Input("kbd", Released(m), con.down \ {m})
Type == \E k \in {<<30>>, <<32>>, <<14>>, <<28>>, <<E0, 28>>, <<58>>} : Input("kbd", k, con.down)
SerialByte == \E b \in SerialBytes : Input("serial", <<b>>, con.down)

Next ==
  \/ Press \/ Release \/ Type \/ SerialByte
  \/ Interrupt \/ Readline
  \/ Again(<<>>) \/ Again(<<97, 9, CR>>)

----------------------------------------------------------------------------
(* Until the buffer is overrun, what waits in it is what came in and was    *)
(* not read, in order, across every wrap of the two positions and whichever *)
(* device and whichever of interrupt and poll brought it (cons_intr,        *)
(* cons_getc); and when every key is up and its code was read, no modifier  *)
(* is left on (kbd_proc_data).                                              *)
KeysKept ==
  /\ ~con.overrun =>
       con.entered = [i \in 1 .. (con.wpos - con.rpos) % CONSBUFSIZE |->
                        con.buf[(con.rpos + i - 1) % CONSBUFSIZE]]
  /\ con.kbd = <<>> /\ con.down = {} => con.shift \subseteq {"CAPSLOCK"}

(* The line a program is about to get is the line on the screen: while      *)
(* readline runs, the cells from where it began to the cursor hold its      *)
(* characters, through backspaces, wrapped lines and scrolling (readline's  *)
(* echo against fb_putc).                                                   *)
LineOnScreen ==
  con.at = "reading" =>
    /\ con.pos = con.home + Len(con.line)
    /\ \A i \in 1 .. Len(con.line) : con.screen[con.home + i - 1] = con.line[i]
=============================================================================

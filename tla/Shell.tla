-------------------------------- MODULE Shell --------------------------------
(***************************************************************************)
(* The shell (user/sh.c) and the reading of options (lib/args.c).  A line  *)
(* is taken apart by _gettoken, which ends words by writing NULs into the  *)
(* line while it looks one token ahead; runcmd collects the words,         *)
(* redirects descriptors and, at a bar, forks a copy of itself that goes   *)
(* on with the rest of the line.                                           *)
(*                                                                         *)
(* sh holds what the shell is given: a line, and the arguments of sh.  A   *)
(* process is a state [buf, np1, np2, nc, argv, fd]; words are pointers    *)
(* into buf and become strings only when the command is spawned.           *)
(***************************************************************************)
EXTENDS Integers, Sequences, FiniteSets, SequencesExt

CONSTANTS Letters, MaxLine,    \* characters of words, length of a line
          MAXARGS,
          Args, MaxArgc,       \* arguments of sh, sequences of characters
          MAXFD

VARIABLE sh

NUL == "\\0"
WHITESPACE == {" "}
SYMBOLS == {"<", "|", ">", ";"}
Chars == Letters \cup WHITESPACE \cup SYMBOLS

Lines == UNION {[1 .. n -> Chars] : n \in 0 .. MaxLine}
Argvs == UNION {[1 .. n -> Args] : n \in 0 .. MaxArgc - 1}

Init ==
  \/ \E line \in Lines : sh = [line |-> line, argv |-> <<>>]
  \/ \E argv \in Argvs : sh = [line |-> <<>>, argv |-> argv]

-----------------------------------------------------------------------------
(* _gettoken and gettoken.                                                  *)

At(buf, p) == IF p > Len(buf) THEN NUL ELSE buf[p]
Put(buf, p) == IF p > Len(buf) THEN buf ELSE [buf EXCEPT ![p] = NUL]

RECURSIVE SkipBlanks(_, _)
SkipBlanks(buf, p) == IF At(buf, p) \in WHITESPACE THEN SkipBlanks(Put(buf, p), p + 1)
                      ELSE [buf |-> buf, p |-> p]

RECURSIVE EndOfWord(_, _)
EndOfWord(buf, p) ==
  IF At(buf, p) = NUL \/ At(buf, p) \in WHITESPACE \cup SYMBOLS THEN p ELSE EndOfWord(buf, p + 1)

_gettoken(s, p) ==
  LET b == SkipBlanks(s.buf, p)
      c == At(b.buf, b.p)
  IN IF p = 0 THEN [s EXCEPT !.nc = NUL]
     ELSE IF c = NUL THEN [s EXCEPT !.buf = b.buf, !.nc = NUL, !.np1 = 0, !.np2 = 0]
     ELSE IF c \in SYMBOLS
          THEN [s EXCEPT !.buf = Put(b.buf, b.p), !.nc = c, !.np1 = b.p, !.np2 = b.p + 1]
     ELSE [s EXCEPT !.buf = b.buf, !.nc = "w", !.np1 = b.p, !.np2 = EndOfWord(b.buf, b.p)]

(* The token handed out is the one that was looked ahead.                   *)
gettoken_now(s) == LET n == _gettoken(s, s.np2) IN [n EXCEPT !.c = n.nc, !.t = n.np1]
gettoken(s) == [_gettoken(s, s.np2) EXCEPT !.c = s.nc, !.t = s.np1]

RECURSIVE WordAt(_, _)
WordAt(buf, p) == IF At(buf, p) = NUL THEN <<>> ELSE <<buf[p]>> \o WordAt(buf, p + 1)

-----------------------------------------------------------------------------
(* Descriptors: a table from numbers to what is open.  open and pipe take   *)
(* the lowest free numbers, dup closes its target first.                    *)
Nothing == <<"nothing">>
Lowest(fd) == CHOOSE i \in 0 .. MAXFD - 1 : fd[i] = Nothing /\ \A j \in 0 .. i - 1 : fd[j] # Nothing
Close(fd, i) == [fd EXCEPT ![i] = Nothing]
Dup(fd, i, j) == [fd EXCEPT ![j] = fd[i]]
MoveTo(fd, i, j) == IF i = j THEN fd ELSE Close(Dup(fd, i, j), i)
Open(fd, what) == [fd EXCEPT ![Lowest(fd)] = what]

Redirect(fd, what, j) == LET i == Lowest(fd) IN MoveTo(Open(fd, what), i, j)

-----------------------------------------------------------------------------
(* runcmd: the commands that it and the copies it forks spawn, in the order *)
(* of the line.  A file that is named can be opened.                        *)

Spawned(s) ==
  IF s.argv = <<>> THEN <<>>
  ELSE <<[argv |-> [i \in DOMAIN s.argv |-> WordAt(s.buf, s.argv[i])],
          in |-> s.fd[0], out |-> s.fd[1],
          more |-> {i \in 2 .. MAXFD - 1 : s.fd[i] # Nothing}]>>

RECURSIVE Command(_)

(* The parent keeps the writing end as descriptor 1, the copy the reading   *)
(* end as descriptor 0.                                                     *)
Pipe(s) ==
  LET r == Open(s.fd, <<"pipe", s.t>>)
      w == Open(r, <<"pipe", s.t>>)
      p0 == Lowest(s.fd)
      p1 == Lowest(r)
  IN Spawned([s EXCEPT !.fd = Close(MoveTo(w, p1, 1), p0)])
       \o Command([s EXCEPT !.fd = Close(MoveTo(w, p0, 0), p1), !.argv = <<>>])

Command(s) ==
  LET n == gettoken(s)
      f == gettoken(n)
      Into(d) == IF f.c # "w" THEN <<>>
                 ELSE Command([f EXCEPT !.fd = Redirect(@, <<"file", WordAt(f.buf, f.t)>>, d)])
  IN CASE n.c = "w" -> IF Len(n.argv) = MAXARGS THEN <<>>
                       ELSE Command([n EXCEPT !.argv = Append(@, n.t)])
       [] n.c = "<" -> Into(0)
       [] n.c = ">" -> Into(1)
       [] n.c = "|" -> Pipe(n)
       [] n.c = NUL -> Spawned(n)
       [] OTHER -> <<>>   \* panic: bad return from gettoken

Console == <<"console">>
AtStart(line) ==
  [buf |-> line, nc |-> NUL, np1 |-> 0, np2 |-> 0, c |-> NUL, t |-> 0, argv |-> <<>>,
   fd |-> [i \in 0 .. MAXFD - 1 |-> IF i <= 1 THEN Console ELSE Nothing]]

runcmd(line) == Command(_gettoken(AtStart(line), 1))

-----------------------------------------------------------------------------
(* argnext: cur is what is left of the argument being read, or None.        *)

None == <<"end">>
argstart(argv) == [argv |-> argv, cur |-> IF Len(argv) > 0 THEN <<>> ELSE None, arg |-> None]

EndOfArgs(a) == [a EXCEPT !.cur = None, !.arg = None]

argnext(a) ==
  LET first == a.argv[1]
      shifted == [a EXCEPT !.argv = Tail(@), !.cur = Tail(first)]
      Take(b) == [b EXCEPT !.arg = <<Head(b.cur)>>, !.cur = Tail(@)]
  IN IF a.cur = None THEN EndOfArgs(a)
     ELSE IF a.cur # <<>> THEN Take(a)
     ELSE IF a.argv = <<>> THEN EndOfArgs(a)
     ELSE IF first = <<>> \/ first[1] # "-" \/ Len(first) = 1 THEN EndOfArgs(a)
     ELSE IF shifted.cur = <<"-">> THEN EndOfArgs(shifted)
     ELSE Take(shifted)

(* umain up to its first line: the options, what is left of the arguments.  *)
RECURSIVE umain(_, _)
umain(a, opts) ==
  LET n == argnext(a)
  IN IF n.arg = None THEN [opts |-> opts, rest |-> n.argv] ELSE umain(n, opts \o n.arg)

-----------------------------------------------------------------------------
(* The reference: the tokens of a line are its symbols and its longest runs *)
(* of letters, and a pipeline is a sequence of commands between bars.       *)

StartsToken(l, i) ==
  \/ l[i] \in SYMBOLS
  \/ l[i] \in Letters /\ (i = 1 \/ l[i - 1] \notin Letters)
TokenAt(l, i) ==
  IF l[i] \in SYMBOLS THEN <<l[i]>>
  ELSE SubSeq(l, i, CHOOSE j \in i .. Len(l) :
                      /\ \A k \in i .. j : l[k] \in Letters
                      /\ j = Len(l) \/ l[j + 1] \notin Letters)
Tokens(l) ==
  LET S(i) == StartsToken(l, i)
      starts == SelectSeq([i \in DOMAIN l |-> i], S)
  IN [k \in DOMAIN starts |-> TokenAt(l, starts[k])]

IsSymbol(t) == t[1] \in SYMBOLS

(* The part of the line before the first mistake: a redirection without a   *)
(* name, a semicolon, an argument too many.                                 *)
Bars(T) == {k \in DOMAIN T : T[k] = <<"|">>}
IsName(T, k) == k > 1 /\ T[k - 1] \in {<<"<">>, <<">">>} /\ ~IsSymbol(T[k])
IsArg(T, k) == ~IsSymbol(T[k]) /\ ~IsName(T, k)
Wrong(T, k) ==
  \/ T[k] = <<";">>
  \/ T[k] \in {<<"<">>, <<">">>} /\ (k = Len(T) \/ IsSymbol(T[k + 1]))

Segments(T) ==
  LET cuts == SetToSortSeq(Bars(T) \cup {Len(T) + 1}, <)
  IN [n \in DOMAIN cuts |-> (IF n = 1 THEN 1 ELSE cuts[n - 1] + 1) .. cuts[n] - 1]

NamesBehind(T, D, sym) == {k \in D : IsName(T, k) /\ T[k - 1] = sym}
Greatest(S) == CHOOSE x \in S : \A y \in S : x >= y

(* A redirection of the output before a bar stays in force after it, since  *)
(* the copy that runs the rest of the line is forked with it.               *)
Expected(T, n) ==
  LET D == Segments(T)[n]
      A(k) == IsArg(T, k)
      words == SelectSeq(SetToSortSeq(D, <), A)
      ins == NamesBehind(T, D, <<"<">>)
      outs == NamesBehind(T, UNION {Segments(T)[m] : m \in 1 .. n}, <<">">>)
  IN [argv |-> [i \in DOMAIN words |-> T[words[i]]],
      in |-> IF ins # {} THEN <<"file", T[Greatest(ins)]>>
             ELSE IF n = 1 THEN Console ELSE <<"pipe">>,
      out |-> IF n < Len(Segments(T)) THEN <<"pipe">>
              ELSE IF outs # {} THEN <<"file", T[Greatest(outs)]>> ELSE Console]

TooMany(T, n) == Cardinality({k \in Segments(T)[n] : IsArg(T, k)}) >= MAXARGS
Good(T) == (\A k \in DOMAIN T : ~Wrong(T, k)) /\ \A n \in DOMAIN Segments(T) : ~TooMany(T, n)

SameEnd(got, want) == IF want = <<"pipe">> THEN got[1] = "pipe" ELSE got = want
Agrees(got, want) ==
  got.argv = want.argv /\ SameEnd(got.in, want.in) /\ SameEnd(got.out, want.out) /\ got.more = {}

(* The reference for options: leading arguments that start with "-" and say *)
(* more, up to "--".                                                        *)
IsOption(x) == Len(x) > 1 /\ x[1] = "-"
OptionCount(argv) ==
  CHOOSE n \in 0 .. Len(argv) :
    /\ \A i \in 1 .. n : IsOption(argv[i]) /\ argv[i] # <<"-", "-">>
    /\ n = Len(argv) \/ ~IsOption(argv[n + 1]) \/ argv[n + 1] = <<"-", "-">>
Rest(argv) ==
  LET n == OptionCount(argv)
  IN SubSeq(argv, IF n < Len(argv) /\ argv[n + 1] = <<"-", "-">> THEN n + 2 ELSE n + 1, Len(argv))
Options(argv) ==
  LET J(s, x) == s \o Tail(x) IN FoldLeft(J, <<>>, SubSeq(argv, 1, OptionCount(argv)))

(* The commands got are those between the bars of the line that have words. *)
RunAs(T, got) ==
  LET N(n) == Expected(T, n).argv # <<>>
      want == SelectSeq([n \in DOMAIN Segments(T) |-> n], N)
  IN /\ Len(got) = Len(want)
     /\ \A k \in DOMAIN got : Agrees(got[k], Expected(T, want[k]))
     /\ \A k \in 1 .. Len(got) - 1 :
          got[k].out[1] = "pipe" /\ got[k + 1].in[1] = "pipe" /\ want[k + 1] = want[k] + 1
            => got[k].out = got[k + 1].in

(* A line without mistakes and with fewer than MAXARGS arguments to a       *)
(* command runs the commands it says, in order: each with exactly its       *)
(* words, whatever stands next to them in the line, with its input and      *)
(* output where the last redirection or the bar puts them, with consecutive *)
(* commands on the two ends of one pipe, and with no other descriptor open  *)
(* (runcmd, gettoken); and the options of sh are the letters of its leading *)
(* option arguments, up to "--" (argnext).                                  *)
CommandsRunAsWritten ==
  /\ Good(Tokens(sh.line)) => RunAs(Tokens(sh.line), runcmd(sh.line))
  /\ umain(argstart(sh.argv), <<>>) = [opts |-> Options(sh.argv), rest |-> Rest(sh.argv)]
=============================================================================

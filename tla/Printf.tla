------------------------------- MODULE Printf ------------------------------
(***************************************************************************)
(* tasks/libc/stdio/doprnt.c.  A text is the sequence of the characters    *)
(* given to putc; a character is a string of length one, or NUL.  An       *)
(* argument is a number, a character, a text (or NULL_TEXT), or for %b and *)
(* %t a record of what it points to.                                       *)
(***************************************************************************)
EXTENDS Integers, SequencesExt, FiniteSetsExt

CONSTANT LONG           \* bits of a long; a long long has twice as many

ASSUME LongAssumption == LONG \in Nat \ {0}

NUL == "NUL"
NULL_TEXT == <<NUL>>
digs == <<"0", "1", "2", "3", "4", "5", "6", "7", "8", "9", "a", "b", "c", "d", "e", "f">>
Digit == {digs[k] : k \in 1 .. 10}
Ctod(c) == (CHOOSE k \in 1 .. 10 : digs[k] = c) - 1

Larger(m, n) == IF m > n THEN m ELSE n
Repeat(c, n) == [k \in 1 .. Larger(0, n) |-> c]
When(condition, text) == IF condition THEN text ELSE <<>>

RECURSIVE printnum(_, _)
printnum(u, base) ==
  When(u >= base, printnum(u \div base, base)) \o <<digs[(u % base) + 1]>>

printnum_16(u) == [k \in 1 .. 8 |-> digs[((u \div 16 ^ (8 - k)) % 16) + 1]]

(***************************************************************************)
(* Lines 203-268: the parts of a directive, from the character after `%'.  *)
(***************************************************************************)
Peek(fmt, k) == IF k <= Len(fmt) THEN fmt[k] ELSE NUL
After(fmt, k, S) == Min({m \in k .. Len(fmt) + 1 : Peek(fmt, m) \notin S})
Decimal(text) == FoldLeft(LAMBDA n, c : 10 * n + Ctod(c), 0, text)

\* The digits in k .. last - 1, else the argument that `*' stands for, else none.
NumberTo(fmt, k, last, args, none) ==
  IF last > k THEN [value |-> Decimal(SubSeq(fmt, k, last - 1)), next |-> last, args |-> args]
  ELSE IF Peek(fmt, k) = "*" THEN [value |-> Head(args), next |-> k + 1, args |-> Tail(args)]
  ELSE [value |-> none, next |-> k, args |-> args]

NumberAt(fmt, k, args, none) == NumberTo(fmt, k, After(fmt, k, Digit), args, none)

\* What follows the field's width w.
Precision(fmt, w) ==
  IF Peek(fmt, w.next) = "." THEN NumberAt(fmt, w.next + 1, w.args, -1)
                             ELSE [w EXCEPT !.value = -1]

Directive(fmt, first, args) ==
  LET f == After(fmt, first, {"#", "-", "+", " "})
      flags == {fmt[k] : k \in first .. f - 1}
      zero == Peek(fmt, f) = "0"
      w == NumberAt(fmt, IF zero THEN f + 1 ELSE f, args, 0)
      p == Precision(fmt, w)
      c == After(fmt, p.next, {"l"})
  IN  [altfmt    |-> "#" \in flags,
       plus_sign |-> IF "+" \in flags THEN <<"+">> ELSE When(" " \in flags, <<" ">>),
       ladjust   |-> ("-" \in flags) # (w.value < 0),
       padc      |-> IF zero THEN "0" ELSE " ",
       length    |-> IF w.value < 0 THEN -w.value ELSE w.value,
       prec      |-> p.value,
       longopt   |-> c - p.next,
       conv      |-> Peek(fmt, c),
       next      |-> IF Peek(fmt, c) = NUL THEN c ELSE c + 1,
       args      |-> p.args]

(***************************************************************************)
(* The conversions, each for a directive d and its argument.               *)
(***************************************************************************)

\* What is left of the field, 582-586.
Room(d, sign_char, prefix, number) == d.length - Len(sign_char \o prefix \o number)

\* 561-611.  Whichever loop pads first uses up the field.
print_num(d, sign_char, u, base) ==
  LET prefix == When(u # 0 /\ d.altfmt, CASE base = 8 -> <<"0">> [] base = 16 -> <<"0", "x">>
                                          [] OTHER -> <<>>)
      number == printnum(u, base)
      pad(c) == Repeat(c, Room(d, sign_char, prefix, number))
  IN  When(d.padc = " " /\ ~d.ladjust, pad(" ")) \o sign_char \o prefix
        \o When(d.padc = "0", pad("0")) \o number
        \o When(d.padc = " " /\ d.ladjust, pad(" "))

print_signed(d, n, base) ==
  print_num(d, IF n >= 0 THEN d.plus_sign ELSE <<"-">>, IF n >= 0 THEN n ELSE -n, base)

\* The bits of the argument, as many as the conversion takes.
print_unsigned(d, n, base) ==
  print_num(d, <<>>, n % 2 ^ (IF d.longopt > 1 THEN 2 * LONG ELSE LONG), base)

\* 'b': the names of a register's bits.  A bit has a name; a field, from bit
\* `high' down to bit `low', also has a value.
print_bits(register) ==
  LET u == register.value % 2 ^ LONG
      Bits(high, low) == (u \div 2 ^ (low - 1)) % 2 ^ (high - low + 1)
      Item(f) == IF f.low # 0
                   THEN <<f.name \o printnum(Bits(f.high, f.low), register.base)>>
                   ELSE When(Bits(f.high, f.high) # 0, <<f.name>>)
      items == FlattenSeq([k \in DOMAIN register.fields |-> Item(register.fields[k])])
      Separated == FlattenSeq([k \in DOMAIN items |->
                                 <<IF k = 1 THEN "<" ELSE ",">> \o items[k]])
  IN  printnum(u, register.base)
        \o When(u # 0, Separated \o When(items # <<>>, <<">">>))

\* 't', with `l': the two words of a thread id, of fixed length.
print_tid_words(d, tid) ==
  LET n == IF d.altfmt THEN 19 ELSE 17
      pad == Repeat(" ", d.length - n)
  IN  When(~d.ladjust, pad) \o When(d.altfmt, <<"[">>) \o printnum_16(tid.high) \o <<":">>
        \o printnum_16(tid.low) \o When(d.altfmt, <<"]">>) \o When(d.ladjust, pad)

\* 't': task.thread.  All but the last two columns of the padding go in front
\* of the task, and the rest in front of the thread.
print_tid(d, tid) ==
  LET n == (IF d.altfmt THEN 4 ELSE 2)
             + (IF tid.task >= 16 THEN 1 ELSE 0) + (IF tid.task >= 256 THEN 1 ELSE 0)
      m == IF tid.lthread >= 16 THEN 2 ELSE 1
      outer == IF d.ladjust THEN 0 ELSE Larger(0, d.length - 2 - n)
      inner == IF d.ladjust THEN 0 ELSE Larger(0, d.length - m - n - outer)
  IN  When(d.padc = " ", Repeat(" ", outer)) \o When(d.altfmt, <<"[">>)
        \o When(d.padc = "0", Repeat("0", outer))
        \o printnum(tid.task, 16) \o <<".">> \o Repeat(d.padc, inner)
        \o printnum(tid.lthread, 16) \o When(d.altfmt, <<"]">>)
        \o When(d.ladjust, Repeat(" ", d.length - m - n))

\* 's'.  A text cut short by the precision counts one column too many when it
\* is adjusted to the left (470).
print_string(d, arg) ==
  LET text == IF arg = NULL_TEXT THEN <<>> ELSE arg
      shown == IF d.prec = -1 THEN text ELSE SubSeq(text, 1, Min({d.prec, Len(text)}))
      n == Len(shown) + IF Len(shown) < Len(text) THEN 1 ELSE 0
  IN  When(~d.ladjust, Repeat(" ", d.length - Len(shown))) \o shown
        \o When(d.ladjust, Repeat(" ", d.length - n))

\* The switch of lines 272-537.
Base(conv, radix) == CASE conv \in {"o", "O"}                -> 8
                       [] conv \in {"d", "D", "u", "U"}      -> 10
                       [] conv \in {"p", "x", "X", "z", "Z"} -> 16
                       [] conv \in {"r", "R", "n", "N"}      -> radix
Signed == {"d", "D", "z", "Z", "r", "R"}
Unsigned == {"o", "O", "u", "U", "p", "x", "X", "n", "N"}
TakesNone(conv) == conv \notin Signed \union Unsigned \union {"b", "B", "c", "t", "s"}

Convert(d, radix) ==
  CASE d.conv \in {"b", "B"} -> print_bits(Head(d.args))
    [] d.conv = "c"          -> <<Head(d.args)>>
    [] d.conv = "t"          -> IF d.longopt > 0 THEN print_tid_words(d, Head(d.args))
                                                 ELSE print_tid(d, Head(d.args))
    [] d.conv = "s"          -> print_string(d, Head(d.args))
    [] d.conv = "p"          ->
         <<"0", "x">> \o print_unsigned([d EXCEPT !.padc = "0", !.length = 8], Head(d.args), 16)
    [] d.conv \in Signed     -> print_signed(d, Head(d.args), Base(d.conv, radix))
    [] d.conv \in Unsigned \ {"p"} -> print_unsigned(d, Head(d.args), Base(d.conv, radix))
    [] d.conv = NUL          -> <<>>
    [] OTHER                 -> <<d.conv>>

\* The arguments behind those of the directive and its conversion.
Remaining(d) == IF TakesNone(d.conv) THEN d.args ELSE Tail(d.args)

\* _doprnt_truncates is never set.
RECURSIVE DoprntFrom(_, _, _, _)
DoprntFrom(fmt, k, args, radix) ==
  IF Peek(fmt, k) = NUL THEN <<>>
  ELSE IF fmt[k] # "%" THEN <<fmt[k]>> \o DoprntFrom(fmt, k + 1, args, radix)
  ELSE LET d == Directive(fmt, k + 1, args)
       IN  Convert(d, radix) \o DoprntFrom(fmt, d.next, Remaining(d), radix)

_doprnt(fmt, args, radix) == DoprntFrom(fmt, 1, args, radix)
=============================================================================

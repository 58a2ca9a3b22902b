------------------------------- MODULE Stdlib ------------------------------
(***************************************************************************)
(* The functions that read numbers back from text (tasks/libc/stdlib and   *)
(* tasks/libc/stdio/doscan.c), the classes of characters (include/ctype.h) *)
(* and the integer functions of the kernel (kernel/math.c).                *)
(***************************************************************************)
EXTENDS Printf

\* A sum that has overflowed a long keeps its lowest bits.
Wrap(n) == LET u == n % 2 ^ LONG IN IF u >= 2 ^ (LONG - 1) THEN u - 2 ^ LONG ELSE u

(***************************************************************************)
(* include/ctype.h.  Here a character is its code.                         *)
(***************************************************************************)
isascii(c) == c \in 0 .. 127
iscntrl(c) == c < 32 \/ c > 126
isdigit(c) == c \in 48 .. 57
isgraph(c) == c > 32 /\ c <= 126
islower(c) == c \in 97 .. 122
isprint(c) == c >= 32 /\ c <= 126
isspace(c) == c \in {32} \union 9 .. 13
isupper(c) == c \in 65 .. 90
isxdigit(c) == isdigit(c) \/ c \in 65 .. 70 \/ c \in 97 .. 102
isalpha(c) == islower(c) \/ isupper(c)
isalnum(c) == isalpha(c) \/ isdigit(c)
ispunct(c) == isgraph(c) /\ ~isalnum(c)
toupper(c) == IF islower(c) THEN c - 32 ELSE c
tolower(c) == IF isupper(c) THEN c + 32 ELSE c

(***************************************************************************)
(* strtol, strtoul, atol.  The result is the number and the position at    *)
(* which the text was left.                                                *)
(***************************************************************************)
Space == {" ", "\n", "\t"}

\* The value of a character in a base, and -1 if it is no digit of the base.
\* Texts have lower case digits only.
DigitValue(c, base) ==
  LET values == {k - 1 : k \in {k \in 1 .. base : digs[k] = c}}
  IN  IF values = {} THEN -1 ELSE Min(values)

\* The digits from position p on.
ReadDigits(text, p, base) ==
  LET e == Min({k \in p .. Len(text) + 1 : DigitValue(Peek(text, k), base) = -1})
  IN  [value |-> FoldLeft(LAMBDA v, c : v * base + DigitValue(c, base), 0,
                          SubSeq(text, p, e - 1)),
       end |-> e]

\* Base 0 is found out from the text.
Prefixed(text, p, base) ==
  base \in {0, 16} /\ Peek(text, p) = "0" /\ Peek(text, p + 1) = "x"
BaseOf(text, p, base) ==
  IF base # 0 THEN base
  ELSE IF Prefixed(text, p, base) THEN 16 ELSE IF Peek(text, p) = "0" THEN 8 ELSE 10

\* Lines 37-62: a prefix, if any, and digits.
ReadNumber(text, p, base) ==
  ReadDigits(text, IF Prefixed(text, p, base) THEN p + 2 ELSE p, BaseOf(text, p, base))

\* Fault: the sign is looked for before the spaces are skipped.
strtol_SignFirst(text, base) ==
  LET is_neg == Peek(text, 1) = "-"
      r == ReadNumber(text, After(text, IF is_neg THEN 2 ELSE 1, Space), base)
  IN  [value |-> Wrap(IF is_neg THEN -r.value ELSE r.value), end |-> r.end]

\* A `+' is looked at but not skipped (35).
strtol(text, base) ==
  LET s == After(text, 1, Space)
      is_neg == Peek(text, s) = "-"
      r == ReadNumber(text, IF is_neg THEN s + 1 ELSE s, base)
  IN  [value |-> Wrap(IF is_neg THEN -r.value ELSE r.value), end |-> r.end]

strtoul(text, base) ==
  LET r == ReadNumber(text, After(text, 1, Space), base)
  IN  [value |-> r.value % 2 ^ LONG, end |-> r.end]

atol(text) == Wrap(ReadDigits(text, 1, 10).value)

(***************************************************************************)
(* doscan.c, for sscanf.  The text is followed by its NUL and then by      *)
(* whatever the memory holds, `beyond'; s is where the next character is   *)
(* taken from, and stored what went to the arguments.                      *)
(***************************************************************************)
ScanStart == [s |-> 1, vals |-> 0, stored |-> <<>>]

\* A number, perhaps with a sign.  No digits make a 0.
ScanNumber(memory, st, base, discard) ==
  LET neg == Peek(memory, st.s) = "-"
      r == ReadDigits(memory, IF neg THEN st.s + 1 ELSE st.s, base)
  IN  [st EXCEPT !.s = r.end,
                 !.stored = @ \o When(~discard, <<Wrap(IF neg THEN -r.value ELSE r.value)>>)]

\* A word ends at a space, and not at the NUL (148).
ScanWord(memory, st, discard) ==
  LET e == Min({k \in st.s .. Len(memory) + 1 : k > Len(memory) \/ memory[k] \in Space})
  IN  [st EXCEPT !.s = e, !.stored = @ \o When(~discard, <<SubSeq(memory, st.s, e - 1)>>)]

\* Every directive counts that stores something, and every one that is not
\* known.
RECURSIVE ScanFrom(_, _, _, _)
ScanFrom(memory, fmt, k, st) ==
  IF Peek(fmt, k) = NUL THEN st
  ELSE IF fmt[k] = "%"
    THEN LET c == After(fmt, k + 1, {"*"})
             discard == c > k + 1
             scanned == CASE fmt[c] = "d" -> ScanNumber(memory, st, 10, discard)
                          [] fmt[c] = "x" -> ScanNumber(memory, st, 16, discard)
                          [] fmt[c] = "s" -> ScanWord(memory, st, discard)
                          [] OTHER        -> st
         IN  ScanFrom(memory, fmt, c + 1,
                      [scanned EXCEPT !.vals = IF discard THEN @ ELSE @ + 1])
  ELSE IF fmt[k] \in Space
    THEN ScanFrom(memory, fmt, k + 1, [st EXCEPT !.s = After(memory, st.s, Space)])
  ELSE IF Peek(memory, st.s) = fmt[k]
    THEN ScanFrom(memory, fmt, k + 1, [st EXCEPT !.s = @ + 1])
  ELSE st

sscanf(text, beyond, fmt) == ScanFrom(text \o <<NUL>> \o beyond, fmt, 1, ScanStart)

(***************************************************************************)
(* kernel/math.c.  An unsigned int is as wide as a long.                   *)
(***************************************************************************)
sum_region(buf, num_words) ==
  FoldLeft(LAMBDA sum, n : (sum + n) % 2 ^ LONG, 0, SubSeq(buf, 1, num_words))

\* 56-64, without NDEBUG.
ilog2[x \in Nat] == IF x \div 2 = 0 THEN 0 ELSE 1 + ilog2[x \div 2]

\* 86-103, with NDEBUG: b[i] is the upper half of the lowest 2 * S[i] bits.
Halve(st, s) ==
  IF (st.v \div 2 ^ s) % 2 ^ s # 0 THEN [v |-> st.v \div 2 ^ s, r |-> st.r + s] ELSE st
ilog2_NDEBUG_Rising(v) ==               \* Fault: the smallest step first.
  FoldLeft(Halve, [v |-> v, r |-> 0], <<1, 2, 4, 8, 16>>).r
ilog2_NDEBUG(v) == FoldLeft(Halve, [v |-> v, r |-> 0], <<16, 8, 4, 2, 1>>).r

gcd[a, b \in Nat] == IF a = 0 THEN b ELSE gcd[b % a, a]

gcd4(arr) == gcd[gcd[gcd[arr[1], arr[2]], arr[3]], arr[4]]
=============================================================================

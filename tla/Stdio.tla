-------------------------------- MODULE Stdio ------------------------------
(***************************************************************************)
(* printf.c, putchar.c, puts.c, sprintf.c and hexdump.c: where the text    *)
(* that _doprnt makes goes to.  printf collects it in a buffer and makes   *)
(* system calls; sprintf stores it.                                        *)
(***************************************************************************)
EXTENDS Stdlib

CONSTANT PRINTF_BUFMAX      \* size of the buffer of printf

ASSUME BufferAssumption == PRINTF_BUFMAX \in Nat \ {0}

\* buf holds the first `index' characters; writes are the system calls made.
StateZero == [buf |-> <<>>, writes |-> <<>>]

write(state, text) == [state EXCEPT !.writes = Append(@, text)]

\* The bytes of an int, the lowest first.
putchar(state, c) == write(state, <<c, NUL, NUL, NUL>>)

puts(state, s) == write(write(state, s), <<"\n">>)

flush(state) == [write(state, state.buf) EXCEPT !.buf = <<>>]

\* Fault: the character that did not fit is dropped.
printf_char_Drops(state, c) ==
  IF c = "\n" THEN [puts(state, state.buf) EXCEPT !.buf = <<>>]
  ELSE IF c = NUL \/ Len(state.buf) >= PRINTF_BUFMAX - 1 THEN flush(state)
  ELSE [state EXCEPT !.buf = Append(@, c)]

printf_char(state, c) ==
  IF c = "\n" THEN [puts(state, state.buf) EXCEPT !.buf = <<>>]
  ELSE IF c = NUL \/ Len(state.buf) >= PRINTF_BUFMAX - 1 THEN putchar(flush(state), c)
  ELSE [state EXCEPT !.buf = Append(@, c)]

\* The system calls that printf makes.
vprintf(fmt, args) ==
  LET state == FoldLeft(printf_char, StateZero, _doprnt(fmt, args, 0))
  IN  IF state.buf = <<>> THEN state.writes ELSE flush(state).writes
printf(fmt, args) == vprintf(fmt, args)

(***************************************************************************)
(* sprintf and snprintf: the bytes stored from s on.                       *)
(***************************************************************************)
SPRINTF_UNLIMITED == -1

savechar(stored, c, max) ==
  IF max # SPRINTF_UNLIMITED /\ Len(stored) = max THEN stored ELSE Append(stored, c)

vsprintf(fmt, args) ==
  FoldLeft(LAMBDA b, c : savechar(b, c, SPRINTF_UNLIMITED), <<>>, _doprnt(fmt, args, 0))
    \o <<NUL>>
sprintf(fmt, args) == vsprintf(fmt, args)

\* The NUL goes behind the last character, at s[size] if the text fills s.
vsnprintf(size, fmt, args) ==
  FoldLeft(LAMBDA b, c : savechar(b, c, size), <<>>, _doprnt(fmt, args, 0)) \o <<NUL>>
snprintf(size, fmt, args) == vsnprintf(size, fmt, args)

(***************************************************************************)
(* hexdump, the same in the kernel: its rows, without the two borders.  A  *)
(* byte is its code; `graph' is what a graphic character is shown as.      *)
(***************************************************************************)
Fmt08lx == <<"%", "0", "8", "l", "x">>
Fmt02x == <<"%", "0", "2", "x">>

Shown(j, len) == j < len

Row(b, len, i) ==
  LET Column(j) == When(j % 4 = 0, <<" ">>)
                     \o IF Shown(j, len) THEN _doprnt(Fmt02x, <<b[j + 1]>>, 0) ELSE <<" ", " ">>
      Char(j) == IF ~Shown(j, len) THEN <<" ">>
                 ELSE IF isgraph(b[j + 1]) THEN <<"graph">> ELSE <<".">>
      js == [k \in 1 .. 16 |-> i + k - 1]
      Each(Show(_)) == FlattenSeq([k \in 1 .. 16 |-> Show(js[k])])
  IN  <<"|", " ">> \o _doprnt(Fmt08lx, <<i>>, 0) \o Repeat(" ", 6)
        \o Each(Column) \o Repeat(" ", 7) \o Each(Char) \o <<" ", "|">>

\* The memory behind the `len' bytes may be part of b.
hexdump(b, len) ==
  [k \in 1 .. (len + 15) \div 16 |-> Row(b, len, 16 * (k - 1))]
=============================================================================

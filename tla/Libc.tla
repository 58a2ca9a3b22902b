-------------------------------- MODULE Libc -------------------------------
(***************************************************************************)
(* The C library of the tasks (tasks/libc) and the integer functions of    *)
(* the kernel, one call per behaviour.  The functions keep no state, so    *)
(* what there is to say about a call is what it answers, next to what      *)
(* other functions make of that answer.                                    *)
(***************************************************************************)
EXTENDS CStrings, Stdio

CONSTANTS Strings,       \* strings over Letter
          Letter,        \* characters, as numbers
          Memories,      \* contents of the memory, with a 0 at the end
          Number,        \* values of a long
          Registers,     \* arguments of %b
          Tids,          \* arguments of %t
          Words,         \* texts without spaces
          MaxWidth       \* bound of the field widths

VARIABLES call,          \* the function, or family of functions, and arguments
          answer

libc == <<call, answer>>

Idle == [fn |-> "none", args |-> <<>>]

LibcInit == call = Idle /\ answer = <<>>

Returns(fn, args, value) ==
  /\ call' = [fn |-> fn, args |-> args]
  /\ answer' = value

(***************************************************************************)
(* string.h                                                                *)
(***************************************************************************)
CompareStrings ==
  \E a, b \in Strings, n \in 0 .. 3 :
    Returns("compare", <<a, b, n>>,
            [strcmp |-> strcmp(a, b), strncmp |-> strncmp(a, b, n),
             memcmp |-> IF n > Len(a) \/ n > Len(b) THEN 0 ELSE memcmp(a, b, n)])

Search ==
  \E s, t \in Strings, c \in Letter :
    Returns("search", <<s, t, c>>,
            [strchr |-> strchr(s, c), strrchr |-> strrchr(s, c), strspn |-> strspn(s, t),
             strcspn |-> strcspn(s, t), strpbrk |-> strpbrk(s, t), strstr |-> strstr(s, t)])

Address8 == 0 .. SIZES - 1
Fits(a, n) == a + n <= SIZES

\* Two strings in memory that do not overlap, with room for `text' at `at'.
Apart(mem, to, from, at, n) ==
  /\ Fits(at, n)
  /\ from + Len(StringAt(mem, from)) < to \/ at + n <= from

Copy ==
  \E mem \in Memories, to, from \in Address8 :
    LET size == Len(StringAt(mem, from)) + 1
        end == to + Len(StringAt(mem, to))
    IN  \/ /\ Apart(mem, to, from, to, size)
           /\ Returns("strcpy", <<mem, to, from, 0>>, strcpy(mem, to, from))
        \/ /\ Apart(mem, to, from, end, size)
           /\ Returns("strcat", <<mem, to, from, 0>>, strcat(mem, to, from))
        \/ \E n \in 0 .. SIZES :
             \/ /\ Apart(mem, to, from, to, Larger(size, n)) /\ size <= n
                /\ Returns("strncpy", <<mem, to, from, n>>, strncpy(mem, to, from, n))
             \/ /\ Apart(mem, to, from, end, size)
                /\ Returns("strncat", <<mem, to, from, n>>, strncat(mem, to, from, n))
             \/ /\ Fits(to, n) /\ Fits(from, n)
                /\ Returns("memmove", <<mem, to, from, n>>, memmove(mem, to, from, n))
             \/ /\ Fits(to, n)
                /\ Returns("memset", <<mem, to, from, n>>, memset(mem, to, from, n))

(***************************************************************************)
(* stdio.h and stdlib.h                                                    *)
(***************************************************************************)
Flags == {<<>>, <<"-">>, <<"#">>, <<"+">>, <<" ", "#">>, <<"+", "-">>, <<"#", "-">>}

\* The directives of a conversion: flags, a `0', and a width either written
\* out or taken from an argument.
Width(w) == {<<digs[w + 1]>>, <<"*">>}
Form(flags, zero, w, tail) == <<"%">> \o flags \o zero \o w \o tail
WithWidth(text, w, arg) == IF text = <<"*">> THEN <<w, arg>> ELSE <<arg>>

\* The conversions that fill a field, with their arguments.
Fields ==
  ({<<c>> : c \in {"d", "u", "x", "o", "z", "D", "U", "X", "O", "Z"}} \X Number)
    \union ({<<"l", "l", c>> : c \in {"d", "x"}} \X Number)
    \union ({<<"t">>, <<"l", "t">>} \X Tids)
    \union ({<<"s">>, <<".", "2", "s">>} \X (Words \union {NULL_TEXT}))

Format ==
  \E flags \in Flags, zero \in {<<>>, <<"0">>}, f \in Fields, w \in 1 .. MaxWidth :
    \E text \in Width(w) :
      Returns("format", <<flags, zero, w, f>>,
              _doprnt(Form(flags, zero, text, f[1]), WithWidth(text, w, f[2]), 10))

\* Numbers that are read back, by the function that goes with the directive.
ReadBase(c) == CASE c \in {"d", "u"} -> 10 [] c = "o" -> 8 [] c \in {"x", "z"} -> 16
Signedness(c) == IF c \in {"d", "z"} THEN "strtol" ELSE "strtoul"

Parse ==
  \E flags \in {<<>>, <<"-">>, <<"#">>, <<" ">>}, zero \in {<<>>, <<"0">>},
     w \in 1 .. MaxWidth, c \in {"d", "u", "x", "o", "z"}, v \in Number :
    \E base \in {ReadBase(c)} \union (IF flags = <<"#">> /\ zero = <<>> THEN {0} ELSE {}) :
      LET text == _doprnt(Form(flags, zero, <<digs[w + 1]>>, <<c>>), <<v>>, 10)
      IN  Returns("parse", <<c, v, text>>,
                  IF Signedness(c) = "strtol" THEN strtol(text, base) ELSE strtoul(text, base))

\* Directives for both printf and scanf: two numbers, or a word and a number.
ScanForms == {<<"%", "d", " ", "%", "x">>, <<"%", "x", ",", "%", "d", "\n">>}
WordForm == <<"%", "s", "\n", "%", "d">>

Scan ==
  \/ \E fmt \in ScanForms, v, u \in Number :
       Returns("scan", <<fmt, <<v, u>>>>, sscanf(sprintf(fmt, <<v, u>>), <<" ">>, fmt))
  \/ \E w \in Words, v \in Number :
       Returns("scan", <<WordForm, <<w, v>>>>,
               sscanf(sprintf(WordForm, <<w, v>>), <<" ">>, WordForm))

PrintForms ==
  {<<<<"%", "s", "\n", "%", "c", "%", "s">>, <<w, c, u>>>> :
     w \in Words, u \in Words, c \in {"a", "\n", NUL}}
    \union {<<<<"r", "=", "%", "b", "%", "%">>, <<r>>>> : r \in Registers}
    \union {<<<<"%", "p", " ", "%", "*", ".", "*", "s", "%">>, <<v, 3, 1, w>>>> :
              v \in Number, w \in Words}

PrintOut ==
  \E form \in PrintForms :
    \/ Returns("printf", form, printf(form[1], form[2]))
    \/ \E size \in 0 .. 2 * MaxWidth :
         Returns("snprintf", <<form[1], form[2], size>>, snprintf(size, form[1], form[2]))

\* Byte k of the buffer dumped is k, and one more byte lies behind it.
Dump == \E len \in 0 .. 33 : Returns("hexdump", <<len>>, hexdump([k \in 1 .. len + 1 |-> k], len))

(***************************************************************************)
(* kernel/math.c and ctype.h                                               *)
(***************************************************************************)
Arithmetic ==
  \/ \E k \in 1 .. 30, d \in {-1, 0, 1} :
       Returns("ilog2", <<2^k + d>>, [debug |-> ilog2[2^k + d], ndebug |-> ilog2_NDEBUG(2^k + d)])
  \/ \E arr \in [1 .. 4 -> {0, 2, 6, 9}] : Returns("gcd4", arr, gcd4(arr))

Classify ==
  \E c \in 0 .. 255 :
    Returns("ctype", c, {class \in {"cntrl", "space", "digit", "lower", "upper", "punct"} :
                           CASE class = "cntrl" -> iscntrl(c)
                             [] class = "space" -> isspace(c) /\ isprint(c)
                             [] class = "digit" -> isdigit(c)
                             [] class = "lower" -> islower(c)
                             [] class = "upper" -> isupper(c)
                             [] class = "punct" -> ispunct(c)})

LibcNext ==
  /\ call = Idle
  /\ \/ CompareStrings \/ Search \/ Copy
     \/ Format \/ Parse \/ Scan \/ PrintOut \/ Dump
     \/ Arithmetic \/ Classify

(***************************************************************************)
(* Properties                                                              *)
(***************************************************************************)
Sign(n) == IF n > 0 THEN 1 ELSE IF n < 0 THEN -1 ELSE 0

\* A string as the digits of a number, with 0 for what is behind its end:
\* strings are in order as these numbers are.
Rank(s) == FoldLeft(LAMBDA r, k : 8 * r + At(s, k), 0, [k \in 1 .. 4 |-> k])
Cut(s, n) == SubSeq(s, 1, Larger(0, Min({n, Len(s)})))

\* strcmp (strcmp.c:50) and strncmp put strings in the order of a dictionary,
\* strncmp for the strings cut to n, and memcmp agrees where both are defined.
OrdersStrings ==
  call.fn = "compare" =>
    LET a == call.args[1]  b == call.args[2]  n == call.args[3]
    IN  /\ Sign(answer.strcmp) = Sign(Rank(a) - Rank(b))
        /\ Sign(answer.strncmp) = Sign(Rank(Cut(a, n)) - Rank(Cut(b, n)))
        /\ n <= Len(a) /\ n <= Len(b) => Sign(answer.memcmp) = Sign(answer.strncmp)

\* The functions that search, each with its own loop (strcspn.c:49, strpbrk.c:46
\* and the others), find the same things.
SearchesAgree ==
  call.fn = "search" =>
    LET s == call.args[1]  t == call.args[2]  c == call.args[3]
        others == SetToSeq(Letter \ {t[k] : k \in DOMAIN t})
        mirrored == strchr(Reverse(s), c)
    IN  /\ answer.strpbrk = IF answer.strcspn = strlen(s) THEN 0 ELSE answer.strcspn + 1
        /\ answer.strspn = strcspn(s, others)
        /\ answer.strchr = strpbrk(s, <<c>>)
        /\ answer.strrchr = IF mirrored = 0 THEN 0 ELSE Len(s) + 1 - mirrored
        /\ IF answer.strstr = 0 THEN \A k \in 1 .. Len(s) : ~IsPrefix(t, SubSeq(s, k, Len(s)))
           ELSE /\ IsPrefix(t, SubSeq(s, answer.strstr, Len(s)))
                /\ \A k \in 1 .. answer.strstr - 1 : ~IsPrefix(t, SubSeq(s, k, Len(s)))

\* The functions of string/, each a loop of its own with its own end
\* (strcmp.c:50, strcspn.c:62), agree with the dictionary and with each other.
StringsAgree == OrdersStrings /\ SearchesAgree

\* What a copy leaves in memory: text from address a on, and the rest as it was.
With(mem, a, text) ==
  [x \in Address8 |-> IF x \in a .. a + Len(text) - 1 THEN text[x - a + 1] ELSE mem[x]]

\* Every copy writes what it should and no other byte: memmove also when the
\* buffers overlap (memmove.c:18-23), strncat at most n + 1 bytes behind the
\* string (strncat.c:47-48), strncpy exactly n as long as the source is shorter.
CopiesExactly ==
  call.fn \in {"strcpy", "strcat", "strncpy", "strncat", "memmove", "memset"} =>
    LET mem == call.args[1]  to == call.args[2]  from == call.args[3]  n == call.args[4]
        source == StringAt(mem, from)
        end == to + Len(StringAt(mem, to))
    IN  answer =
          CASE call.fn = "strcpy"  -> With(mem, to, Append(source, 0))
            [] call.fn = "strcat"  -> With(mem, end, Append(source, 0))
            [] call.fn = "strncpy" -> With(mem, to, [k \in 1 .. n |-> At(source, k)])
            [] call.fn = "strncat" -> With(mem, end, Append(Cut(source, n), 0))
            [] call.fn = "memmove" -> With(mem, to, [k \in 1 .. n |-> mem[from + k - 1]])
            [] call.fn = "memset"  -> With(mem, to, [k \in 1 .. n |-> from])

\* doprnt.c:64-67 and 128: a field is as wide as it was asked to be, or as wide
\* as what it shows.  A text cut short and adjusted to the left is excepted.
FieldFilled ==
  call.fn = "format" =>
    LET flags == call.args[1]  w == call.args[3]  conv == call.args[4][1]  arg == call.args[4][2]
        natural == _doprnt(Form(flags, <<>>, <<>>, conv), <<arg>>, 10)
        cutShort == conv = <<".", "2", "s">> /\ Len(arg) > 2
    IN  ~(cutShort /\ Contains(flags, "-")) => Len(answer) = Larger(w, Len(natural))

\* What _doprnt writes, strtol or strtoul reads (doprnt.c:561-611, strtol.c:31-47),
\* whatever pads the number, and finds out the base from the prefix of `#'.
ReadBack ==
  call.fn = "parse" =>
    LET c == call.args[1]  v == call.args[2]  text == call.args[3]
    IN  /\ answer.value = IF Signedness(c) = "strtol" THEN v ELSE v % 2 ^ LONG
        /\ \A k \in answer.end .. Len(text) : text[k] = " "

\* sscanf reads what sprintf wrote with the same directives, and stops there,
\* as long as a word is followed by a space (doscan.c:140-160).
ScannedBack ==
  call.fn = "scan" => answer.vals = 2 /\ answer.stored = call.args[2]

\* What the formatted output writes (doprnt.c:561-611), the parsers read back
\* (strtol.c:26-67, doscan.c:77-160).
ReadsBack == ReadBack /\ ScannedBack

NotNul(c) == c # NUL

\* printf.c:52-72: through a buffer of any size and calls of puts, write and
\* putchar, the characters arrive as _doprnt made them, and once each.
WritesSpellText ==
  call.fn = "printf" =>
    SelectSeq(FlattenSeq(answer), NotNul)
      = SelectSeq(_doprnt(call.args[1], call.args[2], 0), NotNul)

\* sprintf.c:38-51: snprintf stores the text as far as it fits, ended by a NUL.
Truncates ==
  call.fn = "snprintf" =>
    answer = Append(Cut(_doprnt(call.args[1], call.args[2], 0), call.args[3]), NUL)

\* hexdump.c:26-41: every row is as wide as the border, and the byte at offset
\* j is in the same columns whatever the length; none behind the end is shown.
RowsAligned ==
  call.fn = "hexdump" =>
    LET len == call.args[1]
    IN  \A k \in DOMAIN answer :
          /\ Len(answer[k]) = 77
          /\ \A c \in 0 .. 15 :
               LET j == 16 * (k - 1) + c
                   at == 18 + 2 * c + c \div 4
               IN  SubSeq(answer[k], at, at + 1) =
                     IF j < len THEN printnum((j + 1) \div 16, 16) \o printnum((j + 1) % 16, 16)
                                ELSE <<" ", " ">>

\* Text arrives in full, once and in its place: through the fields of _doprnt,
\* the buffer of printf, the limit of snprintf and the rows of hexdump.
TextArrives == FieldFilled /\ WritesSpellText /\ Truncates /\ RowsAligned

\* math.c:41-104: the two versions of ilog2 agree, and find the highest bit.
IlogsAgree ==
  call.fn = "ilog2" =>
    LET r == answer.ndebug
    IN  answer.debug = r /\ 2^r <= call.args[1] /\ call.args[1] \div 2 < 2^r

\* math.c:106-122: gcd4 is the greatest number that divides all four.
GcdDivides ==
  call.fn = "gcd4" /\ (\E k \in 1 .. 4 : call.args[k] # 0) =>
    answer = Max({d \in 1 .. 9 : \A k \in 1 .. 4 : call.args[k] % d = 0})

\* ctype.h: every character is of one class, control characters and the space
\* included, and upper and lower case letters correspond.
ClassesPartition ==
  call.fn = "ctype" =>
    LET c == call.args
    IN  /\ Cardinality(answer) = 1
        /\ (c # toupper(c)) <=> answer = {"lower"}
        /\ islower(c) => isupper(toupper(c)) /\ tolower(toupper(c)) = c
        /\ isxdigit(c) => isalnum(c) /\ isascii(c)

\* What math.c and ctype.h compute twice, or in pieces, fits together.
ArithmeticRight == IlogsAgree /\ GcdDivides /\ ClassesPartition
=============================================================================

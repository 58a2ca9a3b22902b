------------------------------ MODULE CStrings -----------------------------
(***************************************************************************)
(* tasks/libc/string.  A string is the sequence of its characters, which   *)
(* are numbers; the byte after the last one is 0.  A pointer into a string *)
(* is a position, counted from 1, and NULL is 0.                           *)
(*                                                                         *)
(* The functions that write work on a memory, which is a function on the   *)
(* 2^SIZE_T addresses, and so do their counters: size_t wraps around.      *)
(***************************************************************************)
EXTENDS Integers, SequencesExt, FiniteSetsExt

CONSTANT SIZE_T         \* bits of an address and of a size_t

ASSUME SizeAssumption == SIZE_T \in Nat

SIZES == 2 ^ SIZE_T
At(s, k) == IF k <= Len(s) THEN s[k] ELSE 0

(***************************************************************************)
(* Functions that read: a loop over positions 1, 2, ... stops at the least *)
(* one that ends it.                                                       *)
(***************************************************************************)

strlen(s) == Min({k \in 1 .. Len(s) + 1 : At(s, k) = 0}) - 1

strcmp(s1, s2) ==
  LET k == Min({n \in 1 .. Len(s1) + 1 : At(s1, n) = 0 \/ At(s2, n) = 0 \/ At(s1, n) # At(s2, n)})
  IN  At(s1, k) - At(s2, k)

strncmp(s1, s2, n) ==
  LET k == Min({m \in 1 .. Len(s1) + 1 : m > n \/ At(s1, m) # At(s2, m) \/ At(s1, m) = 0})
  IN  IF k > n THEN 0 ELSE At(s1, k) - At(s2, k)

memcmp(b1, b2, size) ==
  LET k == Min({m \in 1 .. size + 1 : m > size \/ b1[m] # b2[m]})
  IN  IF k > size THEN 0 ELSE b1[k] - b2[k]

strchr(s, c) ==
  LET k == Min({m \in 1 .. Len(s) + 1 : At(s, m) \in {c, 0}})
  IN  IF At(s, k) = c THEN k ELSE 0

\* The terminating 0 is never found.
strrchr(s, c) == Max({k \in 1 .. Len(s) : s[k] = c} \union {0})

strspn(s1, s2) ==
  Min({k \in 1 .. Len(s1) + 1 : ~Contains(s2, At(s1, k))}) - 1

\* Fault: the 0 at the end of s2 does not stop the scan at that of s1.
strcspn_Past(s1, s2) ==
  Min({k \in 1 .. Len(s1) + 2 : Contains(s2, At(s1, k)) \/ k > Len(s1) + 1}) - 1

strcspn(s1, s2) ==
  Min({k \in 1 .. Len(s1) + 1 : Contains(s2, At(s1, k)) \/ At(s1, k) = 0}) - 1

strpbrk(s1, s2) ==
  LET k == Min({m \in 1 .. Len(s1) + 1 : At(s1, m) = 0 \/ Contains(s2, At(s1, m))})
  IN  IF At(s1, k) = 0 THEN 0 ELSE k

strstr(haystack, needle) ==
  LET last == strlen(haystack) - strlen(needle) + 1
      Found(k) == memcmp(SubSeq(haystack, k, Len(haystack)), needle, strlen(needle)) = 0
      k == IF last < 1 THEN 1 ELSE Min({m \in 1 .. last + 1 : m > last \/ Found(m)})
  IN  IF k > last THEN 0 ELSE k

(***************************************************************************)
(* Functions that write                                                    *)
(***************************************************************************)

\* The string at address a.
StringAt(mem, a) ==
  LET n == CHOOSE n \in 0 .. SIZES - 1 :
             /\ mem[(a + n) % SIZES] = 0
             /\ \A k \in 0 .. n - 1 : mem[(a + k) % SIZES] # 0
  IN  [k \in 1 .. n |-> mem[(a + k - 1) % SIZES]]

\* The bytes of s stored from address a on, one after the other.
Store(mem, a, s) ==
  FoldLeftDomain(LAMBDA m, k : [m EXCEPT ![(a + k - 1) % SIZES] = s[k]], mem, s)

Zeros(n) == [k \in 1 .. n |-> 0]

strcpy(mem, to, from) == Store(mem, to, StringAt(mem, from) \o Zeros(1))

\* The test that ends the first loop at the count has already decremented it
\* below 0, to the largest size_t, from where the second loop counts down.
strncpy(mem, to, from, count) ==
  LET s == StringAt(mem, from)
  IN  IF Len(s) < count
        THEN Store(mem, to, s \o Zeros(count - Len(s)))
        ELSE Store(mem, to, SubSeq(s, 1, count) \o Zeros(SIZES - 1))

strcat(mem, s, add) == strcpy(mem, s + Len(StringAt(mem, s)), add)

strncat(mem, dst, src, n) ==
  LET s == StringAt(mem, src)
      d == dst + Len(StringAt(mem, dst))
  IN  IF n = 0 THEN mem ELSE Store(mem, d, SubSeq(s, 1, Min({n, Len(s)})) \o Zeros(1))

memset(mem, to, c, len) == Store(mem, to, [k \in 1 .. len |-> c])

\* One byte at a time, towards the end that is not overwritten first.
Move(mem, dest, src, k) == [mem EXCEPT ![dest + k] = mem[src + k]]

\* Fault: always upwards.
memmove_Upwards(mem, dest, src, count) ==
  FoldLeft(LAMBDA m, k : Move(m, dest, src, k), mem, [k \in 1 .. count |-> k - 1])

\* memcpy is another name for it.
memmove(mem, dest, src, count) ==
  FoldLeft(LAMBDA m, k : Move(m, dest, src, k), mem,
           [k \in 1 .. count |-> IF dest < src THEN k - 1 ELSE count - k])
=============================================================================

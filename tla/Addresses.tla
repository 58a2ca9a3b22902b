------------------------------ MODULE Addresses ----------------------------
(***************************************************************************)
(* Buffers in memory: valid_addr of kernel/memcheck.c and what it means.   *)
(* Addresses and sizes are 32 bits wide, MAX being 2^32.                   *)
(***************************************************************************)
EXTENDS Integers

CONSTANT MAX

ASSUME MaxAssumption == MAX \in Nat \ {0}

Address == 0 .. MAX - 1

\* Fault: the sum is not checked for overflow.
valid_addr_NoWrap(start, count, base, bound) ==
  LET mem_end == (start + count) % MAX
  IN  start >= base /\ start < bound /\ mem_end <= bound

valid_addr(start, count, base, bound) ==
  LET mem_end == (start + count) % MAX
  IN  start >= base /\ start < bound /\ mem_end >= start /\ mem_end <= bound

\* memcheck.c:12-22: all bytes of the buffer are in the segment, as is its
\* address if there are none.
WithinBounds(start, count, base, bound) ==
  \A a \in {start} \union (start .. start + count - 1) : base <= a /\ a < bound
=============================================================================

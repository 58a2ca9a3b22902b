-------------------------------- MODULE MCLibc -----------------------------
(* Inputs for Libc: strings of up to three characters, a memory of eight    *)
(* bytes with room for two strings, longs of eight bits.                    *)
EXTENDS Libc

Upto(n, S) == UNION {[1 .. k -> S] : k \in 0 .. n}
LetterSet == {1, 2}
StringSet == Upto(3, {1, 2})
MemorySet == {m \in [0 .. SIZES - 1 -> {0, 1}] : m[SIZES - 1] = 0 /\ m[3] = 0}
NumberSet == {-128, -77, -9, -1, 0, 1, 8, 10, 63, 127}
WordSet == {<<"a">>, <<"a", "b", "c">>}
RegisterSet ==
  {[value |-> v, base |-> b,
    fields |-> <<[high |-> 4, low |-> 3, name |-> <<"F", "=">>],
                 [high |-> 2, low |-> 0, name |-> <<"T">>],
                 [high |-> 1, low |-> 0, name |-> <<"O">>]>>] : v \in {0, 3, 11}, b \in {8, 16}}
TidSet == [task : {1, 16, 300}, lthread : {5, 20}, high : {3}, low : {2147483647}]
=============================================================================

------------------------------ MODULE MCConsole ----------------------------
(* Tasks and characters are model values given in the configuration.  What *)
(* the console does depends on neither which task nor which character.     *)
EXTENDS Console

Symmetry == Permutations(Tasks) \union Permutations(Chars)
=============================================================================

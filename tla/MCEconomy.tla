------------------------------ MODULE MCEconomy -----------------------------
(* TLC instances of Economy.                                               *)
EXTENDS Economy

\* Characters and items are interchangeable.
Symmetry == Permutations(Character) \cup Permutations(Item)
=============================================================================

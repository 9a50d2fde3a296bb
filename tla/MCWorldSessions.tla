--------------------------- MODULE MCWorldSessions --------------------------
(* TLC instances of WorldSessions.                                         *)
EXTENDS WorldSessions

\* The addresses are interchangeable, and so are the accounts of equal rank.
Symmetry == Permutations(Session) \cup Permutations(Account \ GMs)

LimitOne == {1}
=============================================================================

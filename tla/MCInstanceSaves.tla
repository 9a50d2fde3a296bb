-------------------------- MODULE MCInstanceSaves ---------------------------
(* TLC instances of InstanceSaves.                                         *)
EXTENDS InstanceSaves, TLC

\* Characters are interchangeable, and so are the places for groups.
Symmetry == Permutations(Player) \cup Permutations(Group)
=============================================================================

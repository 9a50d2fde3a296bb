------------------------ MODULE MCBattlegroundQueue -------------------------
(* TLC instances of BattlegroundQueue.                                     *)
EXTENDS BattlegroundQueue

CONSTANTS a1, a2, a3, h1, h2

AloneOrAlliance == {{p} : p \in Player} \cup {{a1, a2}}
=============================================================================

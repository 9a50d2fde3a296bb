---------------------------- MODULE MCMapUpdater ----------------------------
(* TLC instances of MapUpdater.                                            *)
EXTENDS MapUpdater, TLC

CONSTANTS b1, b2, i1, i2

\* One map with two instances, as MapInstanced keeps them, and a plain one.
TwoInstances == (i1 :> b1) @@ (i2 :> b1)
=============================================================================

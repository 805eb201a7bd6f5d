------------------------- MODULE MCStrategyRegistry -------------------------
(* Two versions; one process that saves while others sync and load.         *)
EXTENDS StrategyRegistry
=============================================================================

-------------------------- MODULE MCCommandExecution --------------------------
EXTENDS CommandExecution, TLC

Symmetry == Permutations(Players) \cup Permutations(Keys)
=============================================================================

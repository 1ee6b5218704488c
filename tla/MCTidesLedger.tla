---------------------------- MODULE MCTidesLedger ----------------------------
EXTENDS TidesLedger, TLC

Symmetry == Permutations(Block) \cup Permutations(Batch)
=============================================================================

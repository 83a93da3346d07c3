-------------------------- MODULE MCCellResolution --------------------------
(* Instances of CellResolution for TLC.                                    *)
EXTENDS CellResolution, TLC

Swaps == Permutations(Shells) \cup Permutations(Brokers) \cup Permutations(Dirs)
=============================================================================

--------------------------- MODULE MCOrchestrator ---------------------------
(* Instances of Orchestrator for TLC.                                      *)
EXTENDS Orchestrator, TLC

Slots == Permutations(Sups)

SlotsAndRequests == Permutations(Sups) \cup Permutations(Requests)
=============================================================================

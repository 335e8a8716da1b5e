------------------------ MODULE MCMainSocketManager -------------------------
(* Symmetries for model checking MainSocketManager.                        *)
EXTENDS MainSocketManager, TLC

Symmetry == Permutations(Sockets) \cup Permutations(Callers)
=============================================================================

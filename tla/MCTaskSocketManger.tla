------------------------- MODULE MCTaskSocketManger -------------------------
(* Symmetries for model checking TaskSocketManger.                         *)
EXTENDS TaskSocketManger, TLC

Symmetry ==
  Permutations(Clients) \cup Permutations(Pools) \cup Permutations(Conns)
=============================================================================
